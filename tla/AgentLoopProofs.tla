--------------------------- MODULE AgentLoopProofs ---------------------------
(***************************************************************************)
(* Why run_turn keeps the message list and the trace in step, answers      *)
(* every tool call, never ships a plan the guardrail let through unseen,   *)
(* and only ever extends the stored conversation: for any responses, any   *)
(* iteration budget and any number of turns.                               *)
(*                                                                         *)
(* The lemmas on Say and Record, which every action is built from, come    *)
(* first; then one invariant after another, each over the ones before it.  *)
(***************************************************************************)
EXTENDS AgentLoop, FiniteSetTheorems, SequenceTheorems, TLAPS

-----------------------------------------------------------------------------
\* The operators the loop is built from

\* state.messages.append adds one message and changes nothing else.
LEMMA SayAppends ==
    ASSUME NEW s \in State, NEW m \in Message
    PROVE  /\ Say(s, m) \in State
           /\ Say(s, m).messages = Append(s.messages, m)
           /\ Say(s, m).trace = s.trace
<1>1. Append(s.messages, m) \in Seq(Message)
    BY AppendProperties DEF State
<1>2. QED
    BY <1>1 DEF Say, State

\* _trace adds its events and changes nothing else.
LEMMA RecordAppends ==
    ASSUME NEW s \in State, NEW e \in Seq(Event)
    PROVE  /\ Record(s, e) \in State
           /\ Record(s, e).trace = s.trace \o e
           /\ Record(s, e).messages = s.messages
<1>1. s.trace \o e \in Seq(Event)
    BY ConcatProperties DEF State
<1>2. QED
    BY <1>1 DEF Record, State

\* The messages of the user's side are messages.
LEMMA UserMessageType ==
    ASSUME NEW text \in Texts
    PROVE  /\ UserMessage(text) \in Message
           /\ UserMessage(text).uses = <<>>
           /\ UserMessage(text).results = <<>>
           /\ UserMessage(text).role = "user"
           /\ UserMessage(text).text = text
           /\ UserMessage(text).stop = "none"
    BY DEF UserMessage, Message

LEMMA ResultMessageType ==
    ASSUME NEW ids \in Seq(UseId)
    PROVE  /\ ResultMessage(ids) \in Message
           /\ ResultMessage(ids).uses = <<>>
           /\ ResultMessage(ids).results = ids
           /\ ResultMessage(ids).role = "user"
           /\ ResultMessage(ids).text = "none"
           /\ ResultMessage(ids).stop = "none"
    BY DEF ResultMessage, Message, Texts

\* The events of a type that record no block.
LEMMA PlainEventType ==
    ASSUME NEW type \in {"user_message", "assistant_text", "stop"}
    PROVE  /\ PlainEvent(type) \in Event
           /\ PlainEvent(type).type = type
           /\ PlainEvent(type).name = ""
           /\ PlainEvent(type) # GuardrailEvent
           /\ <<PlainEvent(type)>> \in Seq(Event)
<1>1. PlainEvent(type) \in Event
    BY DEF PlainEvent, Event
<1>2. PlainEvent(type).type = type /\ PlainEvent(type).name = ""
    BY DEF PlainEvent
<1>3. GuardrailEvent.type = "tool_use"
    BY DEF GuardrailEvent
<1>4. <<PlainEvent(type)>> \in Seq(Event)
    BY <1>1
<1>5. QED
    BY <1>1, <1>2, <1>3, <1>4

LEMMA GuardrailEventType == GuardrailEvent \in Event
    BY DEF GuardrailEvent, Event

\* Every block of a response gets an id of its own: message, then position.
LEMMA UseIdsAreNumbered ==
    ASSUME NEW s \in State, NEW r \in Response
    PROVE  /\ UseIds(s, r) \in Seq(UseId)
           /\ Len(UseIds(s, r)) = Len(r.tools)
           /\ \A k \in 1..Len(r.tools) :
                 UseIds(s, r)[k] = <<Len(s.messages) + 1, k>>
<1>1. Len(s.messages) + 1 \in Nat \ {0} /\ Len(r.tools) \in Nat
    BY DEF State, Response
<1>2. \A k \in 1..Len(r.tools) : <<Len(s.messages) + 1, k>> \in UseId
    BY <1>1 DEF UseId
<1>3. UseIds(s, r) \in [1..Len(r.tools) -> UseId]
    BY <1>2 DEF UseIds
<1>4. QED
    BY <1>1, <1>3 DEF UseIds

\* The message and the events one response leaves.
AnswerMessage(s, r) == AssistantMessage(r, ContentText(r), UseIds(s, r))
AnswerEvents(s, r)  == TextEvents(r) \o UseEvents(s, r)

LEMMA AnswerMessageType ==
    ASSUME NEW s \in State, NEW r \in Response
    PROVE  /\ AnswerMessage(s, r) \in Message
           /\ AnswerMessage(s, r).uses = UseIds(s, r)
           /\ AnswerMessage(s, r).results = <<>>
           /\ AnswerMessage(s, r).role = "assistant"
           /\ AnswerMessage(s, r).stop = r.stop
<1>1. ContentText(r) \in Texts /\ r.stop \in StopReasons
    BY DEF ContentText, Response, Texts
<1>2. QED
    BY <1>1, UseIdsAreNumbered DEF AnswerMessage, AssistantMessage, Message

LEMMA UseEventsType ==
    ASSUME NEW s \in State, NEW r \in Response
    PROVE  /\ UseEvents(s, r) \in Seq(Event)
           /\ Len(UseEvents(s, r)) = Len(r.tools)
           /\ \A k \in 1..Len(r.tools) :
                 /\ UseEvents(s, r)[k].type = "tool_use"
                 /\ UseEvents(s, r)[k].id = UseIds(s, r)[k]
                 /\ UseEvents(s, r)[k] # GuardrailEvent
<1>1. Len(r.tools) \in Nat /\ \A k \in 1..Len(r.tools) : r.tools[k] \in Tools
    BY DEF Response
<1>2. \A k \in 1..Len(r.tools) : UseIds(s, r)[k] \in UseId
    BY UseIdsAreNumbered
<1>3. \A k \in 1..Len(r.tools) :
         [type |-> "tool_use", id |-> UseIds(s, r)[k], name |-> r.tools[k]] \in Event
    BY <1>1, <1>2 DEF Event
<1>4. UseEvents(s, r) \in [1..Len(r.tools) -> Event]
    BY <1>3 DEF UseEvents
<1>5. \A k \in 1..Len(r.tools) : r.tools[k] # GuardrailName
    BY <1>1 DEF Tools, CritiqueTool, GuardrailName
<1>6. /\ UseEvents(s, r) \in Seq(Event)
      /\ Len(UseEvents(s, r)) = Len(r.tools)
    BY <1>1, <1>4
<1>7. ASSUME NEW k \in 1..Len(r.tools)
      PROVE  /\ UseEvents(s, r)[k].type = "tool_use"
             /\ UseEvents(s, r)[k].id = UseIds(s, r)[k]
             /\ UseEvents(s, r)[k].name = r.tools[k]
    BY DEF UseEvents
<1>8. GuardrailEvent.name = GuardrailName
    BY DEF GuardrailEvent
<1>9. QED
    BY <1>5, <1>6, <1>7, <1>8

LEMMA TextEventsType ==
    ASSUME NEW r \in Response
    PROVE  /\ TextEvents(r) \in Seq(Event)
           /\ \A k \in 1..Len(TextEvents(r)) :
                 /\ TextEvents(r)[k].type = "assistant_text"
                 /\ TextEvents(r)[k] # GuardrailEvent
<1>2. CASE r.text = "none"
    BY <1>2 DEF TextEvents
<1>3. CASE r.text # "none"
    <2>1. TextEvents(r) = <<PlainEvent("assistant_text")>>
        BY <1>3 DEF TextEvents
    <2>2. \A k \in 1..Len(TextEvents(r)) : TextEvents(r)[k] = PlainEvent("assistant_text")
        BY <2>1
    <2>3. QED
        BY <2>1, <2>2, PlainEventType
<1>4. QED
    BY <1>2, <1>3

LEMMA ResultEventsType ==
    ASSUME NEW ids \in Seq(UseId)
    PROVE  /\ ResultEvents(ids) \in Seq(Event)
           /\ Len(ResultEvents(ids)) = Len(ids)
           /\ \A k \in 1..Len(ids) :
                 /\ ResultEvents(ids)[k].type = "tool_result"
                 /\ ResultEvents(ids)[k].id = ids[k]
                 /\ ResultEvents(ids)[k] # GuardrailEvent
<1>1. \A k \in 1..Len(ids) :
         [type |-> "tool_result", id |-> ids[k], name |-> ""] \in Event
    BY DEF Event
<1>2. ResultEvents(ids) \in [1..Len(ids) -> Event]
    BY <1>1 DEF ResultEvents
<1>3. ResultEvents(ids) \in Seq(Event) /\ Len(ResultEvents(ids)) = Len(ids)
    BY <1>2
<1>4. ASSUME NEW k \in 1..Len(ids)
      PROVE  /\ ResultEvents(ids)[k].type = "tool_result"
             /\ ResultEvents(ids)[k].id = ids[k]
    BY DEF ResultEvents
<1>5. GuardrailEvent.type = "tool_use"
    BY DEF GuardrailEvent
<1>6. QED
    BY <1>3, <1>4, <1>5

\* One response appends one message and its events.
LEMMA WithResponseAppends ==
    ASSUME NEW s \in State, NEW r \in Response
    PROVE  /\ WithResponse(s, r) \in State
           /\ WithResponse(s, r).messages = Append(s.messages, AnswerMessage(s, r))
           /\ WithResponse(s, r).trace = s.trace \o AnswerEvents(s, r)
           /\ AnswerEvents(s, r) \in Seq(Event)
<1>1. AnswerEvents(s, r) \in Seq(Event)
    BY UseEventsType, TextEventsType, ConcatProperties DEF AnswerEvents
<1>2. WithResponse(s, r) = Record(Say(s, AnswerMessage(s, r)), AnswerEvents(s, r))
    BY DEF WithResponse, AnswerMessage, AnswerEvents
<1> DEFINE said == Say(s, AnswerMessage(s, r))
<1>3. /\ said \in State
      /\ said.messages = Append(s.messages, AnswerMessage(s, r))
      /\ said.trace = s.trace
    BY SayAppends, AnswerMessageType
<1> HIDE DEF said
<1>4. /\ Record(said, AnswerEvents(s, r)) \in State
      /\ Record(said, AnswerEvents(s, r)).trace = said.trace \o AnswerEvents(s, r)
      /\ Record(said, AnswerEvents(s, r)).messages = said.messages
    BY <1>1, <1>3, RecordAppends
<1>5. QED
    BY <1>1, <1>2, <1>3, <1>4 DEF said

LEMMA WithUserMessageAppends ==
    ASSUME NEW s \in State
    PROVE  /\ WithUserMessage(s) \in State
           /\ WithUserMessage(s).messages = Append(s.messages, UserMessage("plain"))
           /\ WithUserMessage(s).trace = s.trace \o <<PlainEvent("user_message")>>
<1>1. UserMessage("plain") \in Message
    BY UserMessageType DEF Texts
<1> DEFINE said == Say(s, UserMessage("plain"))
           asked == <<PlainEvent("user_message")>>
<1>2. /\ said \in State
      /\ said.messages = Append(s.messages, UserMessage("plain"))
      /\ said.trace = s.trace
    BY <1>1, SayAppends
<1>3. asked \in Seq(Event)
    BY PlainEventType
<1>4. WithUserMessage(s) = Record(said, asked)
    BY DEF WithUserMessage
<1> HIDE DEF said, asked
<1>5. /\ Record(said, asked) \in State
      /\ Record(said, asked).trace = said.trace \o asked
      /\ Record(said, asked).messages = said.messages
    BY <1>2, <1>3, RecordAppends
<1>6. QED
    BY <1>2, <1>4, <1>5 DEF asked

\* What FinalAnswer, Nudge and CollectResults make of the state.
Finished(s, r) ==
    [Record(WithResponse(s, r), <<PlainEvent("stop")>>) EXCEPT !.total_turns = @ + 1]
Nudged(s, r) ==
    Say(Record(WithResponse(s, r), <<GuardrailEvent>>), UserMessage("nudge"))
LastUses(s) == s.messages[Len(s.messages)].uses
Collected(s) ==
    Say(Record(s, ResultEvents(LastUses(s))), ResultMessage(LastUses(s)))

LEMMA CountingTurns ==
    ASSUME NEW s \in State
    PROVE  /\ [s EXCEPT !.total_turns = @ + 1] \in State
           /\ [s EXCEPT !.total_turns = @ + 1].messages = s.messages
           /\ [s EXCEPT !.total_turns = @ + 1].trace = s.trace
<1>1. s.total_turns + 1 \in Nat
    BY DEF State
<1>2. QED
    BY <1>1 DEF State

LEMMA FinishedAppends ==
    ASSUME NEW s \in State, NEW r \in Response
    PROVE  /\ Finished(s, r) \in State
           /\ Finished(s, r).messages = WithResponse(s, r).messages
           /\ Finished(s, r).trace = WithResponse(s, r).trace \o <<PlainEvent("stop")>>
<1> DEFINE w == WithResponse(s, r)
           stop == <<PlainEvent("stop")>>
           recorded == Record(w, stop)
<1>1. w \in State /\ stop \in Seq(Event)
    BY WithResponseAppends, PlainEventType
<1>2. Finished(s, r) = [recorded EXCEPT !.total_turns = @ + 1]
    BY DEF Finished
<1> HIDE DEF w, stop
<1>3. /\ recorded \in State
      /\ recorded.trace = w.trace \o stop
      /\ recorded.messages = w.messages
    BY <1>1, RecordAppends
<1> HIDE DEF recorded
<1>4. /\ [recorded EXCEPT !.total_turns = @ + 1] \in State
      /\ [recorded EXCEPT !.total_turns = @ + 1].messages = recorded.messages
      /\ [recorded EXCEPT !.total_turns = @ + 1].trace = recorded.trace
    BY <1>3, CountingTurns
<1>5. QED
    BY <1>2, <1>3, <1>4 DEF w, stop

LEMMA NudgedAppends ==
    ASSUME NEW s \in State, NEW r \in Response
    PROVE  /\ Nudged(s, r) \in State
           /\ Nudged(s, r).messages =
                Append(WithResponse(s, r).messages, UserMessage("nudge"))
           /\ Nudged(s, r).trace = WithResponse(s, r).trace \o <<GuardrailEvent>>
<1> DEFINE w == WithResponse(s, r)
           guard == <<GuardrailEvent>>
           recorded == Record(w, guard)
           reminder == UserMessage("nudge")
<1>1. w \in State /\ guard \in Seq(Event) /\ reminder \in Message
    BY WithResponseAppends, GuardrailEventType, UserMessageType DEF Texts
<1>2. Nudged(s, r) = Say(recorded, reminder)
    BY DEF Nudged
<1> HIDE DEF w, guard, reminder
<1>3. /\ recorded \in State
      /\ recorded.trace = w.trace \o guard
      /\ recorded.messages = w.messages
    BY <1>1, RecordAppends
<1> HIDE DEF recorded
<1>4. /\ Say(recorded, reminder) \in State
      /\ Say(recorded, reminder).messages = Append(recorded.messages, reminder)
      /\ Say(recorded, reminder).trace = recorded.trace
    BY <1>1, <1>3, SayAppends
<1>5. QED
    BY <1>2, <1>3, <1>4 DEF w, guard, reminder

LEMMA CollectedAppends ==
    ASSUME NEW s \in State, s.messages # <<>>
    PROVE  /\ LastUses(s) \in Seq(UseId)
           /\ Collected(s) \in State
           /\ Collected(s).messages = Append(s.messages, ResultMessage(LastUses(s)))
           /\ Collected(s).trace = s.trace \o ResultEvents(LastUses(s))
<1> DEFINE ids == LastUses(s)
           found == ResultEvents(ids)
           recorded == Record(s, found)
           answer == ResultMessage(ids)
<1>1. s.messages[Len(s.messages)] \in Message
    BY DEF State
<1>2. ids \in Seq(UseId)
    BY <1>1 DEF LastUses, Message
<1>3. Collected(s) = Say(recorded, answer)
    BY DEF Collected
<1> HIDE DEF ids
<1>4. found \in Seq(Event) /\ answer \in Message
    BY <1>2, ResultEventsType, ResultMessageType
<1> HIDE DEF found, answer
<1>5. /\ recorded \in State
      /\ recorded.trace = s.trace \o found
      /\ recorded.messages = s.messages
    BY <1>4, RecordAppends
<1> HIDE DEF recorded
<1>6. /\ Say(recorded, answer) \in State
      /\ Say(recorded, answer).messages = Append(recorded.messages, answer)
      /\ Say(recorded, answer).trace = recorded.trace
    BY <1>4, <1>5, SayAppends
<1>7. QED
    BY <1>2, <1>3, <1>5, <1>6 DEF ids, found, answer

-----------------------------------------------------------------------------
\* The shape of every state

\* What dispatch works on is there: the loop dispatches after a response.
TypeInv ==
    /\ TypeOK
    /\ pc = "dispatching" => state.messages # <<>>

\* The loop goes on, or the turn ends and its state is saved or refused: the
\* three ways a step that ran the API or the tools can leave the state s.
Leaves(s) ==
    /\ state' = s
    /\ saved' \in {saved, s}
    /\ turns' = turns
    /\ turnStart' = turnStart
    /\ pc' # "idle" => saved' = saved

\* Every step starts a turn, leaves one of four states, or gives up.
LEMMA StepShapes ==
    ASSUME TypeInv, Next
    PROVE  \/ StartTurn
           \/ \E r \in Response :
                 \/ FinalAnswer(r) /\ Leaves(Finished(state, r))
                 \/ Nudge(r) /\ Leaves(Nudged(state, r))
                 \/ BeginDispatch(r) /\ Leaves(WithResponse(state, r))
                 \/ EmptyToolUse(r) /\ Leaves(WithResponse(state, r))
           \/ CollectResults /\ Leaves(Collected(state))
           \/ TurnFails
<1> USE DEF Leaves, loopVars
<1>1. ASSUME NEW r \in Responses, FinalAnswer(r)
      PROVE  Leaves(Finished(state, r))
    BY <1>1 DEF FinalAnswer, EndTurn, SaveOrConflict, Finished
<1>2. ASSUME NEW r \in Responses, Nudge(r)
      PROVE  Leaves(Nudged(state, r))
    BY <1>2 DEF Nudge, NextIteration, SaveOrConflict, Nudged
<1>3. ASSUME NEW r \in Responses, BeginDispatch(r)
      PROVE  Leaves(WithResponse(state, r))
    BY <1>3 DEF BeginDispatch
<1>4. ASSUME NEW r \in Responses, EmptyToolUse(r)
      PROVE  Leaves(WithResponse(state, r))
    BY <1>4 DEF EmptyToolUse, EndTurn, SaveOrConflict
<1>5. ASSUME CollectResults
      PROVE  Leaves(Collected(state))
    BY <1>5 DEF CollectResults, NextIteration, SaveOrConflict, Collected, LastUses
<1>6. QED
    BY <1>1, <1>2, <1>3, <1>4, <1>5, ResponsesAssumption DEF Next

LEMMA InitTypes == Init => TypeInv
<1>1. NewState \in State
    BY DEF NewState, State
<1>2. "none" \in Texts
    BY DEF Texts
<1>3. 0 \in 0..MaxTurns /\ 1 \in 1..MaxIterations
    BY BoundsAssumption
<1>4. ASSUME Init PROVE guardrailFired \in BOOLEAN
    BY <1>4 DEF Init
<1>5. ASSUME Init
      PROVE  /\ pc = "idle"
             /\ state \in State /\ saved \in State
             /\ turns \in 0..MaxTurns /\ turnStart \in Nat
             /\ iteration \in 1..MaxIterations
    BY <1>1, <1>3, <1>5 DEF Init
<1>6. ASSUME Init PROVE reply \in Texts
    BY <1>2, <1>6 DEF Init
<1>7. QED
    BY <1>4, <1>5, <1>6 DEF TypeInv, TypeOK

LEMMA StepTypes == TypeInv /\ [Next]_vars => TypeInv'
<1> SUFFICES ASSUME TypeInv, [Next]_vars PROVE TypeInv'
    OBVIOUS
<1> USE DEF TypeInv, TypeOK
<1>1. CASE StartTurn
    <2>1. WithUserMessage(saved) \in State /\ Len(saved.trace) \in Nat
        BY WithUserMessageAppends DEF State
    <2>2. "none" \in Texts /\ turns + 1 \in 0..MaxTurns /\ 1 \in 1..MaxIterations
        BY <1>1, BoundsAssumption DEF StartTurn, Texts
    <2>3. QED
        BY <1>1, <2>1, <2>2 DEF StartTurn
<1>2. ASSUME NEW r \in Response, FinalAnswer(r), Leaves(Finished(state, r))
      PROVE  TypeInv'
    <2>1. Finished(state, r) \in State /\ r.text \in Texts
        BY FinishedAppends DEF Response
    <2>2. pc' = "idle" /\ reply' = r.text /\ UNCHANGED <<iteration, guardrailFired>>
        BY <1>2 DEF FinalAnswer, EndTurn, loopVars
    <2>3. QED
        BY <1>2, <2>1, <2>2 DEF Leaves
<1>3. ASSUME NEW r \in Response, Nudge(r), Leaves(Nudged(state, r))
      PROVE  TypeInv'
    <2>1. Nudged(state, r) \in State
        BY NudgedAppends
    <2>2. /\ pc' \in {"calling", "idle"}
          /\ reply' \in {reply, "exceeded"}
          /\ iteration' \in 1..MaxIterations
          /\ guardrailFired' = TRUE
        BY <1>3, BoundsAssumption DEF Nudge, NextIteration
    <2>3. QED
        BY <1>3, <2>1, <2>2 DEF Leaves
<1>4. ASSUME NEW r \in Response, BeginDispatch(r), Leaves(WithResponse(state, r))
      PROVE  TypeInv'
    <2>1. /\ WithResponse(state, r) \in State
          /\ WithResponse(state, r).messages # <<>>
        BY WithResponseAppends, AnswerMessageType, AppendProperties DEF State
    <2>2. /\ pc' = "dispatching"
          /\ UNCHANGED <<iteration, guardrailFired, reply>>
        BY <1>4 DEF BeginDispatch, loopVars
    <2>3. QED
        BY <1>4, <2>1, <2>2 DEF Leaves
<1>5. ASSUME NEW r \in Response, EmptyToolUse(r), Leaves(WithResponse(state, r))
      PROVE  TypeInv'
    <2>1. WithResponse(state, r) \in State
        BY WithResponseAppends
    <2>2. /\ pc' = "idle" /\ reply' = "exceeded"
          /\ UNCHANGED <<iteration, guardrailFired>>
        BY <1>5 DEF EmptyToolUse, EndTurn, loopVars
    <2>3. QED
        BY <1>5, <2>1, <2>2 DEF Leaves
<1>6. CASE CollectResults /\ Leaves(Collected(state))
    <2>1. Collected(state) \in State
        BY <1>6, CollectedAppends DEF CollectResults
    <2>2. /\ pc' \in {"calling", "idle"}
          /\ reply' \in {reply, "exceeded"}
          /\ iteration' \in 1..MaxIterations
          /\ guardrailFired' = guardrailFired
        BY <1>6, BoundsAssumption DEF CollectResults, NextIteration
    <2>3. QED
        BY <1>6, <2>1, <2>2 DEF Leaves
<1>7. CASE TurnFails
    BY <1>7 DEF TurnFails, loopVars
<1>8. CASE UNCHANGED vars
    BY <1>8 DEF vars, loopVars
<1>9. QED
    BY <1>1, <1>2, <1>3, <1>4, <1>5, <1>6, <1>7, <1>8, StepShapes

\* Every reachable state has the types the model declares.
THEOREM TypeCorrect == Spec => []TypeOK
<1>1. TypeInv => TypeOK
    BY DEF TypeInv
<1>2. QED
    BY <1>1, InitTypes, StepTypes, PTL DEF Spec

-----------------------------------------------------------------------------
\* The receipt

\* The events of a sequence that tell of blocks are those of its parts.
LEMMA EventIdsAppend ==
    ASSUME NEW t \in Seq(Event), NEW e \in Seq(Event), NEW type
    PROVE  EventIds(t \o e, type) = EventIds(t, type) \cup EventIds(e, type)
<1> DEFINE told(q, i) == q[i].type = type /\ q[i] # GuardrailEvent
           te == t \o e
<1>1. /\ Len(te) = Len(t) + Len(e)
      /\ Len(t) \in Nat /\ Len(e) \in Nat
      /\ \A i \in 1..Len(t) : te[i] = t[i]
      /\ \A i \in 1..Len(e) : te[Len(t) + i] = e[i]
    BY ConcatProperties
<1>2. ASSUME NEW i \in 1..Len(te), told(te, i)
      PROVE  te[i].id \in EventIds(t, type) \cup EventIds(e, type)
    <2>1. CASE i <= Len(t)
        <3>1. i \in 1..Len(t) /\ te[i] = t[i]
            BY <1>1, <2>1
        <3>2. QED
            BY <1>2, <3>1 DEF EventIds
    <2>2. CASE i > Len(t)
        <3>1. i - Len(t) \in 1..Len(e) /\ te[i] = e[i - Len(t)]
            BY <1>1, <2>2
        <3>2. QED
            BY <1>2, <3>1 DEF EventIds
    <2>3. QED
        BY <1>1, <2>1, <2>2
<1>3. ASSUME NEW i \in 1..Len(t), told(t, i)
      PROVE  t[i].id \in EventIds(te, type)
    <2>1. i \in 1..Len(te) /\ te[i] = t[i]
        BY <1>1
    <2>2. QED
        BY <1>3, <2>1 DEF EventIds
<1>4. ASSUME NEW i \in 1..Len(e), told(e, i)
      PROVE  e[i].id \in EventIds(te, type)
    <2>1. Len(t) + i \in 1..Len(te) /\ te[Len(t) + i] = e[i]
        BY <1>1
    <2>2. QED
        BY <1>4, <2>1 DEF EventIds
<1> HIDE DEF te
<1>5. EventIds(te, type) \subseteq EventIds(t, type) \cup EventIds(e, type)
    BY <1>2 DEF EventIds
<1>6. EventIds(t, type) \subseteq EventIds(te, type)
    BY <1>3 DEF EventIds
<1>7. EventIds(e, type) \subseteq EventIds(te, type)
    BY <1>4 DEF EventIds
<1>8. QED
    BY <1>5, <1>6, <1>7 DEF te

\* Events of other types, and the guardrail's, tell of no block.
LEMMA QuietEvents ==
    ASSUME NEW e \in Seq(Event), NEW type,
           \A i \in 1..Len(e) : e[i].type # type \/ e[i] = GuardrailEvent
    PROVE  EventIds(e, type) = {}
    BY DEF EventIds

\* The blocks of all messages of a list.
UsesOf(msgs)    == UNION {Ids(msgs[i].uses) : i \in 1..Len(msgs)}
ResultsOf(msgs) == UNION {Ids(msgs[i].results) : i \in 1..Len(msgs)}

LEMMA BlocksAppend ==
    ASSUME NEW msgs \in Seq(Message), NEW m \in Message
    PROVE  /\ UsesOf(Append(msgs, m)) = UsesOf(msgs) \cup Ids(m.uses)
           /\ ResultsOf(Append(msgs, m)) = ResultsOf(msgs) \cup Ids(m.results)
<1> DEFINE am == Append(msgs, m)
<1>1. /\ Len(am) = Len(msgs) + 1
      /\ Len(msgs) \in Nat
      /\ am[Len(msgs) + 1] = m
      /\ \A i \in 1..Len(msgs) : am[i] = msgs[i]
    BY AppendProperties
<1>2. 1..Len(am) = 1..Len(msgs) \cup {Len(msgs) + 1}
    BY <1>1
<1> HIDE DEF am
<1>3. UsesOf(am) = UsesOf(msgs) \cup Ids(m.uses)
    BY <1>1, <1>2 DEF UsesOf
<1>4. ResultsOf(am) = ResultsOf(msgs) \cup Ids(m.results)
    BY <1>1, <1>2 DEF ResultsOf
<1>5. QED
    BY <1>3, <1>4 DEF am

\* The results of a trace in their order, apart.
ResultsInOrder(t) ==
    \A i, j \in 1..Len(t) :
        i < j /\ t[i].type = "tool_result" /\ t[j].type = "tool_result"
            => Before(t[i].id, t[j].id)

LEMMA OrderAppend ==
    ASSUME NEW t \in Seq(Event), NEW e \in Seq(Event),
           ResultsInOrder(t), ResultsInOrder(e),
           \A i \in 1..Len(t), j \in 1..Len(e) :
               t[i].type = "tool_result" /\ e[j].type = "tool_result"
                   => Before(t[i].id, e[j].id)
    PROVE  ResultsInOrder(t \o e)
<1> DEFINE te == t \o e
<1>1. /\ Len(te) = Len(t) + Len(e)
      /\ Len(t) \in Nat /\ Len(e) \in Nat
      /\ \A i \in 1..Len(t) : te[i] = t[i]
      /\ \A i \in 1..Len(e) : te[Len(t) + i] = e[i]
    BY ConcatProperties
<1>2. \A i \in 1..Len(te) : i > Len(t) => i - Len(t) \in 1..Len(e) /\ te[i] = e[i - Len(t)]
    BY <1>1
<1> HIDE DEF te
<1>3. SUFFICES ASSUME NEW i \in 1..Len(te), NEW j \in 1..Len(te), i < j,
                      te[i].type = "tool_result", te[j].type = "tool_result"
               PROVE  Before(te[i].id, te[j].id)
    BY DEF ResultsInOrder, te
<1>4. CASE j <= Len(t)
    <2>1. i \in 1..Len(t) /\ j \in 1..Len(t) /\ te[i] = t[i] /\ te[j] = t[j]
        BY <1>1, <1>3, <1>4
    <2>2. QED
        BY <1>3, <2>1 DEF ResultsInOrder
<1>5. CASE i <= Len(t) /\ j > Len(t)
    <2>1. /\ i \in 1..Len(t) /\ te[i] = t[i]
          /\ j - Len(t) \in 1..Len(e) /\ te[j] = e[j - Len(t)]
        BY <1>1, <1>2, <1>5
    <2>2. QED
        BY <1>3, <2>1
<1>6. CASE i > Len(t)
    <2>1. /\ i - Len(t) \in 1..Len(e) /\ te[i] = e[i - Len(t)]
          /\ j - Len(t) \in 1..Len(e) /\ te[j] = e[j - Len(t)]
          /\ i - Len(t) < j - Len(t)
        BY <1>1, <1>2, <1>3, <1>6
    <2>2. QED
        BY <1>3, <2>1 DEF ResultsInOrder
<1>7. QED
    BY <1>1, <1>4, <1>5, <1>6

\* A block's id is where it stands; a result's is where its call stands, one
\* message before.
NumberedBlocks(m, i) ==
    /\ \A k \in 1..Len(m.uses) : m.uses[k] = <<i, k>>
    /\ \A k \in 1..Len(m.results) : m.results[k] = <<i - 1, k>>
Numbered(msgs) == \A i \in 1..Len(msgs) : NumberedBlocks(msgs[i], i)

\* A conversation whose trace is its receipt.
Receipted(s) == Numbered(s.messages) /\ TraceTellsMessages(s)

LEMMA ReceiptedParts ==
    ASSUME NEW s
    PROVE  Receipted(s) <=> /\ Numbered(s.messages)
                            /\ EventIds(s.trace, "tool_use") = UsesOf(s.messages)
                            /\ EventIds(s.trace, "tool_result") = ResultsOf(s.messages)
                            /\ ResultsInOrder(s.trace)
    BY DEF Receipted, TraceTellsMessages, UsesOf, ResultsOf, ResultsInOrder

LEMMA NumberedAppend ==
    ASSUME NEW msgs \in Seq(Message), NEW m \in Message, Numbered(msgs),
           NumberedBlocks(m, Len(msgs) + 1)
    PROVE  Numbered(Append(msgs, m))
<1>1. /\ Len(Append(msgs, m)) = Len(msgs) + 1
      /\ Len(msgs) \in Nat
      /\ Append(msgs, m)[Len(msgs) + 1] = m
      /\ \A i \in 1..Len(msgs) : Append(msgs, m)[i] = msgs[i]
    BY AppendProperties
<1>2. SUFFICES ASSUME NEW i \in 1..Len(msgs) + 1
               PROVE  NumberedBlocks(Append(msgs, m)[i], i)
    BY <1>1 DEF Numbered
<1>3. CASE i = Len(msgs) + 1
    BY <1>1, <1>3
<1>4. CASE i \in 1..Len(msgs)
    BY <1>1, <1>4 DEF Numbered
<1>5. QED
    BY <1>1, <1>3, <1>4

\* What is appended to a receipted conversation must be receipted itself: the
\* events of the step are the blocks of its message, its results in order and
\* after every earlier one.
LEMMA ReceiptAppend ==
    ASSUME NEW s \in State, NEW t \in State, NEW m \in Message, NEW e \in Seq(Event),
           Receipted(s),
           t.messages = Append(s.messages, m), t.trace = s.trace \o e,
           NumberedBlocks(m, Len(s.messages) + 1),
           EventIds(e, "tool_use") = Ids(m.uses),
           EventIds(e, "tool_result") = Ids(m.results),
           ResultsInOrder(e),
           \A i \in 1..Len(e) : e[i].type = "tool_result" => e[i].id[1] = Len(s.messages)
    PROVE  Receipted(t)
<1>1. s.messages \in Seq(Message) /\ s.trace \in Seq(Event) /\ Len(s.messages) \in Nat
    BY DEF State
<1>2. Numbered(t.messages)
    BY <1>1, NumberedAppend DEF Receipted
<1>3. /\ EventIds(s.trace, "tool_use") = UsesOf(s.messages)
      /\ EventIds(s.trace, "tool_result") = ResultsOf(s.messages)
      /\ ResultsInOrder(s.trace)
    BY ReceiptedParts
<1>4. EventIds(t.trace, "tool_use") = UsesOf(t.messages)
    <2>1. EventIds(t.trace, "tool_use") = EventIds(s.trace, "tool_use") \cup Ids(m.uses)
        BY <1>1, EventIdsAppend
    <2>2. UsesOf(t.messages) = UsesOf(s.messages) \cup Ids(m.uses)
        BY <1>1, BlocksAppend
    <2>3. QED
        BY <1>3, <2>1, <2>2
<1>5. EventIds(t.trace, "tool_result") = ResultsOf(t.messages)
    <2>1. EventIds(t.trace, "tool_result") =
            EventIds(s.trace, "tool_result") \cup Ids(m.results)
        BY <1>1, EventIdsAppend
    <2>2. ResultsOf(t.messages) = ResultsOf(s.messages) \cup Ids(m.results)
        BY <1>1, BlocksAppend
    <2>3. QED
        BY <1>3, <2>1, <2>2
<1>6. ASSUME NEW i \in 1..Len(s.trace), s.trace[i].type = "tool_result"
      PROVE  s.trace[i].id[1] < Len(s.messages)
    <2>1. s.trace[i] # GuardrailEvent
        BY <1>6 DEF GuardrailEvent
    <2>2. s.trace[i].id \in ResultsOf(s.messages)
        BY <1>3, <1>6, <2>1 DEF EventIds
    <2>3. PICK n \in 1..Len(s.messages) : s.trace[i].id \in Ids(s.messages[n].results)
        BY <2>2 DEF ResultsOf
    <2>4. PICK k \in 1..Len(s.messages[n].results) :
             s.trace[i].id = s.messages[n].results[k]
        BY <2>3 DEF Ids
    <2>5. s.trace[i].id = <<n - 1, k>>
        BY <2>4 DEF Receipted, Numbered, NumberedBlocks
    <2>6. QED
        BY <1>1, <2>5
<1>7. \A i \in 1..Len(s.trace), j \in 1..Len(e) :
         s.trace[i].type = "tool_result" /\ e[j].type = "tool_result"
             => Before(s.trace[i].id, e[j].id)
    BY <1>6 DEF Before
<1>8. ResultsInOrder(t.trace)
    BY <1>1, <1>3, <1>7, OrderAppend
<1>9. QED
    BY <1>2, <1>4, <1>5, <1>8, ReceiptedParts

\* Events that tell of no block.
Quiet(e) ==
    \A i \in 1..Len(e) : e[i].type \notin {"tool_use", "tool_result"} \/ e[i] = GuardrailEvent

LEMMA QuietReceipt ==
    ASSUME NEW s \in State, NEW t \in State, NEW e \in Seq(Event),
           Receipted(s), Quiet(e),
           t.messages = s.messages, t.trace = s.trace \o e
    PROVE  Receipted(t)
<1>1. s.messages \in Seq(Message) /\ s.trace \in Seq(Event)
    BY DEF State
<1>2. EventIds(e, "tool_use") = {} /\ EventIds(e, "tool_result") = {}
    BY QuietEvents DEF Quiet
<1>3. \A i \in 1..Len(e) : e[i].type # "tool_result"
    BY DEF Quiet, GuardrailEvent
<1>4. ResultsInOrder(s.trace) /\ ResultsInOrder(e)
    BY <1>3, ReceiptedParts DEF ResultsInOrder
<1>5. ResultsInOrder(t.trace)
    BY <1>1, <1>3, <1>4, OrderAppend
<1>6. /\ EventIds(t.trace, "tool_use") = EventIds(s.trace, "tool_use")
      /\ EventIds(t.trace, "tool_result") = EventIds(s.trace, "tool_result")
    <2>1. \A type : EventIds(t.trace, type) = EventIds(s.trace, type) \cup EventIds(e, type)
        BY <1>1, EventIdsAppend
    <2>2. QED
        BY <1>2, <2>1
<1>7. /\ Numbered(t.messages)
      /\ EventIds(s.trace, "tool_use") = UsesOf(t.messages)
      /\ EventIds(s.trace, "tool_result") = ResultsOf(t.messages)
    BY ReceiptedParts
<1>8. QED
    BY <1>5, <1>6, <1>7, ReceiptedParts

\* A message without blocks may join at any time.
LEMMA PlainMessageReceipt ==
    ASSUME NEW s \in State, NEW t \in State, NEW m \in Message,
           Receipted(s), m.uses = <<>>, m.results = <<>>,
           t.messages = Append(s.messages, m), t.trace = s.trace
    PROVE  Receipted(t)
<1>1. s.messages \in Seq(Message)
    BY DEF State
<1>2. Ids(<<>>) = {}
    BY DEF Ids
<1>3. UsesOf(t.messages) = UsesOf(s.messages)
    <2>1. UsesOf(Append(s.messages, m)) = UsesOf(s.messages) \cup Ids(m.uses)
        BY <1>1, BlocksAppend
    <2>2. QED
        BY <1>2, <2>1
<1>4. ResultsOf(t.messages) = ResultsOf(s.messages)
    <2>1. ResultsOf(Append(s.messages, m)) = ResultsOf(s.messages) \cup Ids(m.results)
        BY <1>1, BlocksAppend
    <2>2. QED
        BY <1>2, <2>1
<1>5. NumberedBlocks(m, Len(s.messages) + 1)
    BY DEF NumberedBlocks
<1>6. Numbered(t.messages)
    BY <1>1, <1>5, NumberedAppend, ReceiptedParts
<1>7. /\ EventIds(s.trace, "tool_use") = UsesOf(s.messages)
      /\ EventIds(s.trace, "tool_result") = ResultsOf(s.messages)
      /\ ResultsInOrder(s.trace)
    BY ReceiptedParts
<1>8. QED
    BY <1>3, <1>4, <1>6, <1>7, ReceiptedParts

LEMMA QuestionReceipt ==
    ASSUME NEW s \in State, Receipted(s)
    PROVE  Receipted(WithUserMessage(s))
<1> DEFINE m == UserMessage("plain")
           e == <<PlainEvent("user_message")>>
           t == WithUserMessage(s)
<1>1. m \in Message /\ m.uses = <<>> /\ m.results = <<>>
    BY UserMessageType DEF Texts
<1>2. e \in Seq(Event) /\ Quiet(e)
    <2>1. Len(e) = 1 /\ e[1] = PlainEvent("user_message")
        OBVIOUS
    <2>2. e \in Seq(Event) /\ PlainEvent("user_message").type = "user_message"
        BY PlainEventType
    <2> HIDE DEF e
    <2>3. QED
        BY <2>1, <2>2 DEF Quiet
<1>3. t \in State /\ t.messages = Append(s.messages, m) /\ t.trace = s.trace \o e
    BY WithUserMessageAppends
<1>4. /\ Say(s, m) \in State
      /\ Say(s, m).messages = Append(s.messages, m)
      /\ Say(s, m).trace = s.trace
    BY <1>1, SayAppends
<1> HIDE DEF m, e, t
<1>5. Receipted(Say(s, m))
    BY <1>1, <1>4, PlainMessageReceipt
<1>6. t.messages = Say(s, m).messages /\ t.trace = Say(s, m).trace \o e
    BY <1>3, <1>4
<1>7. Receipted(t)
    BY <1>2, <1>3, <1>4, <1>5, <1>6, QuietReceipt
<1>8. QED
    BY <1>7 DEF t

\* A response traces every block of its message.
LEMMA ResponseReceipt ==
    ASSUME NEW s \in State, NEW r \in Response, Receipted(s)
    PROVE  Receipted(WithResponse(s, r))
<1> DEFINE m == AnswerMessage(s, r)
           e == AnswerEvents(s, r)
           t == WithResponse(s, r)
           x == TextEvents(r)
           u == UseEvents(s, r)
<1>1. /\ m \in Message /\ m.uses = UseIds(s, r) /\ m.results = <<>>
      /\ e \in Seq(Event)
      /\ t \in State /\ t.messages = Append(s.messages, m) /\ t.trace = s.trace \o e
    BY AnswerMessageType, WithResponseAppends
<1>2. Ids(<<>>) = {}
    BY DEF Ids
<1>3. \A type : EventIds(e, type) = EventIds(x, type) \cup EventIds(u, type)
    BY TextEventsType, UseEventsType, EventIdsAppend DEF AnswerEvents
<1>4. EventIds(x, "tool_use") = {} /\ EventIds(x, "tool_result") = {}
    BY TextEventsType, QuietEvents
<1>5. EventIds(u, "tool_result") = {}
    BY UseEventsType, QuietEvents
<1>6. EventIds(u, "tool_use") = Ids(m.uses)
    <2>1. /\ Len(u) = Len(m.uses)
          /\ \A k \in 1..Len(u) : /\ u[k].type = "tool_use"
                                  /\ u[k].id = m.uses[k]
                                  /\ u[k] # GuardrailEvent
        <3>1. PICK n \in Nat : n = Len(r.tools)
            BY DEF Response
        <3>2. Len(m.uses) = n
            BY <1>1, <3>1, UseIdsAreNumbered
        <3>3. Len(u) = n
            BY <3>1, UseEventsType
        <3>4. \A k \in 1..n : /\ u[k].type = "tool_use" /\ u[k].id = UseIds(s, r)[k]
                              /\ u[k] # GuardrailEvent
            BY <3>1, UseEventsType
        <3> HIDE DEF u, m
        <3>5. QED
            BY <1>1, <3>2, <3>3, <3>4
    <2> HIDE DEF u, m
    <2>2. QED
        BY <2>1 DEF EventIds, Ids
<1>7. \A i \in 1..Len(e) : e[i].type # "tool_result"
    <2>1. /\ Len(e) = Len(x) + Len(u)
          /\ Len(x) \in Nat /\ Len(u) \in Nat
          /\ \A i \in 1..Len(x) : e[i] = x[i]
          /\ \A i \in 1..Len(u) : e[Len(x) + i] = u[i]
        BY TextEventsType, UseEventsType, ConcatProperties DEF AnswerEvents
    <2>2. \A i \in 1..Len(e) : i > Len(x) => i - Len(x) \in 1..Len(u) /\ e[i] = u[i - Len(x)]
        BY <2>1
    <2>3. /\ \A i \in 1..Len(x) : x[i].type # "tool_result"
          /\ \A i \in 1..Len(u) : u[i].type # "tool_result"
        BY TextEventsType, UseEventsType
    <2> HIDE DEF x, u, e
    <2>4. QED
        BY <2>1, <2>2, <2>3
<1>8. NumberedBlocks(m, Len(s.messages) + 1)
    BY <1>1, UseIdsAreNumbered DEF NumberedBlocks
<1> HIDE DEF m, e, t, x, u
<1>9. EventIds(e, "tool_use") = Ids(m.uses) /\ EventIds(e, "tool_result") = Ids(m.results)
    BY <1>1, <1>2, <1>3, <1>4, <1>5, <1>6
<1>10. ResultsInOrder(e)
    BY <1>7 DEF ResultsInOrder
<1>11. Receipted(t)
    BY <1>1, <1>7, <1>8, <1>9, <1>10, ReceiptAppend
<1>12. QED
    BY <1>11 DEF t

\* The results of gather are traced one by one, in the order of the blocks.
LEMMA ResultsReceipt ==
    ASSUME NEW s \in State, s.messages # <<>>, Receipted(s)
    PROVE  Receipted(Collected(s))
<1> DEFINE ids == LastUses(s)
           m == ResultMessage(ids)
           e == ResultEvents(ids)
           t == Collected(s)
           n == Len(s.messages)
<1>1. /\ ids \in Seq(UseId)
      /\ t \in State /\ t.messages = Append(s.messages, m) /\ t.trace = s.trace \o e
    BY CollectedAppends
<1>2. m \in Message /\ m.uses = <<>> /\ m.results = ids
    BY <1>1, ResultMessageType
<1>3. /\ e \in Seq(Event) /\ Len(e) = Len(ids)
      /\ \A k \in 1..Len(ids) : /\ e[k].type = "tool_result"
                                /\ e[k].id = ids[k]
                                /\ e[k] # GuardrailEvent
    BY <1>1, ResultEventsType
<1>4. n \in Nat \ {0}
    BY EmptySeq DEF State
<1>5. \A k \in 1..Len(ids) : ids[k] = <<n, k>>
    BY <1>4 DEF Receipted, Numbered, NumberedBlocks, LastUses
<1>6. Ids(<<>>) = {}
    BY DEF Ids
<1> HIDE DEF ids, m, e, t
<1>7. NumberedBlocks(m, n + 1)
    <2>1. (n + 1) - 1 = n
        BY <1>4
    <2>2. QED
        BY <1>2, <1>5, <2>1 DEF NumberedBlocks
<1>8. EventIds(e, "tool_use") = {}
    BY <1>3, QuietEvents
<1>9. EventIds(e, "tool_result") = Ids(ids)
    BY <1>3 DEF EventIds, Ids
<1>10. ResultsInOrder(e)
    <2>1. \A k \in 1..Len(e) : e[k].id[1] = n /\ e[k].id[2] = k
        BY <1>3, <1>5
    <2>2. QED
        BY <2>1 DEF ResultsInOrder, Before
<1>11. \A k \in 1..Len(e) : e[k].id[1] = n
    BY <1>3, <1>5
<1>12. EventIds(e, "tool_use") = Ids(m.uses) /\ EventIds(e, "tool_result") = Ids(m.results)
    BY <1>2, <1>6, <1>8, <1>9
<1>13. Receipted(t)
    BY <1>1, <1>2, <1>3, <1>7, <1>10, <1>11, <1>12, ReceiptAppend
<1>14. QED
    BY <1>13 DEF t

\* The stored conversation and the running one are receipted.
ReceiptInv == Receipted(saved) /\ Receipted(state)

LEMMA InitReceipt == Init => ReceiptInv
<1>1. /\ NewState.messages = <<>> /\ NewState.trace = <<>>
      /\ Len(<<>>) = 0
    BY DEF NewState
<1>2. Receipted(NewState)
    BY <1>1, ReceiptedParts DEF Numbered, EventIds, UsesOf, ResultsOf, ResultsInOrder
<1>3. QED
    BY <1>2 DEF Init, ReceiptInv

LEMMA StepReceipt == TypeInv /\ ReceiptInv /\ [Next]_vars => ReceiptInv'
<1> SUFFICES ASSUME TypeInv, ReceiptInv, [Next]_vars PROVE ReceiptInv'
    OBVIOUS
<1>1. state \in State /\ saved \in State /\ Receipted(state) /\ Receipted(saved)
    BY DEF TypeInv, TypeOK, ReceiptInv
<1>2. ASSUME NEW s, Leaves(s), Receipted(s)
      PROVE  ReceiptInv'
    BY <1>1, <1>2 DEF Leaves, ReceiptInv
<1>3. ASSUME NEW r \in Response
      PROVE  Receipted(WithResponse(state, r)) /\ WithResponse(state, r) \in State
    BY <1>1, ResponseReceipt, WithResponseAppends
<1>4. CASE StartTurn
    <2>1. state' = WithUserMessage(saved) /\ saved' = saved
        BY <1>4 DEF StartTurn
    <2>2. QED
        BY <1>1, <2>1, QuestionReceipt DEF ReceiptInv
<1>5. ASSUME NEW r \in Response
      PROVE  Receipted(Finished(state, r))
    <2> DEFINE e == <<PlainEvent("stop")>>
    <2>1. Len(e) = 1 /\ e[1] = PlainEvent("stop")
        OBVIOUS
    <2>2. e \in Seq(Event) /\ PlainEvent("stop").type = "stop"
        BY PlainEventType
    <2>3. /\ Finished(state, r) \in State
          /\ Finished(state, r).messages = WithResponse(state, r).messages
          /\ Finished(state, r).trace = WithResponse(state, r).trace \o e
        BY <1>1, FinishedAppends
    <2> HIDE DEF e
    <2>4. Quiet(e)
        BY <2>1, <2>2 DEF Quiet
    <2>5. QED
        BY <1>3, <2>2, <2>3, <2>4, QuietReceipt
<1>6. ASSUME NEW r \in Response
      PROVE  Receipted(Nudged(state, r))
    <2> DEFINE e == <<GuardrailEvent>>
               m == UserMessage("nudge")
               w == WithResponse(state, r)
    <2>1. Len(e) = 1 /\ e[1] = GuardrailEvent
        OBVIOUS
    <2>2. e \in Seq(Event) /\ m \in Message /\ m.uses = <<>> /\ m.results = <<>>
        BY GuardrailEventType, UserMessageType DEF Texts
    <2>3. /\ Nudged(state, r) \in State
          /\ Nudged(state, r).messages = Append(w.messages, m)
          /\ Nudged(state, r).trace = w.trace \o e
        BY <1>1, NudgedAppends
    <2>4. w \in State /\ Receipted(w)
        BY <1>3
    <2> HIDE DEF e, m, w
    <2>5. Quiet(e)
        BY <2>1 DEF Quiet
    <2>6. /\ Record(w, e) \in State
          /\ Record(w, e).messages = w.messages
          /\ Record(w, e).trace = w.trace \o e
        BY <2>2, <2>4, RecordAppends
    <2>7. Receipted(Record(w, e))
        BY <2>2, <2>4, <2>5, <2>6, QuietReceipt
    <2>8. /\ Nudged(state, r).messages = Append(Record(w, e).messages, m)
          /\ Nudged(state, r).trace = Record(w, e).trace
        BY <2>3, <2>6
    <2>9. QED
        BY <2>2, <2>3, <2>6, <2>7, <2>8, PlainMessageReceipt
<1>7. CASE CollectResults /\ Leaves(Collected(state))
    <2>1. state.messages # <<>>
        BY <1>7 DEF CollectResults, TypeInv
    <2>2. QED
        BY <1>1, <1>2, <1>7, <2>1, ResultsReceipt
<1>8. CASE TurnFails
    BY <1>8 DEF TurnFails, ReceiptInv
<1>9. CASE UNCHANGED vars
    BY <1>9 DEF vars, ReceiptInv
<1>10. QED
    BY <1>2, <1>3, <1>4, <1>5, <1>6, <1>7, <1>8, <1>9, StepShapes

\* /trace is the receipt of the conversation, in the store and while a turn runs:
\* one event for each block of the messages, the results in their order.
THEOREM TraceIsTheReceipt == Spec => []TraceIsReceipt
<1>1. ReceiptInv => TraceIsReceipt
    BY DEF ReceiptInv, Receipted, TraceIsReceipt
<1>2. QED
    BY <1>1, InitTypes, StepTypes, InitReceipt, StepReceipt, PTL DEF Spec

-----------------------------------------------------------------------------
\* Calls and questions

\* What a message asks of the next one: the results of its calls, an answer.
OpenCall(m) == m.stop = "tool_use" /\ m.uses # <<>>
Question(m) == m.text = "plain" /\ m.role = "user"

Follows(m, n) ==
    /\ OpenCall(m) => n.results = m.uses
    /\ Question(m) => n.role = "assistant"

\* Every message is followed by what it asks for, but for the last one.
Chained(msgs) == \A i \in 1..Len(msgs) - 1 : Follows(msgs[i], msgs[i + 1])

LastOf(msgs) == msgs[Len(msgs)]

\* Nor does the last message ask for anything.
Settled(msgs) ==
    /\ Chained(msgs)
    /\ msgs # <<>> => ~ OpenCall(LastOf(msgs)) /\ ~ Question(LastOf(msgs))

LEMMA ChainedAppend ==
    ASSUME NEW msgs \in Seq(Message), NEW m \in Message, Chained(msgs),
           msgs # <<>> => Follows(LastOf(msgs), m)
    PROVE  /\ Chained(Append(msgs, m))
           /\ LastOf(Append(msgs, m)) = m
           /\ Append(msgs, m) # <<>>
<1> DEFINE am == Append(msgs, m)
           n == Len(msgs)
<1>1. /\ Len(am) = n + 1
      /\ n \in Nat
      /\ am[n + 1] = m
      /\ \A i \in 1..n : am[i] = msgs[i]
      /\ am # <<>>
    BY AppendProperties
<1>2. n # 0 => msgs # <<>>
    BY EmptySeq
<1> HIDE DEF am, n
<1>3. ASSUME NEW i \in 1..n
      PROVE  Follows(am[i], am[i + 1])
    <2>1. CASE i = n
        <3>1. am[i] = LastOf(msgs) /\ am[i + 1] = m
            BY <1>1, <2>1 DEF LastOf, n
        <3>2. msgs # <<>>
            BY <1>1, <1>2, <2>1
        <3>3. QED
            BY <3>1, <3>2
    <2>2. CASE i # n
        <3>1. i \in 1..n - 1 /\ am[i] = msgs[i] /\ am[i + 1] = msgs[i + 1]
            BY <1>1, <2>2
        <3>2. QED
            BY <3>1 DEF Chained, n
    <2>3. QED
        BY <2>1, <2>2
<1>4. Len(am) - 1 = n
    BY <1>1
<1>5. Chained(am)
    BY <1>3, <1>4 DEF Chained
<1>6. QED
    BY <1>1, <1>5 DEF LastOf, am

\* A settled list leaves no call and no question open.
LEMMA SettledMeansAnswered ==
    ASSUME NEW msgs \in Seq(Message), Chained(msgs),
           msgs # <<>> => ~ OpenCall(LastOf(msgs))
    PROVE  CallsAnswered(msgs)
<1>1. SUFFICES ASSUME NEW i \in 1..Len(msgs), OpenCall(msgs[i])
               PROVE  i < Len(msgs) /\ msgs[i + 1].results = msgs[i].uses
    BY DEF CallsAnswered, OpenCall
<1>2. Len(msgs) \in Nat /\ msgs # <<>>
    BY EmptySeq
<1>3. i # Len(msgs)
    BY <1>1, <1>2 DEF LastOf
<1>4. i \in 1..Len(msgs) - 1
    BY <1>2, <1>3
<1>5. QED
    BY <1>1, <1>4 DEF Chained, Follows

LEMMA SettledMeansReplied ==
    ASSUME NEW msgs \in Seq(Message), Settled(msgs)
    PROVE  \A i \in 1..Len(msgs) :
              msgs[i].text = "plain" /\ msgs[i].role = "user"
                  => i < Len(msgs) /\ msgs[i + 1].role = "assistant"
<1>1. SUFFICES ASSUME NEW i \in 1..Len(msgs), Question(msgs[i])
               PROVE  i < Len(msgs) /\ msgs[i + 1].role = "assistant"
    BY DEF Question
<1>2. Len(msgs) \in Nat /\ msgs # <<>>
    BY EmptySeq
<1>3. i # Len(msgs)
    BY <1>1, <1>2 DEF LastOf, Settled
<1>4. i \in 1..Len(msgs) - 1
    BY <1>2, <1>3
<1>5. QED
    BY <1>1, <1>4 DEF Chained, Follows, Settled

\* The store holds settled lists only.  While the API is called only a question
\* may wait for its answer, while tools run only the calls they run for.
CallsInv ==
    /\ Settled(saved.messages)
    /\ pc # "idle" => Chained(state.messages) /\ state.messages # <<>>
    /\ pc = "calling" => ~ OpenCall(LastOf(state.messages))
    /\ pc = "dispatching" => LastOf(state.messages).role = "assistant"

LEMMA InitCalls == Init => CallsInv
<1>1. NewState.messages = <<>> /\ Len(<<>>) = 0
    BY DEF NewState
<1>2. Settled(NewState.messages)
    BY <1>1 DEF Settled, Chained
<1>3. QED
    BY <1>2 DEF Init, CallsInv

LEMMA StepCalls == TypeInv /\ CallsInv /\ [Next]_vars => CallsInv'
<1> SUFFICES ASSUME TypeInv, CallsInv, [Next]_vars PROVE CallsInv'
    OBVIOUS
<1> DEFINE w(r) == WithResponse(state, r)
<1>1. /\ state \in State /\ saved \in State
      /\ state.messages \in Seq(Message) /\ saved.messages \in Seq(Message)
    BY DEF TypeInv, TypeOK, State
\* A response may follow the message the API was called with.
<1>2. ASSUME NEW r \in Response, pc = "calling"
      PROVE  /\ w(r) \in State
             /\ w(r).messages \in Seq(Message)
             /\ w(r).messages # <<>>
             /\ Chained(w(r).messages)
             /\ LastOf(w(r).messages) = AnswerMessage(state, r)
             /\ ~ Question(LastOf(w(r).messages))
             /\ r.stop # "tool_use" \/ r.tools = <<>> => ~ OpenCall(LastOf(w(r).messages))
    <2> DEFINE m == AnswerMessage(state, r)
    <2>1. /\ m \in Message /\ m.role = "assistant" /\ m.stop = r.stop
          /\ m.uses = UseIds(state, r)
          /\ w(r) \in State
          /\ w(r).messages = Append(state.messages, m)
        BY <1>1, AnswerMessageType, WithResponseAppends
    <2>2. r.tools = <<>> => m.uses = <<>>
        BY <1>1, <2>1, UseIdsAreNumbered, EmptySeq
    <2> HIDE DEF m
    <2>3. ~ OpenCall(LastOf(state.messages)) /\ Chained(state.messages)
        BY <1>2 DEF CallsInv
    <2>4. Follows(LastOf(state.messages), m)
        BY <2>1, <2>3 DEF Follows
    <2>5. /\ Chained(w(r).messages) /\ LastOf(w(r).messages) = m
          /\ w(r).messages # <<>>
        BY <1>1, <2>1, <2>3, <2>4, ChainedAppend
    <2>6. w(r).messages \in Seq(Message)
        BY <2>1 DEF State
    <2>7. ~ Question(m) /\ (r.stop # "tool_use" \/ r.tools = <<>> => ~ OpenCall(m))
        BY <2>1, <2>2 DEF Question, OpenCall
    <2>8. QED
        BY <2>1, <2>5, <2>6, <2>7 DEF m
\* A state whose list is settled may be saved, and the API called with it.
<1>3. ASSUME NEW s, Leaves(s), Settled(s.messages), s.messages # <<>>,
             pc' # "dispatching"
      PROVE  CallsInv'
    BY <1>3 DEF Leaves, CallsInv, Settled
<1>4. CASE StartTurn
    <2> DEFINE m == UserMessage("plain")
    <2>1. m \in Message /\ m.stop = "none"
        BY UserMessageType DEF Texts
    <2>2. WithUserMessage(saved).messages = Append(saved.messages, m)
        BY <1>1, WithUserMessageAppends
    <2> HIDE DEF m
    <2>3. saved.messages # <<>> => Follows(LastOf(saved.messages), m)
        BY DEF CallsInv, Settled, Follows
    <2>4. /\ Chained(WithUserMessage(saved).messages)
          /\ LastOf(WithUserMessage(saved).messages) = m
          /\ WithUserMessage(saved).messages # <<>>
        BY <1>1, <2>1, <2>2, <2>3, ChainedAppend DEF CallsInv, Settled
    <2>5. state' = WithUserMessage(saved) /\ saved' = saved /\ pc' = "calling"
        BY <1>4 DEF StartTurn
    <2>6. QED
        BY <2>1, <2>4, <2>5 DEF CallsInv, OpenCall
<1>5. ASSUME NEW r \in Response, FinalAnswer(r), Leaves(Finished(state, r))
      PROVE  CallsInv'
    <2>1. pc = "calling" /\ r.stop # "tool_use" /\ pc' = "idle"
        BY <1>5 DEF FinalAnswer, Answered, EndTurn
    <2>2. Finished(state, r).messages = w(r).messages
        BY <1>1, FinishedAppends
    <2>3. Settled(Finished(state, r).messages)
        BY <1>2, <2>1, <2>2 DEF Settled
    <2>4. QED
        BY <1>2, <1>3, <1>5, <2>1, <2>2, <2>3
<1>6. ASSUME NEW r \in Response, Nudge(r), Leaves(Nudged(state, r))
      PROVE  CallsInv'
    <2> DEFINE m == UserMessage("nudge")
    <2>1. pc = "calling" /\ r.stop # "tool_use" /\ pc' \in {"idle", "calling"}
        BY <1>6 DEF Nudge, Answered, NextIteration
    <2>2. m \in Message /\ m.stop = "none" /\ m.text = "nudge"
        BY UserMessageType DEF Texts
    <2>3. Nudged(state, r).messages = Append(w(r).messages, m)
        BY <1>1, NudgedAppends
    <2> HIDE DEF m, w
    <2>4. Follows(LastOf(w(r).messages), m)
        BY <1>2, <2>1 DEF Follows
    <2>5. /\ Chained(Nudged(state, r).messages)
          /\ LastOf(Nudged(state, r).messages) = m
          /\ Nudged(state, r).messages # <<>>
        BY <1>2, <2>1, <2>2, <2>3, <2>4, ChainedAppend
    <2>6. Settled(Nudged(state, r).messages)
        BY <2>2, <2>5 DEF Settled, OpenCall, Question
    <2>7. QED
        BY <1>3, <1>6, <2>1, <2>5, <2>6
<1>7. ASSUME NEW r \in Response, BeginDispatch(r), Leaves(w(r))
      PROVE  CallsInv'
    <2>1. pc = "calling" /\ pc' = "dispatching" /\ saved' = saved /\ state' = w(r)
        BY <1>7 DEF BeginDispatch, Answered
    <2>2. AnswerMessage(state, r).role = "assistant"
        BY <1>1, AnswerMessageType
    <2> HIDE DEF w
    <2>3. QED
        BY <1>2, <2>1, <2>2 DEF CallsInv
<1>8. ASSUME NEW r \in Response, EmptyToolUse(r), Leaves(w(r))
      PROVE  CallsInv'
    <2>1. pc = "calling" /\ r.tools = <<>> /\ pc' = "idle"
        BY <1>8 DEF EmptyToolUse, Answered, EndTurn
    <2>2. Settled(w(r).messages)
        BY <1>2, <2>1 DEF Settled
    <2>3. QED
        BY <1>2, <1>3, <1>8, <2>1, <2>2
<1>9. CASE CollectResults /\ Leaves(Collected(state))
    <2> DEFINE ids == LastUses(state)
               m == ResultMessage(ids)
    <2>1. /\ pc = "dispatching" /\ pc' \in {"idle", "calling"}
          /\ state.messages # <<>>
        BY <1>9 DEF CollectResults, NextIteration, TypeInv
    <2>2. ids \in Seq(UseId) /\ Collected(state).messages = Append(state.messages, m)
        BY <1>1, <2>1, CollectedAppends
    <2>3. m \in Message /\ m.results = ids /\ m.stop = "none" /\ m.text = "none"
        BY <2>2, ResultMessageType
    <2>4. LastOf(state.messages).uses = ids
        BY DEF LastUses, LastOf
    <2> HIDE DEF m, ids
    <2>5. Follows(LastOf(state.messages), m)
        BY <2>1, <2>3, <2>4 DEF CallsInv, Follows, Question
    <2>6. /\ Chained(Collected(state).messages)
          /\ LastOf(Collected(state).messages) = m
          /\ Collected(state).messages # <<>>
        BY <1>1, <2>1, <2>2, <2>3, <2>5, ChainedAppend DEF CallsInv
    <2>7. Settled(Collected(state).messages)
        BY <2>3, <2>6 DEF Settled, OpenCall, Question
    <2>8. QED
        BY <1>3, <1>9, <2>1, <2>6, <2>7
<1>10. CASE TurnFails
    BY <1>10 DEF TurnFails, CallsInv
<1>11. CASE UNCHANGED vars
    BY <1>11 DEF vars, CallsInv
<1>12. QED
    BY <1>4, <1>5, <1>6, <1>7, <1>8, <1>9, <1>10, <1>11, StepShapes

LEMMA CallsInvMeans == TypeInv /\ CallsInv => ToolCallsAnswered /\ QuestionsHaveAnswers
<1> SUFFICES ASSUME TypeInv, CallsInv PROVE ToolCallsAnswered /\ QuestionsHaveAnswers
    OBVIOUS
<1>1. saved.messages \in Seq(Message) /\ state.messages \in Seq(Message)
    BY DEF TypeInv, TypeOK, State
<1>2. CallsAnswered(saved.messages)
    BY <1>1, SettledMeansAnswered DEF CallsInv, Settled
<1>3. pc = "calling" => CallsAnswered(state.messages)
    BY <1>1, SettledMeansAnswered DEF CallsInv
<1>4. QuestionsHaveAnswers
    BY <1>1, SettledMeansReplied DEF CallsInv, QuestionsHaveAnswers
<1>5. QED
    BY <1>2, <1>3, <1>4 DEF ToolCallsAnswered

\* Every tool call is answered in the next message, block by block, in the store
\* and whenever the API is called: no failure or refusal leaves one open.
THEOREM ToolCallsAreAnswered == Spec => []ToolCallsAnswered
    BY InitTypes, StepTypes, InitCalls, StepCalls, CallsInvMeans, PTL DEF Spec

\* No question of the user stays in the store without the assistant's answer.
THEOREM QuestionsAreAnswered == Spec => []QuestionsHaveAnswers
    BY InitTypes, StepTypes, InitCalls, StepCalls, CallsInvMeans, PTL DEF Spec

-----------------------------------------------------------------------------
\* What is appended stays

Extends(a, b) == Len(a) <= Len(b) /\ \A i \in 1..Len(a) : a[i] = b[i]

LEMMA ExtendsIsPrefix ==
    ASSUME NEW T, NEW a \in Seq(T), NEW b \in Seq(T), Extends(a, b)
    PROVE  IsPrefix(a, b)
<1>1. Len(a) \in Nat /\ Len(b) \in Nat /\ Len(a) <= Len(b)
    BY DEF Extends
<1>2. /\ SubSeq(a, 1, Len(a)) \in Seq(T) /\ Len(SubSeq(a, 1, Len(a))) = Len(a)
      /\ \A i \in 1..Len(a) : SubSeq(a, 1, Len(a))[i] = a[i]
    BY <1>1
<1>3. /\ SubSeq(b, 1, Len(a)) \in Seq(T) /\ Len(SubSeq(b, 1, Len(a))) = Len(a)
      /\ \A i \in 1..Len(a) : SubSeq(b, 1, Len(a))[i] = b[i]
    BY <1>1
<1>4. SubSeq(a, 1, Len(a)) = SubSeq(b, 1, Len(a))
    BY <1>2, <1>3, SeqEqual DEF Extends
<1>5. QED
    BY <1>1, <1>4 DEF IsPrefix

LEMMA ExtendsConcat ==
    ASSUME NEW T, NEW a \in Seq(T), NEW b \in Seq(T), NEW e \in Seq(T), Extends(a, b)
    PROVE  Extends(a, b \o e)
<1>1. /\ Len(b \o e) = Len(b) + Len(e)
      /\ Len(a) \in Nat /\ Len(b) \in Nat /\ Len(e) \in Nat
      /\ \A i \in 1..Len(b) : (b \o e)[i] = b[i]
    BY ConcatProperties
<1>2. QED
    BY <1>1 DEF Extends

LEMMA ExtendsAppend ==
    ASSUME NEW T, NEW a \in Seq(T), NEW b \in Seq(T), NEW m \in T, Extends(a, b)
    PROVE  Extends(a, Append(b, m))
<1>1. /\ Len(Append(b, m)) = Len(b) + 1
      /\ Len(a) \in Nat /\ Len(b) \in Nat
      /\ \A i \in 1..Len(b) : Append(b, m)[i] = b[i]
    BY AppendProperties
<1>2. QED
    BY <1>1 DEF Extends

\* One conversation goes on from another.
Continues(s, t) == Extends(s.messages, t.messages) /\ Extends(s.trace, t.trace)

LEMMA ContinuesAppend ==
    ASSUME NEW s \in State, NEW t \in State, NEW u, NEW e \in Seq(Event),
           Continues(s, t), u.trace = t.trace \o e,
           \/ u.messages = t.messages
           \/ \E m \in Message : u.messages = Append(t.messages, m)
    PROVE  Continues(s, u)
<1>1. /\ s.messages \in Seq(Message) /\ t.messages \in Seq(Message)
      /\ s.trace \in Seq(Event) /\ t.trace \in Seq(Event)
      /\ Extends(s.messages, t.messages) /\ Extends(s.trace, t.trace)
    BY DEF State, Continues
<1>2. Extends(s.trace, t.trace \o e)
    BY <1>1, ExtendsConcat
<1>3. \A m \in Message : Extends(s.messages, Append(t.messages, m))
    BY <1>1, ExtendsAppend
<1>4. Extends(s.messages, u.messages)
    BY <1>1, <1>3
<1>5. QED
    BY <1>2, <1>4 DEF Continues

\* What each step makes of the running state goes on from what it found.
LEMMA StatesContinue ==
    ASSUME NEW s \in State, NEW t \in State, Continues(s, t)
    PROVE  /\ Continues(s, WithUserMessage(t))
           /\ \A r \in Response : /\ Continues(s, WithResponse(t, r))
                                  /\ Continues(s, Finished(t, r))
                                  /\ Continues(s, Nudged(t, r))
           /\ t.messages # <<>> => Continues(s, Collected(t))
<1>1. Continues(s, WithUserMessage(t))
    <2>1. UserMessage("plain") \in Message /\ <<PlainEvent("user_message")>> \in Seq(Event)
        BY UserMessageType, PlainEventType DEF Texts
    <2>2. /\ WithUserMessage(t).messages = Append(t.messages, UserMessage("plain"))
          /\ WithUserMessage(t).trace = t.trace \o <<PlainEvent("user_message")>>
        BY WithUserMessageAppends
    <2>3. QED
        BY <2>1, <2>2, ContinuesAppend
<1>2. ASSUME NEW r \in Response
      PROVE  Continues(s, WithResponse(t, r)) /\ WithResponse(t, r) \in State
    <2>1. AnswerMessage(t, r) \in Message /\ AnswerEvents(t, r) \in Seq(Event)
        BY AnswerMessageType, WithResponseAppends
    <2>2. /\ WithResponse(t, r) \in State
          /\ WithResponse(t, r).messages = Append(t.messages, AnswerMessage(t, r))
          /\ WithResponse(t, r).trace = t.trace \o AnswerEvents(t, r)
        BY WithResponseAppends
    <2>3. QED
        BY <2>1, <2>2, ContinuesAppend
<1>3. ASSUME NEW r \in Response
      PROVE  Continues(s, Finished(t, r))
    <2>1. <<PlainEvent("stop")>> \in Seq(Event)
        BY PlainEventType
    <2>2. /\ Finished(t, r).messages = WithResponse(t, r).messages
          /\ Finished(t, r).trace = WithResponse(t, r).trace \o <<PlainEvent("stop")>>
        BY FinishedAppends
    <2>3. QED
        BY <1>2, <2>1, <2>2, ContinuesAppend
<1>4. ASSUME NEW r \in Response
      PROVE  Continues(s, Nudged(t, r))
    <2>1. UserMessage("nudge") \in Message /\ <<GuardrailEvent>> \in Seq(Event)
        BY UserMessageType, GuardrailEventType DEF Texts
    <2>2. /\ Nudged(t, r).messages =
               Append(WithResponse(t, r).messages, UserMessage("nudge"))
          /\ Nudged(t, r).trace = WithResponse(t, r).trace \o <<GuardrailEvent>>
        BY NudgedAppends
    <2>3. QED
        BY <1>2, <2>1, <2>2, ContinuesAppend
<1>5. ASSUME t.messages # <<>>
      PROVE  Continues(s, Collected(t))
    <2>1. /\ LastUses(t) \in Seq(UseId)
          /\ Collected(t).messages = Append(t.messages, ResultMessage(LastUses(t)))
          /\ Collected(t).trace = t.trace \o ResultEvents(LastUses(t))
        BY <1>5, CollectedAppends
    <2>2. /\ ResultMessage(LastUses(t)) \in Message
          /\ ResultEvents(LastUses(t)) \in Seq(Event)
        BY <2>1, ResultMessageType, ResultEventsType
    <2>3. QED
        BY <2>1, <2>2, ContinuesAppend
<1>6. QED
    BY <1>1, <1>2, <1>3, <1>4, <1>5

\* A running turn works on a continuation of what is stored.
GrowthInv == pc # "idle" => Continues(saved, state)

\* A step stores only such a continuation.
Grows ==
    IsPrefix(saved.messages, saved'.messages) /\ IsPrefix(saved.trace, saved'.trace)

LEMMA StepGrowth ==
    TypeInv /\ GrowthInv /\ [Next]_vars => GrowthInv' /\ (saved' # saved => Grows)
<1> SUFFICES ASSUME TypeInv, GrowthInv, [Next]_vars
             PROVE  GrowthInv' /\ (saved' # saved => Grows)
    OBVIOUS
<1>1. state \in State /\ saved \in State
    BY DEF TypeInv, TypeOK
<1>2. saved' \in State
    BY StepTypes DEF TypeInv, TypeOK
<1>3. ASSUME NEW s, Leaves(s), Continues(saved, s)
      PROVE  GrowthInv' /\ (saved' # saved => Grows)
    <2>1. pc' # "idle" => saved' = saved /\ state' = s
        BY <1>3 DEF Leaves
    <2>2. GrowthInv'
        BY <1>3, <2>1 DEF GrowthInv
    <2>3. ASSUME saved' # saved
          PROVE  Grows
        <3>1. saved' = s
            BY <1>3, <2>3 DEF Leaves
        <3>2. /\ Extends(saved.messages, saved'.messages)
              /\ Extends(saved.trace, saved'.trace)
            BY <1>3, <3>1 DEF Continues
        <3>3. /\ saved.messages \in Seq(Message) /\ saved'.messages \in Seq(Message)
              /\ saved.trace \in Seq(Event) /\ saved'.trace \in Seq(Event)
            BY <1>1, <1>2 DEF State
        <3>4. QED
            BY <3>2, <3>3, ExtendsIsPrefix DEF Grows
    <2>4. QED
        BY <2>2, <2>3
<1>4. CASE StartTurn
    <2>1. Continues(saved, saved)
        BY <1>1 DEF Continues, Extends, State
    <2>2. state' = WithUserMessage(saved) /\ saved' = saved
        BY <1>4 DEF StartTurn
    <2>3. QED
        BY <1>1, <2>1, <2>2, StatesContinue DEF GrowthInv
<1>5. ASSUME NEW r \in Response,
             \/ FinalAnswer(r) /\ Leaves(Finished(state, r))
             \/ Nudge(r) /\ Leaves(Nudged(state, r))
             \/ BeginDispatch(r) /\ Leaves(WithResponse(state, r))
             \/ EmptyToolUse(r) /\ Leaves(WithResponse(state, r))
      PROVE  GrowthInv' /\ (saved' # saved => Grows)
    <2>1. pc = "calling"
        BY <1>5 DEF FinalAnswer, Nudge, BeginDispatch, EmptyToolUse, Answered
    <2>2. Continues(saved, state)
        BY <2>1 DEF GrowthInv
    <2>3. QED
        BY <1>1, <1>3, <1>5, <2>2, StatesContinue
<1>6. CASE CollectResults /\ Leaves(Collected(state))
    <2>1. pc = "dispatching" /\ state.messages # <<>>
        BY <1>6 DEF CollectResults, TypeInv
    <2>2. Continues(saved, state)
        BY <2>1 DEF GrowthInv
    <2>3. QED
        BY <1>1, <1>3, <1>6, <2>1, <2>2, StatesContinue
<1>7. CASE TurnFails
    BY <1>7 DEF TurnFails, GrowthInv
<1>8. CASE UNCHANGED vars
    BY <1>8 DEF vars, GrowthInv
<1>9. QED
    BY <1>4, <1>5, <1>6, <1>7, <1>8, StepShapes

\* No step of the loop rewrites what the store holds of a conversation: a save
\* adds messages and events, and drops or changes none.
THEOREM StoredHistoryGrows == Spec => HistoryGrows
<1>1. Init => GrowthInv
    BY DEF Init, GrowthInv
<1>2. TypeInv /\ GrowthInv /\ [Next]_vars => [Grows]_saved
    BY StepGrowth
<1>3. TypeInv /\ GrowthInv /\ [Next]_vars => GrowthInv'
    BY StepGrowth
<1>4. QED
    BY <1>1, <1>2, <1>3, InitTypes, StepTypes, PTL DEF Spec, HistoryGrows, Grows

-----------------------------------------------------------------------------
\* The guardrail

\* The interventions a trace records since `start`.
NudgesIn(t, start) == {i \in start + 1..Len(t) : t[i] = GuardrailEvent}

LEMMA NudgesAppend ==
    ASSUME NEW t \in Seq(Event), NEW e \in Seq(Event), NEW start \in Nat,
           \A i \in 1..Len(e) : e[i] # GuardrailEvent
    PROVE  NudgesIn(t \o e, start) = NudgesIn(t, start)
<1> DEFINE te == t \o e
<1>1. /\ Len(te) = Len(t) + Len(e)
      /\ Len(t) \in Nat /\ Len(e) \in Nat
      /\ \A i \in 1..Len(t) : te[i] = t[i]
      /\ \A i \in 1..Len(e) : te[Len(t) + i] = e[i]
    BY ConcatProperties
<1>2. \A i \in 1..Len(te) : i > Len(t) => i - Len(t) \in 1..Len(e) /\ te[i] = e[i - Len(t)]
    BY <1>1
<1> HIDE DEF te
<1>3. ASSUME NEW i \in start + 1..Len(te), te[i] = GuardrailEvent
      PROVE  i \in start + 1..Len(t) /\ t[i] = GuardrailEvent
    <2>1. i \in 1..Len(te)
        BY <1>3
    <2>2. ~ (i > Len(t))
        BY <1>2, <1>3, <2>1
    <2>3. i \in 1..Len(t)
        BY <1>1, <2>1, <2>2
    <2>4. QED
        BY <1>1, <1>3, <2>3
<1>4. ASSUME NEW i \in start + 1..Len(t), t[i] = GuardrailEvent
      PROVE  i \in start + 1..Len(te) /\ te[i] = GuardrailEvent
    BY <1>1, <1>4
<1>5. QED
    BY <1>3, <1>4 DEF NudgesIn, te

LEMMA NudgesIntervention ==
    ASSUME NEW t \in Seq(Event), NEW start \in 0..Len(t)
    PROVE  NudgesIn(t \o <<GuardrailEvent>>, start) = NudgesIn(t, start) \cup {Len(t) + 1}
<1> DEFINE te == t \o <<GuardrailEvent>>
<1>1. /\ Len(te) = Len(t) + 1
      /\ Len(t) \in Nat /\ start \in Nat /\ start <= Len(t)
      /\ \A i \in 1..Len(t) : te[i] = t[i]
      /\ te[Len(t) + 1] = GuardrailEvent
    BY GuardrailEventType, ConcatProperties
<1> HIDE DEF te
<1>2. NudgesIn(te, start) \subseteq NudgesIn(t, start) \cup {Len(t) + 1}
    BY <1>1 DEF NudgesIn
<1>3. NudgesIn(t, start) \cup {Len(t) + 1} \subseteq NudgesIn(te, start)
    BY <1>1 DEF NudgesIn
<1>4. QED
    BY <1>2, <1>3 DEF te

\* A critique that was called stays called.
LEMMA CritiqueStays ==
    ASSUME NEW t \in Seq(Event), NEW e \in Seq(Event), NEW start \in Nat,
           CritiqueCalled(t, start)
    PROVE  CritiqueCalled(t \o e, start)
<1>1. /\ Len(t \o e) = Len(t) + Len(e)
      /\ Len(t) \in Nat /\ Len(e) \in Nat
      /\ \A i \in 1..Len(t) : (t \o e)[i] = t[i]
    BY ConcatProperties
<1>2. PICK i \in start + 1..Len(t) : t[i].type = "tool_use" /\ t[i].name = CritiqueTool
    BY DEF CritiqueCalled
<1>3. i \in start + 1..Len(t \o e) /\ (t \o e)[i] = t[i]
    BY <1>1
<1>4. QED
    BY <1>2, <1>3 DEF CritiqueCalled

\* A response leaves no event of the guardrail.
LEMMA AnswerEventsAreNoNudges ==
    ASSUME NEW s \in State, NEW r \in Response
    PROVE  \A i \in 1..Len(AnswerEvents(s, r)) : AnswerEvents(s, r)[i] # GuardrailEvent
<1> DEFINE x == TextEvents(r)
           u == UseEvents(s, r)
           e == AnswerEvents(s, r)
<1>1. /\ Len(e) = Len(x) + Len(u)
      /\ Len(x) \in Nat /\ Len(u) \in Nat
      /\ \A i \in 1..Len(x) : e[i] = x[i]
      /\ \A i \in 1..Len(u) : e[Len(x) + i] = u[i]
    BY TextEventsType, UseEventsType, ConcatProperties DEF AnswerEvents
<1>2. \A i \in 1..Len(e) : i > Len(x) => i - Len(x) \in 1..Len(u) /\ e[i] = u[i - Len(x)]
    BY <1>1
<1>3. /\ \A i \in 1..Len(x) : x[i] # GuardrailEvent
      /\ \A i \in 1..Len(u) : u[i] # GuardrailEvent
    BY TextEventsType, UseEventsType
<1> HIDE DEF x, u, e
<1>4. \A i \in 1..Len(e) : e[i] # GuardrailEvent
    BY <1>1, <1>2, <1>3
<1>5. QED
    BY <1>4 DEF e

\* While a turn runs, guardrail_fired tells whether the trace of the turn holds an
\* intervention, and it holds no second one.
GuardInv ==
    /\ pc # "idle" =>
         /\ turnStart <= Len(state.trace)
         /\ reply = "none"
         /\ ~ guardrailFired => NudgesIn(state.trace, turnStart) = {}
         /\ guardrailFired => Cardinality(NudgesIn(state.trace, turnStart)) = 1
    /\ GuardrailEnforced

LEMMA StepGuard == TypeInv /\ GuardInv /\ [Next]_vars => GuardInv'
<1> SUFFICES ASSUME TypeInv, GuardInv, [Next]_vars PROVE GuardInv'
    OBVIOUS
<1> DEFINE w(r) == WithResponse(state, r)
<1>1. /\ state \in State /\ saved \in State /\ turnStart \in Nat
      /\ state.trace \in Seq(Event) /\ saved.trace \in Seq(Event)
      /\ Len(state.trace) \in Nat /\ Len(saved.trace) \in Nat
    BY DEF TypeInv, TypeOK, State
<1>2. ASSUME NEW r \in Response, pc = "calling"
      PROVE  /\ w(r) \in State
             /\ w(r).trace \in Seq(Event)
             /\ turnStart \in 0..Len(w(r).trace)
             /\ NudgesIn(w(r).trace, turnStart) = NudgesIn(state.trace, turnStart)
    <2>1. /\ w(r) \in State
          /\ w(r).trace = state.trace \o AnswerEvents(state, r)
          /\ AnswerEvents(state, r) \in Seq(Event)
        BY <1>1, WithResponseAppends
    <2>2. w(r).trace \in Seq(Event) /\ Len(w(r).trace) \in Nat
        <3>1. \A x \in State : x.trace \in Seq(Event) /\ Len(x.trace) \in Nat
            BY DEF State
        <3>2. QED
            BY <2>1, <3>1
    <2>3. Len(state.trace) <= Len(w(r).trace)
        BY <1>1, <2>1, ConcatProperties
    <2>4. turnStart <= Len(state.trace)
        BY <1>2 DEF GuardInv
    <2>5. NudgesIn(w(r).trace, turnStart) = NudgesIn(state.trace, turnStart)
        BY <1>1, <2>1, AnswerEventsAreNoNudges, NudgesAppend
    <2> HIDE DEF w
    <2>6. QED
        BY <1>1, <2>1, <2>2, <2>3, <2>4, <2>5
\* An ending that ships no plan has nothing to show.
<1>3. ASSUME pc' = "idle", reply' # "plan"
      PROVE  GuardInv'
    BY <1>3 DEF GuardInv, GuardrailEnforced
<1>4. CASE StartTurn
    <2>1. /\ state' = WithUserMessage(saved) /\ turnStart' = Len(saved.trace)
          /\ reply' = "none" /\ ~ guardrailFired'
        BY <1>4 DEF StartTurn
    <2> DEFINE e == <<PlainEvent("user_message")>>
    <2>2. e \in Seq(Event) /\ Len(e) = 1 /\ \A i \in 1..Len(e) : e[i] # GuardrailEvent
        <3>1. e \in Seq(Event) /\ Len(e) = 1 /\ e[1] # GuardrailEvent
            BY PlainEventType
        <3> HIDE DEF e
        <3>2. QED
            BY <3>1
    <2>3. state'.trace = saved.trace \o e
        BY <1>1, <2>1, WithUserMessageAppends
    <2> HIDE DEF e
    <2>4. NudgesIn(state'.trace, turnStart') = NudgesIn(saved.trace, Len(saved.trace))
        BY <1>1, <2>1, <2>2, <2>3, NudgesAppend
    <2>5. NudgesIn(saved.trace, Len(saved.trace)) = {}
        BY <1>1 DEF NudgesIn
    <2>6. turnStart' <= Len(state'.trace)
        BY <1>1, <2>1, <2>2, <2>3, ConcatProperties
    <2>7. QED
        BY <2>1, <2>4, <2>5, <2>6 DEF GuardInv, GuardrailEnforced
<1>5. ASSUME NEW r \in Response, FinalAnswer(r), Leaves(Finished(state, r))
      PROVE  GuardInv'
    <2>1. /\ pc = "calling" /\ ~ MustNudge(r)
          /\ pc' = "idle" /\ reply' = r.text
          /\ state' = Finished(state, r) /\ turnStart' = turnStart
        BY <1>5 DEF FinalAnswer, Answered, EndTurn, Leaves
    <2> DEFINE e == <<PlainEvent("stop")>>
    <2>2. e \in Seq(Event) /\ Len(e) = 1 /\ \A i \in 1..Len(e) : e[i] # GuardrailEvent
        <3>1. e \in Seq(Event) /\ Len(e) = 1 /\ e[1] # GuardrailEvent
            BY PlainEventType
        <3> HIDE DEF e
        <3>2. QED
            BY <3>1
    <2>3. state'.trace = w(r).trace \o e
        BY <1>1, <2>1, FinishedAppends
    <2> HIDE DEF e
    <2>4. NudgesIn(state'.trace, turnStart) = NudgesIn(state.trace, turnStart)
        BY <1>1, <1>2, <2>1, <2>2, <2>3, NudgesAppend
    <2>5. CASE reply' # "plan"
        BY <1>3, <2>1, <2>5
    <2>6. CASE guardrailFired
        <3>1. Cardinality(NudgesIn(state.trace, turnStart)) = 1
            BY <2>1, <2>6 DEF GuardInv
        <3>2. Nudges' = NudgesIn(state'.trace, turnStart)
            BY <2>1 DEF Nudges, NudgesIn
        <3>3. QED
            BY <2>1, <2>4, <3>1, <3>2 DEF GuardInv, GuardrailEnforced
    <2>7. CASE reply' = "plan" /\ ~ guardrailFired
        <3>1. CritiqueCalled(w(r).trace, turnStart)
            BY <2>1, <2>7 DEF MustNudge, LooksLikePlan
        <3>2. CritiqueCalled(state'.trace, turnStart)
            BY <1>1, <1>2, <2>1, <2>2, <2>3, <3>1, CritiqueStays
        <3>3. QED
            BY <2>1, <3>2 DEF GuardInv, GuardrailEnforced
    <2>8. QED
        BY <2>5, <2>6, <2>7
<1>6. ASSUME NEW r \in Response, Nudge(r), Leaves(Nudged(state, r))
      PROVE  GuardInv'
    <2>1. /\ pc = "calling" /\ ~ guardrailFired /\ guardrailFired'
          /\ state' = Nudged(state, r) /\ turnStart' = turnStart
          /\ \/ pc' = "calling" /\ reply' = reply
             \/ pc' = "idle" /\ reply' = "exceeded"
        BY <1>6 DEF Nudge, Answered, MustNudge, NextIteration, Leaves
    <2>2. state'.trace = w(r).trace \o <<GuardrailEvent>>
        BY <1>1, <2>1, NudgedAppends
    <2>3. /\ NudgesIn(w(r).trace, turnStart) = {}
          /\ w(r).trace \in Seq(Event) /\ turnStart \in 0..Len(w(r).trace)
          /\ reply = "none"
        BY <1>2, <2>1 DEF GuardInv
    <2> HIDE DEF w
    <2>4. NudgesIn(state'.trace, turnStart) = {Len(w(r).trace) + 1}
        BY <2>2, <2>3, NudgesIntervention
    <2>5. Cardinality(NudgesIn(state'.trace, turnStart)) = 1
        BY <2>4, FS_Singleton
    <2>6. turnStart <= Len(state'.trace)
        BY <1>1, <2>2, <2>3, GuardrailEventType, ConcatProperties
    <2>7. GuardrailEnforced'
        BY <2>1, <2>3 DEF GuardrailEnforced
    <2>8. QED
        BY <2>1, <2>3, <2>5, <2>6, <2>7 DEF GuardInv
<1>7. ASSUME NEW r \in Response, BeginDispatch(r), Leaves(w(r))
      PROVE  GuardInv'
    <2>1. /\ pc = "calling" /\ state' = w(r)
          /\ UNCHANGED <<turnStart, guardrailFired, reply>>
        BY <1>7 DEF BeginDispatch, Answered, loopVars
    <2>2. /\ NudgesIn(state'.trace, turnStart) = NudgesIn(state.trace, turnStart)
          /\ turnStart <= Len(state'.trace)
        BY <1>2, <2>1
    <2>3. reply = "none"
        BY <2>1 DEF GuardInv
    <2> HIDE DEF w
    <2>4. QED
        BY <2>1, <2>2, <2>3 DEF GuardInv, GuardrailEnforced
<1>8. ASSUME NEW r \in Response, EmptyToolUse(r), Leaves(w(r))
      PROVE  GuardInv'
    BY <1>3, <1>8 DEF EmptyToolUse, EndTurn
<1>9. CASE CollectResults /\ Leaves(Collected(state))
    <2> DEFINE e == ResultEvents(LastUses(state))
    <2>1. /\ pc = "dispatching" /\ state.messages # <<>>
          /\ state' = Collected(state)
          /\ turnStart' = turnStart /\ guardrailFired' = guardrailFired
          /\ \/ pc' = "calling" /\ reply' = reply
             \/ pc' = "idle" /\ reply' = "exceeded"
        BY <1>9 DEF CollectResults, NextIteration, TypeInv, Leaves
    <2>2. state'.trace = state.trace \o e
        BY <1>1, <2>1, CollectedAppends
    <2>3. e \in Seq(Event) /\ \A i \in 1..Len(e) : e[i] # GuardrailEvent
        BY <1>1, <2>1, CollectedAppends, ResultEventsType
    <2> HIDE DEF e
    <2>4. NudgesIn(state'.trace, turnStart) = NudgesIn(state.trace, turnStart)
        BY <1>1, <2>2, <2>3, NudgesAppend
    <2>5. turnStart <= Len(state.trace) /\ reply = "none"
        BY <2>1 DEF GuardInv
    <2>6. turnStart <= Len(state'.trace)
        BY <1>1, <2>2, <2>3, <2>5, ConcatProperties
    <2>7. QED
        BY <2>1, <2>4, <2>5, <2>6 DEF GuardInv, GuardrailEnforced
<1>10. CASE TurnFails
    BY <1>3, <1>10 DEF TurnFails
<1>11. CASE UNCHANGED vars
    BY <1>11 DEF vars, loopVars, GuardInv, GuardrailEnforced, Nudges
<1>12. QED
    BY <1>4, <1>5, <1>6, <1>7, <1>8, <1>9, <1>10, <1>11, StepShapes

\* A plan is shipped only with a critique called in the same turn, or after the
\* model was told to call it exactly once in this turn.
THEOREM GuardrailHolds == Spec => []GuardrailEnforced
<1>1. Init => GuardInv
    BY DEF Init, GuardInv, GuardrailEnforced
<1>2. GuardInv => GuardrailEnforced
    BY DEF GuardInv
<1>3. QED
    BY <1>1, <1>2, InitTypes, StepTypes, StepGuard, PTL DEF Spec
=============================================================================
