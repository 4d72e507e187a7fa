-------------------------- MODULE StreamLoopProofs --------------------------
(***************************************************************************)
(* Why run_turn_stream answers in block order whatever finishes first, why *)
(* its trace never lacks what the messages hold, and why the client of     *)
(* POST /chat/stream can trust the events it is sent: for any responses,   *)
(* any iteration budget, any number of turns, and wherever a turn stops.   *)
(*                                                                         *)
(* Induction over a list of blocks is by the least position at which a     *)
(* claim fails (LeastNumber), since the induction theorems of the library  *)
(* take an operator.                                                       *)
(***************************************************************************)
EXTENDS StreamLoop, SequenceTheorems, WellFoundedInduction, TLAPS

-----------------------------------------------------------------------------
\* The results in block order

LEMMA LeastNumber ==
    ASSUME NEW T, T \subseteq Nat, T # {}
    PROVE  \E x \in T : \A y \in T : ~ (y < x)
<1>1. \E x \in T : \A y \in T : ~ (<<y, x>> \in OpToRel(<, Nat))
    BY NatLessThanWellFounded, WFMin
<1>2. QED
    BY <1>1 DEF OpToRel

\* If every id has a result, the ids with a result are all of them, in order.
LEMMA AllInBlockOrder ==
    ASSUME NEW S, NEW ids \in Seq(S), NEW found,
           \A i \in 1..Len(ids) : ids[i] \in found
    PROVE  InBlockOrder(ids, found) = ids
<1> DEFINE next(f) ==
               [n \in 0..Len(ids) |->
                   IF n = 0 THEN <<>>
                   ELSE IF ids[n] \in found THEN Append(f[n - 1], ids[n]) ELSE f[n - 1]]
           upTo == CHOOSE f : f = next(f)
           front == [n \in 0..Len(ids) |-> SubSeq(ids, 1, n)]
<1>1. Len(ids) \in Nat /\ SubSeq(ids, 1, 0) = <<>>
    OBVIOUS
<1>2. \A n \in 1..Len(ids) : SubSeq(ids, 1, n) = Append(SubSeq(ids, 1, n - 1), ids[n])
    BY <1>1
<1>3. InBlockOrder(ids, found) = upTo[Len(ids)]
    BY DEF InBlockOrder
\* The prefixes satisfy the recursion, so there is a function that does.
<1>4. front = next(front)
    <2>1. front[0] = <<>>
        BY <1>1
    <2>2. ASSUME NEW n \in 1..Len(ids)
          PROVE  front[n] = Append(front[n - 1], ids[n])
        <3>1. n - 1 \in 0..Len(ids) /\ n \in 0..Len(ids)
            BY <1>1
        <3>2. front[n] = SubSeq(ids, 1, n) /\ front[n - 1] = SubSeq(ids, 1, n - 1)
            BY <3>1
        <3>3. QED
            BY <1>2, <3>2
    <2>3. \A n \in 0..Len(ids) : front[n] = next(front)[n]
        BY <1>1, <2>1, <2>2
    <2>4. /\ front = [n \in 0..Len(ids) |-> front[n]]
          /\ next(front) = [n \in 0..Len(ids) |-> next(front)[n]]
        OBVIOUS
    <2> HIDE DEF front, next
    <2>5. QED
        BY <2>3, <2>4
<1>5. upTo = next(upTo)
    <2> HIDE DEF front, next
    <2>1. QED
        BY <1>4
<1>6. upTo[0] = <<>> /\ \A n \in 1..Len(ids) : upTo[n] = Append(upTo[n - 1], ids[n])
    <2> HIDE DEF upTo
    <2>1. \A n \in 0..Len(ids) :
             upTo[n] = IF n = 0 THEN <<>>
                       ELSE IF ids[n] \in found THEN Append(upTo[n - 1], ids[n])
                       ELSE upTo[n - 1]
        BY <1>5
    <2>2. upTo[0] = <<>>
        BY <1>1, <2>1
    <2>3. ASSUME NEW n \in 1..Len(ids) PROVE upTo[n] = Append(upTo[n - 1], ids[n])
        <3>1. n \in 0..Len(ids) /\ n # 0 /\ ids[n] \in found
            BY <1>1
        <3>2. QED
            BY <2>1, <3>1
    <2>4. QED
        BY <2>2, <2>3
<1> HIDE DEF upTo, next, front
\* It is the prefixes: consider the least n at which it were not.
<1> DEFINE wrong == {n \in 0..Len(ids) : upTo[n] # SubSeq(ids, 1, n)}
<1>7. ASSUME NEW n \in wrong, \A y \in wrong : ~ (y < n) PROVE FALSE
    <2>1. n # 0
        BY <1>1, <1>6
    <2>2. n - 1 \in 0..Len(ids) /\ n - 1 < n /\ n \in 1..Len(ids)
        BY <1>1, <2>1
    <2>3. upTo[n - 1] = SubSeq(ids, 1, n - 1)
        BY <1>7, <2>2
    <2>4. QED
        BY <1>2, <1>6, <2>2, <2>3
<1>8. wrong = {}
    <2>1. wrong \subseteq Nat
        BY <1>1
    <2> HIDE DEF wrong
    <2>2. QED
        BY <1>7, <2>1, LeastNumber
<1>9. upTo[Len(ids)] = SubSeq(ids, 1, Len(ids))
    BY <1>1, <1>8
<1>10. SubSeq(ids, 1, Len(ids)) = ids
    OBVIOUS
<1>11. QED
    BY <1>3, <1>9, <1>10

-----------------------------------------------------------------------------
\* The operators the loop is built from

\* state.messages.append adds one message and changes nothing else.
LEMMA SayAppends ==
    ASSUME NEW s \in State, NEW m \in Message
    PROVE  /\ Say(s, m) \in State
           /\ Say(s, m).messages = Append(s.messages, m)
           /\ Say(s, m).trace = s.trace
<1>1. Append(s.messages, m) \in Seq(Message)
    BY AppendProperties DEF State
<1>2. QED
    BY <1>1 DEF Say, State

\* _trace adds its events and changes nothing else.
LEMMA RecordAppends ==
    ASSUME NEW s \in State, NEW e \in Seq(Event)
    PROVE  /\ Record(s, e) \in State
           /\ Record(s, e).trace = s.trace \o e
           /\ Record(s, e).messages = s.messages
<1>1. s.trace \o e \in Seq(Event)
    BY ConcatProperties DEF State
<1>2. QED
    BY <1>1 DEF Record, State

\* The messages of the user's side are messages.
LEMMA UserMessageType ==
    ASSUME NEW text \in Texts
    PROVE  /\ UserMessage(text) \in Message
           /\ UserMessage(text).uses = <<>>
           /\ UserMessage(text).results = <<>>
           /\ UserMessage(text).role = "user"
           /\ UserMessage(text).text = text
           /\ UserMessage(text).stop = "none"
    BY DEF UserMessage, Message

LEMMA ResultMessageType ==
    ASSUME NEW ids \in Seq(UseId)
    PROVE  /\ ResultMessage(ids) \in Message
           /\ ResultMessage(ids).uses = <<>>
           /\ ResultMessage(ids).results = ids
           /\ ResultMessage(ids).role = "user"
           /\ ResultMessage(ids).text = "none"
           /\ ResultMessage(ids).stop = "none"
    BY DEF ResultMessage, Message, Texts

\* The events of a type that record no block.
LEMMA PlainEventType ==
    ASSUME NEW type \in {"user_message", "assistant_text", "stop"}
    PROVE  /\ PlainEvent(type) \in Event
           /\ PlainEvent(type).type = type
           /\ PlainEvent(type).name = ""
           /\ <<PlainEvent(type)>> \in Seq(Event)
<1>1. PlainEvent(type) \in Event
    BY DEF PlainEvent, Event
<1>2. PlainEvent(type).type = type /\ PlainEvent(type).name = ""
    BY DEF PlainEvent
<1>3. <<PlainEvent(type)>> \in Seq(Event)
    BY <1>1
<1>4. QED
    BY <1>1, <1>2, <1>3

\* Every block of a response gets an id of its own: message, then position.
LEMMA UseIdsAreNumbered ==
    ASSUME NEW s \in State, NEW r \in Response
    PROVE  /\ UseIds(s, r) \in Seq(UseId)
           /\ Len(UseIds(s, r)) = Len(r.tools)
           /\ \A k \in 1..Len(r.tools) :
                 UseIds(s, r)[k] = <<Len(s.messages) + 1, k>>
<1>1. Len(s.messages) + 1 \in Nat \ {0} /\ Len(r.tools) \in Nat
    BY DEF State, Response
<1>2. \A k \in 1..Len(r.tools) : <<Len(s.messages) + 1, k>> \in UseId
    BY <1>1 DEF UseId
<1>3. UseIds(s, r) \in [1..Len(r.tools) -> UseId]
    BY <1>2 DEF UseIds
<1>4. QED
    BY <1>1, <1>3 DEF UseIds

\* The message and the events one response leaves.
AnswerMessage(s, r) == AssistantMessage(r, ContentText(r), UseIds(s, r))
AnswerEvents(s, r)  == TextEvents(r) \o UseEvents(s, r)

LEMMA AnswerMessageType ==
    ASSUME NEW s \in State, NEW r \in Response
    PROVE  /\ AnswerMessage(s, r) \in Message
           /\ AnswerMessage(s, r).uses = UseIds(s, r)
           /\ AnswerMessage(s, r).results = <<>>
           /\ AnswerMessage(s, r).role = "assistant"
           /\ AnswerMessage(s, r).stop = r.stop
<1>1. ContentText(r) \in Texts /\ r.stop \in StopReasons
    BY DEF ContentText, Response, Texts
<1>2. QED
    BY <1>1, UseIdsAreNumbered DEF AnswerMessage, AssistantMessage, Message

LEMMA UseEventsType ==
    ASSUME NEW s \in State, NEW r \in Response
    PROVE  /\ UseEvents(s, r) \in Seq(Event)
           /\ Len(UseEvents(s, r)) = Len(r.tools)
           /\ \A k \in 1..Len(r.tools) :
                 /\ UseEvents(s, r)[k].type = "tool_use"
                 /\ UseEvents(s, r)[k].id = UseIds(s, r)[k]
<1>1. Len(r.tools) \in Nat /\ \A k \in 1..Len(r.tools) : r.tools[k] \in Tools
    BY DEF Response
<1>2. \A k \in 1..Len(r.tools) : UseIds(s, r)[k] \in UseId
    BY UseIdsAreNumbered
<1>3. \A k \in 1..Len(r.tools) :
         [type |-> "tool_use", id |-> UseIds(s, r)[k], name |-> r.tools[k]] \in Event
    BY <1>1, <1>2 DEF Event
<1>4. UseEvents(s, r) \in [1..Len(r.tools) -> Event]
    BY <1>3 DEF UseEvents
<1>5. /\ UseEvents(s, r) \in Seq(Event)
      /\ Len(UseEvents(s, r)) = Len(r.tools)
    BY <1>1, <1>4
<1>6. \A k \in 1..Len(r.tools) : /\ UseEvents(s, r)[k].type = "tool_use"
                                /\ UseEvents(s, r)[k].id = UseIds(s, r)[k]
    BY DEF UseEvents
<1>7. QED
    BY <1>5, <1>6

LEMMA TextEventsType ==
    ASSUME NEW r \in Response
    PROVE  TextEvents(r) \in Seq(Event)
<1>1. CASE r.text \in {"none", "blank"}
    BY <1>1 DEF TextEvents
<1>2. CASE r.text \notin {"none", "blank"}
    BY <1>2, PlainEventType DEF TextEvents
<1>3. QED
    BY <1>1, <1>2

LEMMA ResultEventsType ==
    ASSUME NEW ids \in Seq(UseId)
    PROVE  /\ ResultEvents(ids) \in Seq(Event)
           /\ Len(ResultEvents(ids)) = Len(ids)
           /\ \A k \in 1..Len(ids) : /\ ResultEvents(ids)[k].type = "tool_result"
                                     /\ ResultEvents(ids)[k].id = ids[k]
<1>1. \A k \in 1..Len(ids) :
         [type |-> "tool_result", id |-> ids[k], name |-> ""] \in Event
    BY DEF Event
<1>2. ResultEvents(ids) \in [1..Len(ids) -> Event]
    BY <1>1 DEF ResultEvents
<1>3. ResultEvents(ids) \in Seq(Event) /\ Len(ResultEvents(ids)) = Len(ids)
    BY <1>2
<1>4. ASSUME NEW k \in 1..Len(ids)
      PROVE  /\ ResultEvents(ids)[k].type = "tool_result"
             /\ ResultEvents(ids)[k].id = ids[k]
    BY DEF ResultEvents
<1>5. QED
    BY <1>3, <1>4

\* One response appends one message and its events.
LEMMA WithResponseAppends ==
    ASSUME NEW s \in State, NEW r \in Response
    PROVE  /\ WithResponse(s, r) \in State
           /\ WithResponse(s, r).messages = Append(s.messages, AnswerMessage(s, r))
           /\ WithResponse(s, r).trace = s.trace \o AnswerEvents(s, r)
           /\ AnswerEvents(s, r) \in Seq(Event)
<1>1. AnswerEvents(s, r) \in Seq(Event)
    BY UseEventsType, TextEventsType, ConcatProperties DEF AnswerEvents
<1>2. WithResponse(s, r) = Record(Say(s, AnswerMessage(s, r)), AnswerEvents(s, r))
    BY DEF WithResponse, AnswerMessage, AnswerEvents
<1> DEFINE said == Say(s, AnswerMessage(s, r))
<1>3. /\ said \in State
      /\ said.messages = Append(s.messages, AnswerMessage(s, r))
      /\ said.trace = s.trace
    BY SayAppends, AnswerMessageType
<1> HIDE DEF said
<1>4. /\ Record(said, AnswerEvents(s, r)) \in State
      /\ Record(said, AnswerEvents(s, r)).trace = said.trace \o AnswerEvents(s, r)
      /\ Record(said, AnswerEvents(s, r)).messages = said.messages
    BY <1>1, <1>3, RecordAppends
<1>5. QED
    BY <1>1, <1>2, <1>3, <1>4 DEF said

LEMMA WithUserMessageAppends ==
    ASSUME NEW s \in State
    PROVE  /\ WithUserMessage(s) \in State
           /\ WithUserMessage(s).messages = Append(s.messages, UserMessage("plain"))
           /\ WithUserMessage(s).trace = s.trace \o <<PlainEvent("user_message")>>
<1>1. UserMessage("plain") \in Message
    BY UserMessageType DEF Texts
<1> DEFINE said == Say(s, UserMessage("plain"))
           asked == <<PlainEvent("user_message")>>
<1>2. /\ said \in State
      /\ said.messages = Append(s.messages, UserMessage("plain"))
      /\ said.trace = s.trace
    BY <1>1, SayAppends
<1>3. asked \in Seq(Event)
    BY PlainEventType
<1>4. WithUserMessage(s) = Record(said, asked)
    BY DEF WithUserMessage
<1> HIDE DEF said, asked
<1>5. /\ Record(said, asked) \in State
      /\ Record(said, asked).trace = said.trace \o asked
      /\ Record(said, asked).messages = said.messages
    BY <1>2, <1>3, RecordAppends
<1>6. QED
    BY <1>2, <1>4, <1>5 DEF asked

-----------------------------------------------------------------------------
\* The shape of every state

\* What FinalAnswer, CompleteTool and CollectResults make of the state.
Stopped(s) ==
    [Record(s, <<PlainEvent("stop")>>) EXCEPT !.total_turns = @ + 1]
Told(s, id) == Record(s, ResultEvents(<<id>>))
Collected(s) == Say(s, ResultMessage(s.messages[Len(s.messages)].uses))

LEMMA StoppedAppends ==
    ASSUME NEW s \in State
    PROVE  /\ Stopped(s) \in State
           /\ Stopped(s).messages = s.messages
           /\ Stopped(s).trace = s.trace \o <<PlainEvent("stop")>>
           /\ <<PlainEvent("stop")>> \in Seq(Event)
<1> DEFINE stop == <<PlainEvent("stop")>>
           recorded == Record(s, stop)
<1>1. stop \in Seq(Event)
    BY PlainEventType
<1>2. Stopped(s) = [recorded EXCEPT !.total_turns = @ + 1]
    BY DEF Stopped
<1> HIDE DEF stop
<1>3. /\ recorded \in State
      /\ recorded.trace = s.trace \o stop
      /\ recorded.messages = s.messages
    BY <1>1, RecordAppends
<1> HIDE DEF recorded
<1>4. recorded.total_turns + 1 \in Nat
    BY <1>3 DEF State
<1>5. /\ [recorded EXCEPT !.total_turns = @ + 1] \in State
      /\ [recorded EXCEPT !.total_turns = @ + 1].messages = recorded.messages
      /\ [recorded EXCEPT !.total_turns = @ + 1].trace = recorded.trace
    BY <1>3, <1>4 DEF State
<1>6. QED
    BY <1>1, <1>2, <1>3, <1>5 DEF stop

LEMMA ToldAppends ==
    ASSUME NEW s \in State, NEW id \in UseId
    PROVE  /\ Told(s, id) \in State
           /\ Told(s, id).messages = s.messages
           /\ Told(s, id).trace = s.trace \o ResultEvents(<<id>>)
           /\ ResultEvents(<<id>>) \in Seq(Event)
           /\ Len(ResultEvents(<<id>>)) = 1
           /\ ResultEvents(<<id>>)[1].type = "tool_result"
           /\ ResultEvents(<<id>>)[1].id = id
<1> DEFINE ids == <<id>>
           events == ResultEvents(ids)
<1>1. ids \in Seq(UseId) /\ Len(ids) = 1 /\ ids[1] = id
    OBVIOUS
<1> HIDE DEF ids
<1>2. /\ events \in Seq(Event) /\ Len(events) = 1
      /\ events[1].type = "tool_result" /\ events[1].id = id
    BY <1>1, ResultEventsType
<1>3. Told(s, id) = Record(s, events)
    BY DEF Told, ids
<1> HIDE DEF events
<1>4. QED
    BY <1>2, <1>3, RecordAppends DEF events, ids

LEMMA CollectedAppends ==
    ASSUME NEW s \in State, s.messages # <<>>
    PROVE  /\ s.messages[Len(s.messages)].uses \in Seq(UseId)
           /\ Collected(s) \in State
           /\ Collected(s).messages =
                Append(s.messages, ResultMessage(s.messages[Len(s.messages)].uses))
           /\ Collected(s).trace = s.trace
<1> DEFINE ids == s.messages[Len(s.messages)].uses
           answer == ResultMessage(ids)
<1>1. s.messages[Len(s.messages)] \in Message
    BY DEF State
<1>2. ids \in Seq(UseId)
    BY <1>1 DEF Message
<1>3. Collected(s) = Say(s, answer)
    BY DEF Collected
<1> HIDE DEF ids
<1>4. answer \in Message
    BY <1>2, ResultMessageType
<1> HIDE DEF answer
<1>5. QED
    BY <1>2, <1>3, <1>4, SayAppends DEF ids, answer

\* After a response, its message is the last one, with its blocks.
LastMessage == state.messages[Len(state.messages)]

Shape ==
    pc \in {"received", "dispatching"} =>
        /\ state.messages # <<>>
        /\ LastMessage.stop = response.stop
        /\ Len(Dispatched) = Len(response.tools)

TypeInv == TypeOK /\ Shape

\* What a step can make of the conversations: a new one in hand, and in the
\* store the old one or that.
Leaves(s) ==
    /\ state' = s
    /\ saved' \in {saved, s}
    /\ pc' # "idle" => saved' = saved

\* The steps that leave the conversation alone.
Quietly ==
    \/ \E r \in Responses : CallApi(r)
    \/ ToolUseStart \/ BeginDispatch \/ Raise \/ Disconnect

\* Every step starts a turn or leaves one of five states.
LEMMA StepShapes ==
    ASSUME TypeInv, Next
    PROVE  \/ StartTurn
           \/ EndOfStream /\ Leaves(WithResponse(state, response))
           \/ FinalAnswer /\ Leaves(Stopped(state))
           \/ \E i \in 1..Len(response.tools) :
                 CompleteTool(i) /\ Leaves(Told(state, Dispatched[i]))
           \/ CollectResults /\ Leaves(Collected(state))
           \/ Quietly /\ Leaves(state)
<1> USE DEF Leaves
<1>1. ASSUME EndOfStream PROVE Leaves(WithResponse(state, response))
    BY <1>1 DEF EndOfStream
<1>2. ASSUME FinalAnswer PROVE Leaves(Stopped(state))
    BY <1>2 DEF FinalAnswer, Done, Stopped
<1>3. ASSUME NEW i \in 1..Len(response.tools), CompleteTool(i)
      PROVE  Leaves(Told(state, Dispatched[i]))
    BY <1>3 DEF CompleteTool, Told
<1>4. ASSUME CollectResults PROVE Leaves(Collected(state))
    <2>1. state \in State /\ state.messages # <<>>
        BY <1>4 DEF CollectResults, TypeInv, TypeOK, Shape
    <2>2. Dispatched \in Seq(UseId)
        BY <2>1, CollectedAppends DEF Dispatched
    <2>3. Ids(Dispatched) = Ids(completed)
        BY <1>4 DEF CollectResults
    <2>4. \A i \in 1..Len(Dispatched) : Dispatched[i] \in Ids(completed)
        BY <2>3 DEF Ids
    <2>5. InBlockOrder(Dispatched, Ids(completed)) = Dispatched
        BY <2>2, <2>4, AllInBlockOrder
    <2>6. Collected(state) = Say(state, ResultMessage(Dispatched))
        BY DEF Collected, Dispatched
    <2>7. NextIteration(Collected(state))
        BY <1>4, <2>5, <2>6 DEF CollectResults
    <2>8. QED
        BY <2>7 DEF NextIteration, Done
<1>5. ASSUME Quietly PROVE Leaves(state)
    BY <1>5 DEF Quietly, CallApi, ToolUseStart, BeginDispatch, Raise, Disconnect, Backstop
<1>6. QED
    BY <1>1, <1>2, <1>3, <1>4, <1>5 DEF Next, Progress, ApiRejects, Quietly

LEMMA YieldType ==
    ASSUME NEW type \in {"tool_use_start", "tool_result", "iteration_end", "done", "error"},
           NEW id \in UseId \cup {<<>>}, sent \in Seq(SseEvent), Yield(type, id)
    PROVE  sent' \in Seq(SseEvent)
<1>1. Sse(type, id) \in SseEvent
    BY DEF Sse, SseEvent
<1>2. QED
    BY <1>1, AppendProperties DEF Yield

LEMMA ResponseTypes ==
    ASSUME NEW r \in Responses \cup {NoResponse} PROVE r \in Response /\ Len(r.tools) \in Nat
<1>1. NoResponse \in Response
    BY DEF NoResponse, Response, StopReasons, Texts
<1>2. r \in Response
    BY <1>1, ResponsesAssumption
<1>3. QED
    BY <1>2 DEF Response

LEMMA InitTypes == Init => TypeInv
<1>1. NewState \in State
    BY DEF NewState, State
<1>2. 0 \in 0..MaxTurns /\ 1 \in 1..MaxIterations
    BY BoundsAssumption
<1>3. 0 \in 0..Len(NoResponse.tools)
    BY DEF NoResponse
<1>4. QED
    BY <1>1, <1>2, <1>3 DEF Init, TypeInv, TypeOK, Shape

LEMMA StepTypes == TypeInv /\ [Next]_vars => TypeInv'
<1> SUFFICES ASSUME TypeInv, [Next]_vars PROVE TypeInv'
    OBVIOUS
<1>0. /\ state \in State /\ saved \in State
      /\ turns \in 0..MaxTurns /\ iteration \in 1..MaxIterations
      /\ response \in Responses \cup {NoResponse} /\ response \in Response
      /\ started \in 0..Len(response.tools) /\ Len(response.tools) \in Nat
      /\ completed \in Seq(UseId) /\ sent \in Seq(SseEvent)
    BY ResponseTypes DEF TypeInv, TypeOK
<1>1. CASE StartTurn
    <2>1. WithUserMessage(saved) \in State
        BY <1>0, WithUserMessageAppends
    <2>2. turns + 1 \in 0..MaxTurns /\ 1 \in 1..MaxIterations /\ 0 \in 0..Len(NoResponse.tools)
        BY <1>0, <1>1, BoundsAssumption DEF StartTurn, NoResponse
    <2>3. QED
        BY <1>0, <1>1, <2>1, <2>2 DEF StartTurn, TypeInv, TypeOK, Shape
<1>2. ASSUME NEW r \in Responses, CallApi(r) PROVE TypeInv'
    <2>1. 0 \in 0..Len(r.tools)
        BY ResponseTypes
    <2>2. QED
        BY <1>0, <1>2, <2>1 DEF CallApi, TypeInv, TypeOK, Shape
<1>3. CASE ToolUseStart
    <2>1. started + 1 \in 1..Len(response.tools)
        BY <1>0, <1>3 DEF ToolUseStart
    <2>2. UseIds(state, response)[started + 1] \in UseId
        BY <1>0, <2>1, UseIdsAreNumbered
    <2>3. sent' \in Seq(SseEvent)
        BY <1>0, <1>3, <2>2, YieldType DEF ToolUseStart
    <2>4. started + 1 \in 0..Len(response.tools)
        BY <2>1
    <2>5. QED
        BY <1>0, <1>3, <2>3, <2>4 DEF ToolUseStart, TypeInv, TypeOK, Shape
<1>4. CASE EndOfStream
    <2>1. /\ WithResponse(state, response) \in State
          /\ WithResponse(state, response).messages =
                Append(state.messages, AnswerMessage(state, response))
          /\ AnswerMessage(state, response) \in Message
          /\ AnswerMessage(state, response).uses = UseIds(state, response)
          /\ AnswerMessage(state, response).stop = response.stop
        BY <1>0, WithResponseAppends, AnswerMessageType
    <2>2. state.messages \in Seq(Message)
        BY <1>0 DEF State
    <2>3. /\ state'.messages # <<>>
          /\ state'.messages[Len(state'.messages)] = AnswerMessage(state, response)
        BY <1>4, <2>1, <2>2, AppendProperties DEF EndOfStream
    <2>4. Len(UseIds(state, response)) = Len(response.tools)
        BY <1>0, UseIdsAreNumbered
    <2>5. sent' \in Seq(SseEvent)
        BY <1>0, <1>4, YieldType DEF EndOfStream
    <2>6. Shape'
        BY <1>4, <2>1, <2>3, <2>4 DEF EndOfStream, Shape, LastMessage, Dispatched
    <2>7. QED
        BY <1>0, <1>4, <2>1, <2>5, <2>6 DEF EndOfStream, TypeInv, TypeOK
<1>5. CASE FinalAnswer
    <2>1. Stopped(state) \in State
        BY <1>0, StoppedAppends
    <2>2. sent' \in Seq(SseEvent)
        BY <1>0, <1>5, YieldType DEF FinalAnswer, Done
    <2>3. state' \in State /\ saved' \in State /\ pc' = "idle"
        BY <1>0, <1>5, <2>1 DEF FinalAnswer, Done, Stopped
    <2>4. QED
        BY <1>0, <1>5, <2>2, <2>3 DEF FinalAnswer, TypeInv, TypeOK, Shape
<1>6. CASE BeginDispatch
    BY <1>0, <1>6 DEF BeginDispatch, TypeInv, TypeOK, Shape, LastMessage, Dispatched
<1>7. ASSUME NEW i \in 1..Len(response.tools), CompleteTool(i), Leaves(Told(state, Dispatched[i]))
      PROVE  TypeInv'
    <2>1. /\ pc = "dispatching" /\ pc' = pc
          /\ completed' = Append(completed, Dispatched[i])
          /\ Yield("tool_result", Dispatched[i])
          /\ UNCHANGED <<saved, turns, iteration, response, started>>
        BY <1>7 DEF CompleteTool
    <2>2. state.messages # <<>> /\ Len(Dispatched) = Len(response.tools)
        BY <2>1 DEF TypeInv, Shape
    <2>3. Dispatched \in Seq(UseId)
        BY <1>0, <2>2, CollectedAppends DEF Dispatched
    <2>4. Dispatched[i] \in UseId
        BY <2>2, <2>3
    <2>5. completed' \in Seq(UseId) /\ sent' \in Seq(SseEvent)
        BY <1>0, <2>1, <2>4, AppendProperties, YieldType
    <2>6. state' \in State /\ state'.messages = state.messages
        BY <1>0, <1>7, <2>4, ToldAppends DEF Leaves
    <2>7. Shape'
        BY <2>1, <2>6 DEF TypeInv, Shape, LastMessage, Dispatched
    <2>8. QED
        BY <1>0, <2>1, <2>5, <2>6, <2>7 DEF TypeInv, TypeOK
<1>8. CASE CollectResults /\ Leaves(Collected(state))
    <2>1. Collected(state) \in State
        BY <1>0, <1>8, CollectedAppends DEF CollectResults, TypeInv, Shape
    <2>2. PICK s : NextIteration(s) /\ UNCHANGED <<turns, response, started, completed>>
        BY <1>8 DEF CollectResults
    <2>3. pc' \in {"calling", "idle"} /\ iteration' \in 1..MaxIterations
        BY <1>0, <2>2, BoundsAssumption DEF NextIteration, Done
    <2>4. sent' \in Seq(SseEvent)
        BY <1>0, <2>2, YieldType DEF NextIteration, Done
    <2>5. QED
        BY <1>0, <1>8, <2>1, <2>2, <2>3, <2>4 DEF Leaves, TypeInv, TypeOK, Shape
<1>9. CASE Raise
    <2>1. sent' \in Seq(SseEvent)
        BY <1>0, <1>9, YieldType DEF Raise
    <2>2. QED
        BY <1>0, <1>9, <2>1 DEF Raise, Backstop, TypeInv, TypeOK, Shape
<1>10. CASE Disconnect
    BY <1>0, <1>10 DEF Disconnect, Backstop, TypeInv, TypeOK, Shape
<1>11. CASE UNCHANGED vars
    BY <1>11 DEF vars, TypeInv, TypeOK, Shape, LastMessage, Dispatched
<1>12. QED
    BY <1>1, <1>2, <1>3, <1>4, <1>5, <1>6, <1>7, <1>8, <1>9, <1>10, <1>11, StepShapes DEF Quietly

\* Every reachable state of the streaming loop is well typed.
THEOREM TypeCorrect == Spec => []TypeOK
<1>1. TypeInv => TypeOK
    BY DEF TypeInv
<1>2. QED
    BY <1>1, InitTypes, StepTypes, PTL DEF Spec


-----------------------------------------------------------------------------
\* Results in block order

LEMMA AppendMatches ==
    ASSUME NEW msgs \in Seq(Message), NEW m \in Message, ResultsMatch(msgs),
           m.results # <<>> => msgs # <<>> /\ m.results = msgs[Len(msgs)].uses
    PROVE  ResultsMatch(Append(msgs, m))
<1> DEFINE longer == Append(msgs, m)
<1>1. /\ Len(longer) = Len(msgs) + 1 /\ Len(msgs) \in Nat
      /\ longer[Len(msgs) + 1] = m
      /\ \A i \in 1..Len(msgs) : longer[i] = msgs[i]
    OBVIOUS
<1> HIDE DEF longer
<1>2. SUFFICES ASSUME NEW i \in 1..Len(longer), longer[i].results # <<>>
               PROVE  i > 1 /\ longer[i].results = longer[i - 1].uses
    BY DEF ResultsMatch, longer
<1>3. CASE i = Len(msgs) + 1
    <2>1. msgs # <<>> /\ m.results = msgs[Len(msgs)].uses
        BY <1>1, <1>2, <1>3
    <2>2. Len(msgs) \in 1..Len(msgs)
        BY <1>1, <2>1, EmptySeq
    <2>3. QED
        BY <1>1, <1>3, <2>1, <2>2
<1>4. CASE i \in 1..Len(msgs)
    <2>1. i > 1 /\ msgs[i].results = msgs[i - 1].uses
        BY <1>1, <1>2, <1>4 DEF ResultsMatch
    <2>2. i - 1 \in 1..Len(msgs)
        BY <1>1, <1>4, <2>1
    <2>3. QED
        BY <1>1, <1>4, <2>1, <2>2
<1>5. QED
    BY <1>1, <1>3, <1>4

LEMMA StepMatches == TypeInv /\ ResultsInBlockOrder /\ [Next]_vars => ResultsInBlockOrder'
<1> SUFFICES ASSUME TypeInv, ResultsInBlockOrder, [Next]_vars PROVE ResultsInBlockOrder'
    OBVIOUS
<1>0. /\ state \in State /\ state.messages \in Seq(Message) /\ ResultsMatch(state.messages)
      /\ saved \in State /\ saved.messages \in Seq(Message) /\ ResultsMatch(saved.messages)
      /\ response \in Response
    BY ResponseTypes DEF TypeInv, TypeOK, State, ResultsInBlockOrder
<1>1. ASSUME NEW s, Leaves(s), ResultsMatch(s.messages) PROVE ResultsInBlockOrder'
    BY <1>0, <1>1 DEF Leaves, ResultsInBlockOrder
<1>2. CASE StartTurn
    <2>1. /\ UserMessage("plain") \in Message /\ UserMessage("plain").results = <<>>
          /\ WithUserMessage(saved).messages = Append(saved.messages, UserMessage("plain"))
        BY <1>0, UserMessageType, WithUserMessageAppends DEF Texts
    <2>2. ResultsMatch(WithUserMessage(saved).messages)
        BY <1>0, <2>1, AppendMatches
    <2>3. QED
        BY <1>0, <1>2, <2>2 DEF StartTurn, ResultsInBlockOrder
<1>3. CASE Leaves(WithResponse(state, response))
    <2>1. /\ AnswerMessage(state, response) \in Message
          /\ AnswerMessage(state, response).results = <<>>
          /\ WithResponse(state, response).messages =
                Append(state.messages, AnswerMessage(state, response))
        BY <1>0, WithResponseAppends, AnswerMessageType
    <2>2. ResultsMatch(WithResponse(state, response).messages)
        BY <1>0, <2>1, AppendMatches
    <2>3. QED
        BY <1>1, <1>3, <2>2
<1>4. CASE Leaves(Stopped(state))
    BY <1>0, <1>1, <1>4, StoppedAppends
<1>5. ASSUME NEW i \in 1..Len(response.tools), CompleteTool(i), Leaves(Told(state, Dispatched[i]))
      PROVE  ResultsInBlockOrder'
    <2>1. state.messages # <<>> /\ Len(Dispatched) = Len(response.tools)
        BY <1>5 DEF CompleteTool, TypeInv, Shape
    <2>2. Dispatched[i] \in UseId
        BY <1>0, <2>1, CollectedAppends DEF Dispatched
    <2>3. QED
        BY <1>0, <1>1, <1>5, <2>2, ToldAppends
<1>6. CASE CollectResults /\ Leaves(Collected(state))
    <2> DEFINE ids == state.messages[Len(state.messages)].uses
               answer == ResultMessage(ids)
    <2>1. state.messages # <<>>
        BY <1>6 DEF CollectResults, TypeInv, Shape
    <2>2. ids \in Seq(UseId) /\ Collected(state).messages = Append(state.messages, answer)
        BY <1>0, <2>1, CollectedAppends
    <2>3. answer \in Message /\ answer.results = ids
        BY <2>2, ResultMessageType
    <2> HIDE DEF answer
    <2>4. ResultsMatch(Collected(state).messages)
        BY <1>0, <2>1, <2>2, <2>3, AppendMatches
    <2>5. QED
        BY <1>1, <1>6, <2>4
<1>7. CASE Leaves(state)
    BY <1>0, <1>1, <1>7
<1>8. CASE UNCHANGED vars
    BY <1>8 DEF vars, ResultsInBlockOrder
<1>9. QED
    BY <1>2, <1>3, <1>4, <1>5, <1>6, <1>7, <1>8, StepShapes

\* Whatever order the tools finish in, the results sent back to the model are
\* those of the calls before them, one for one, in the order of the calls; in
\* the store too, wherever the turn was cut off.
THEOREM ResultsAreInBlockOrder == Spec => []ResultsInBlockOrder
<1>1. Init => ResultsInBlockOrder
    BY DEF Init, NewState, ResultsInBlockOrder, ResultsMatch
<1>2. QED
    BY <1>1, InitTypes, StepTypes, StepMatches, PTL DEF Spec


-----------------------------------------------------------------------------
\* The trace covers the messages

\* The result of a call is traced after the call.
ResultTold(trace, id) ==
    \E k \in Traced(trace, "tool_result", id), j \in Traced(trace, "tool_use", id) : j < k

\* In the middle of a dispatch, the results there are have been traced: that is
\* what makes the message of all results safe to append.
CoverInv ==
    /\ TraceCoversMessages
    /\ pc \in {"receiving", "received"} => completed = <<>>
    /\ pc = "dispatching" =>
         \A id \in Ids(completed) : id \in Ids(Dispatched) /\ ResultTold(state.trace, id)

LEMMA TracedGrows ==
    ASSUME NEW old \in Seq(Event), NEW e \in Seq(Event), NEW type, NEW id
    PROVE  /\ Traced(old, type, id) \subseteq Traced(old \o e, type, id)
           /\ ResultTold(old, id) => ResultTold(old \o e, id)
<1> DEFINE new == old \o e
<1>1. /\ Len(old) \in Nat /\ Len(e) \in Nat /\ Len(new) = Len(old) + Len(e)
      /\ \A i \in 1..Len(old) : new[i] = old[i]
    BY ConcatProperties
<1> HIDE DEF new
<1>2. ASSUME NEW t PROVE Traced(old, t, id) \subseteq Traced(new, t, id)
    BY <1>1 DEF Traced
<1>3. ResultTold(old, id) => ResultTold(new, id)
    BY <1>2 DEF ResultTold
<1>4. QED
    BY <1>2, <1>3 DEF new

\* More events do no harm.
LEMMA CoverKept ==
    ASSUME NEW s \in State, NEW t \in State, NEW e \in Seq(Event), TraceCovers(s),
           t.messages = s.messages, t.trace = s.trace \o e
    PROVE  TraceCovers(t)
<1>1. s.trace \in Seq(Event)
    BY DEF State
<1>2. ASSUME NEW i \in 1..Len(t.messages)
      PROVE  /\ \A id \in Ids(t.messages[i].uses) : Traced(t.trace, "tool_use", id) # {}
             /\ \A id \in Ids(t.messages[i].results) : ResultTold(t.trace, id)
    <2>1. /\ \A id \in Ids(s.messages[i].uses) : Traced(s.trace, "tool_use", id) # {}
          /\ \A id \in Ids(s.messages[i].results) : ResultTold(s.trace, id)
        BY <1>2 DEF TraceCovers, ResultTold
    <2>2. ASSUME NEW id
          PROVE  /\ Traced(s.trace, "tool_use", id) \subseteq Traced(t.trace, "tool_use", id)
                 /\ ResultTold(s.trace, id) => ResultTold(t.trace, id)
        BY <1>1, TracedGrows
    <2>3. QED
        BY <2>1, <2>2
<1>3. QED
    BY <1>2 DEF TraceCovers, ResultTold

\* A message may be appended once the blocks it has are traced.
LEMMA CoverAppended ==
    ASSUME NEW s \in State, NEW t \in State, NEW m \in Message, NEW e \in Seq(Event),
           TraceCovers(s), t.messages = Append(s.messages, m), t.trace = s.trace \o e,
           \A id \in Ids(m.uses) : Traced(t.trace, "tool_use", id) # {},
           \A id \in Ids(m.results) : ResultTold(t.trace, id)
    PROVE  TraceCovers(t)
<1> DEFINE before == [t EXCEPT !.messages = s.messages]
<1>1. before \in State /\ before.messages = s.messages /\ before.trace = t.trace
    BY DEF State
<1> HIDE DEF before
<1>2. TraceCovers(before)
    BY <1>1, CoverKept
<1>3. /\ Len(t.messages) = Len(s.messages) + 1 /\ Len(s.messages) \in Nat
      /\ t.messages[Len(s.messages) + 1] = m
      /\ \A i \in 1..Len(s.messages) : t.messages[i] = before.messages[i]
    BY <1>1 DEF State
<1>4. ASSUME NEW i \in 1..Len(t.messages)
      PROVE  /\ \A id \in Ids(t.messages[i].uses) : Traced(t.trace, "tool_use", id) # {}
             /\ \A id \in Ids(t.messages[i].results) : ResultTold(t.trace, id)
    <2>1. CASE i = Len(s.messages) + 1
        BY <1>3, <2>1
    <2>2. CASE i \in 1..Len(s.messages)
        <3>1. t.messages[i] = before.messages[i] /\ i \in 1..Len(before.messages)
            BY <1>1, <1>3, <2>2
        <3>2. QED
            BY <1>1, <1>2, <3>1 DEF TraceCovers, ResultTold
    <2>3. i = Len(s.messages) + 1 \/ i \in 1..Len(s.messages)
        BY <1>3
    <2>4. QED
        BY <2>1, <2>2, <2>3
<1>5. QED
    BY <1>4 DEF TraceCovers, ResultTold

LEMMA TracedLater ==
    ASSUME NEW old \in Seq(Event), NEW e \in Seq(Event), NEW type, NEW id,
           NEW k \in Traced(e, type, id)
    PROVE  Len(old) + k \in Traced(old \o e, type, id)
<1> DEFINE new == old \o e
<1>1. /\ Len(old) \in Nat /\ Len(e) \in Nat /\ Len(new) = Len(old) + Len(e)
      /\ \A i \in 1..Len(new) : i > Len(old) => new[i] = e[i - Len(old)]
    BY ConcatProperties
<1> HIDE DEF new
<1>2. k \in 1..Len(e) /\ e[k].type = type /\ e[k].id = id
    BY DEF Traced
<1> DEFINE n == Len(old) + k
<1>3. n \in 1..Len(new) /\ n > Len(old) /\ n - Len(old) = k
    BY <1>1, <1>2
<1> HIDE DEF n
<1>4. new[n] = e[k]
    BY <1>1, <1>3
<1>5. n \in Traced(new, type, id)
    BY <1>2, <1>3, <1>4 DEF Traced
<1>6. QED
    BY <1>5 DEF n, new

\* The events of a response name its blocks.
LEMMA AnswerIsTraced ==
    ASSUME NEW s \in State, NEW r \in Response, NEW id \in Ids(UseIds(s, r))
    PROVE  Traced(s.trace \o AnswerEvents(s, r), "tool_use", id) # {}
<1>1. PICK k \in 1..Len(r.tools) : id = UseIds(s, r)[k]
    BY UseIdsAreNumbered DEF Ids
<1>2. /\ TextEvents(r) \in Seq(Event) /\ UseEvents(s, r) \in Seq(Event)
      /\ AnswerEvents(s, r) \in Seq(Event) /\ s.trace \in Seq(Event)
    BY UseEventsType, TextEventsType, WithResponseAppends DEF State
<1>3. k \in Traced(UseEvents(s, r), "tool_use", id)
    BY <1>1, UseEventsType DEF Traced
<1>4. Len(TextEvents(r)) + k \in Traced(AnswerEvents(s, r), "tool_use", id)
    BY <1>2, <1>3, TracedLater DEF AnswerEvents
<1>5. QED
    BY <1>2, <1>4, TracedLater

\* The event of a result comes after that of its call.
LEMMA ResultIsTold ==
    ASSUME NEW s \in State, NEW id \in UseId, Traced(s.trace, "tool_use", id) # {}
    PROVE  ResultTold(Told(s, id).trace, id)
<1> DEFINE e == ResultEvents(<<id>>)
           new == Told(s, id).trace
<1>1. /\ e \in Seq(Event) /\ Len(e) = 1 /\ e[1].type = "tool_result" /\ e[1].id = id
      /\ new = s.trace \o e /\ s.trace \in Seq(Event)
    BY ToldAppends DEF State
<1> HIDE DEF e, new
<1>2. 1 \in Traced(e, "tool_result", id)
    BY <1>1 DEF Traced
<1>3. Len(s.trace) + 1 \in Traced(new, "tool_result", id) /\ Len(s.trace) \in Nat
    BY <1>1, <1>2, TracedLater
<1>4. PICK j : j \in Traced(s.trace, "tool_use", id)
    OBVIOUS
<1>5. j \in Traced(new, "tool_use", id)
    BY <1>1, <1>4, TracedGrows
<1>6. j < Len(s.trace) + 1
    BY <1>3, <1>4 DEF Traced
<1>7. QED
    BY <1>3, <1>5, <1>6 DEF ResultTold, new


LEMMA StepCovers == TypeInv /\ CoverInv /\ [Next]_vars => CoverInv'
<1> SUFFICES ASSUME TypeInv, CoverInv, [Next]_vars PROVE CoverInv'
    OBVIOUS
<1>0. /\ state \in State /\ TraceCovers(state)
      /\ saved \in State /\ TraceCovers(saved)
      /\ response \in Response /\ completed \in Seq(UseId)
    BY ResponseTypes DEF TypeInv, TypeOK, CoverInv, TraceCoversMessages
<1>1. ASSUME NEW s, Leaves(s), TraceCovers(s) PROVE TraceCoversMessages'
    BY <1>0, <1>1 DEF Leaves, TraceCoversMessages
<1>2. CASE StartTurn
    <2> DEFINE m == UserMessage("plain")
               e == <<PlainEvent("user_message")>>
    <2>1. /\ m \in Message /\ m.uses = <<>> /\ m.results = <<>>
          /\ WithUserMessage(saved) \in State
          /\ WithUserMessage(saved).messages = Append(saved.messages, m)
          /\ e \in Seq(Event) /\ WithUserMessage(saved).trace = saved.trace \o e
        BY <1>0, UserMessageType, WithUserMessageAppends, PlainEventType DEF Texts
    <2>2. Ids(m.uses) = {} /\ Ids(m.results) = {}
        BY <2>1 DEF Ids
    <2> HIDE DEF m, e
    <2>3. TraceCovers(WithUserMessage(saved))
        BY <1>0, <2>1, <2>2, CoverAppended
    <2>4. QED
        BY <1>0, <1>2, <2>3 DEF StartTurn, CoverInv, TraceCoversMessages
<1>3. CASE EndOfStream /\ Leaves(WithResponse(state, response))
    <2> DEFINE m == AnswerMessage(state, response)
               e == AnswerEvents(state, response)
               t == WithResponse(state, response)
    <2>1. /\ m \in Message /\ m.uses = UseIds(state, response) /\ m.results = <<>>
          /\ t \in State /\ t.messages = Append(state.messages, m)
          /\ e \in Seq(Event) /\ t.trace = state.trace \o e
        BY <1>0, WithResponseAppends, AnswerMessageType
    <2>2. Ids(m.results) = {}
        BY <2>1 DEF Ids
    <2>3. \A id \in Ids(m.uses) : Traced(t.trace, "tool_use", id) # {}
        BY <1>0, <2>1, AnswerIsTraced
    <2> HIDE DEF m, e, t
    <2>4. TraceCovers(t)
        BY <1>0, <2>1, <2>2, <2>3, CoverAppended
    <2>5. pc' = "received" /\ completed' = <<>>
        BY <1>3 DEF EndOfStream, CoverInv
    <2>6. QED
        BY <1>1, <1>3, <2>4, <2>5 DEF CoverInv, t
<1>4. CASE FinalAnswer /\ Leaves(Stopped(state))
    <2>1. TraceCovers(Stopped(state))
        BY <1>0, StoppedAppends, CoverKept
    <2>2. pc' = "idle"
        BY <1>4 DEF FinalAnswer, Done
    <2>3. QED
        BY <1>1, <1>4, <2>1, <2>2 DEF CoverInv
<1>5. ASSUME NEW i \in 1..Len(response.tools), CompleteTool(i), Leaves(Told(state, Dispatched[i]))
      PROVE  CoverInv'
    <2> DEFINE new == Dispatched[i]
               e == ResultEvents(<<new>>)
               t == Told(state, new)
    <2>1. /\ pc = "dispatching" /\ pc' = pc
          /\ completed' = Append(completed, Dispatched[i])
        BY <1>5 DEF CompleteTool
    <2>2. state.messages # <<>> /\ Len(Dispatched) = Len(response.tools)
        BY <2>1 DEF TypeInv, Shape
    <2>3. new \in UseId /\ new \in Ids(Dispatched)
        BY <1>0, <2>2, CollectedAppends DEF Dispatched, Ids
    <2>4. /\ e \in Seq(Event) /\ t \in State /\ t.messages = state.messages
          /\ t.trace = state.trace \o e /\ state.trace \in Seq(Event)
        BY <1>0, <2>3, ToldAppends DEF State
    <2>5. Traced(state.trace, "tool_use", new) # {}
        <3>1. Len(state.messages) \in 1..Len(state.messages)
            BY <1>0, <2>2, EmptySeq DEF State
        <3>2. QED
            BY <1>0, <2>3, <3>1 DEF TraceCovers, Dispatched
    <2>6. ResultTold(t.trace, new)
        BY <1>0, <2>3, <2>5, ResultIsTold
    <2>7. Ids(completed') = Ids(completed) \cup {new}
        <3>1. /\ Len(completed') = Len(completed) + 1 /\ Len(completed) \in Nat
              /\ completed'[Len(completed) + 1] = new
              /\ \A k \in 1..Len(completed) : completed'[k] = completed[k]
            BY <1>0, <2>1
        <3> HIDE DEF new
        <3>2. 1..Len(completed') = 1..Len(completed) \cup {Len(completed) + 1}
            BY <3>1
        <3>3. QED
            BY <3>1, <3>2 DEF Ids
    <2> HIDE DEF new, e, t
    <2>8. TraceCovers(t)
        BY <1>0, <2>4, CoverKept
    <2>9. state' = t
        BY <1>5 DEF Leaves, t, new
    <2>10. Dispatched' = Dispatched
        BY <2>4, <2>9 DEF Dispatched
    <2>11. ASSUME NEW id \in Ids(completed')
           PROVE  id \in Ids(Dispatched) /\ ResultTold(t.trace, id)
        <3>1. CASE id = new
            BY <2>3, <2>6, <3>1
        <3>2. CASE id \in Ids(completed)
            <4>1. id \in Ids(Dispatched) /\ ResultTold(state.trace, id)
                BY <2>1, <3>2 DEF CoverInv
            <4>2. QED
                BY <2>4, <4>1, TracedGrows
        <3>3. QED
            BY <2>7, <3>1, <3>2
    <2>12. TraceCoversMessages'
        BY <1>1, <1>5, <2>8 DEF t, new
    <2>13. QED
        BY <2>1, <2>9, <2>10, <2>11, <2>12 DEF CoverInv
<1>6. CASE CollectResults /\ Leaves(Collected(state))
    <2> DEFINE ids == state.messages[Len(state.messages)].uses
               m == ResultMessage(ids)
               t == Collected(state)
    <2>1. pc = "dispatching" /\ Ids(Dispatched) = Ids(completed) /\ pc' \in {"calling", "idle"}
        BY <1>6 DEF CollectResults, NextIteration, Done
    <2>2. state.messages # <<>>
        BY <2>1 DEF TypeInv, Shape
    <2>3. /\ ids \in Seq(UseId) /\ t \in State
          /\ t.messages = Append(state.messages, m) /\ t.trace = state.trace
        BY <1>0, <2>2, CollectedAppends
    <2>4. m \in Message /\ m.uses = <<>> /\ m.results = ids
        BY <2>3, ResultMessageType
    <2>5. Ids(m.uses) = {}
        BY <2>4 DEF Ids
    <2>6. \A id \in Ids(m.results) : ResultTold(t.trace, id)
        BY <2>1, <2>3, <2>4 DEF CoverInv, Dispatched
    <2> HIDE DEF m, t, ids
    <2>7. <<>> \in Seq(Event) /\ t.trace = state.trace \o <<>>
        BY <1>0, <2>3, ConcatEmptySeq DEF State
    <2>8. TraceCovers(t)
        BY <1>0, <2>3, <2>4, <2>5, <2>6, <2>7, CoverAppended
    <2>9. QED
        BY <1>1, <1>6, <2>1, <2>8 DEF CoverInv, t
<1>7. CASE Quietly /\ Leaves(state)
    <2>1. TraceCoversMessages'
        BY <1>0, <1>1, <1>7
    <2>2. state' = state /\ Dispatched' = Dispatched
        BY <1>7 DEF Leaves, Dispatched
    <2>3. ASSUME NEW r \in Responses, CallApi(r) PROVE CoverInv'
        BY <2>1, <2>3 DEF CallApi, CoverInv
    <2>4. CASE ToolUseStart
        BY <2>1, <2>4 DEF ToolUseStart, CoverInv
    <2>5. CASE BeginDispatch
        <3>1. pc' = "dispatching" /\ completed' = <<>>
            BY <2>5 DEF BeginDispatch, CoverInv
        <3>2. Ids(completed') = {}
            BY <3>1 DEF Ids
        <3>3. QED
            BY <2>1, <3>1, <3>2 DEF CoverInv
    <2>6. CASE Raise \/ Disconnect
        BY <2>1, <2>6 DEF Raise, Disconnect, Backstop, CoverInv
    <2>7. QED
        BY <1>7, <2>3, <2>4, <2>5, <2>6 DEF Quietly
<1>8. CASE UNCHANGED vars
    BY <1>8 DEF vars, CoverInv, TraceCoversMessages, Dispatched
<1>9. QED
    BY <1>2, <1>3, <1>4, <1>5, <1>6, <1>7, <1>8, StepShapes

\* At every moment, in hand and in the store, each call in the messages has its
\* event in the trace, and each result has its event after that of its call:
\* what /trace shows never lacks a tool the conversation knows of, although the
\* events of results are recorded one by one and their message only at the end.
THEOREM TraceCoversWhatWasSaid == Spec => []TraceCoversMessages
<1>1. Init => CoverInv
    BY DEF Init, NewState, CoverInv, TraceCoversMessages, TraceCovers
<1>2. CoverInv => TraceCoversMessages
    BY DEF CoverInv
<1>3. QED
    BY <1>1, <1>2, InitTypes, StepTypes, StepCovers, PTL DEF Spec


-----------------------------------------------------------------------------
\* The stream of one turn

\* The tools of the running iteration the client was told of, and those whose
\* result it got.
Announced ==
    CASE pc = "receiving" -> {<<Len(state.messages) + 1, k>> : k \in 1..started}
      [] pc \in {"received", "dispatching"} -> Ids(Dispatched)
      [] OTHER -> {}

Got == IF pc = "dispatching" THEN Ids(completed) ELSE {}

\* The ids in the last response are those of its position in the conversation,
\* so no earlier iteration of the turn has used them.
LastIsNumbered ==
    pc \in {"received", "dispatching"} =>
        \A k \in 1..Len(Dispatched) : Dispatched[k] = <<Len(state.messages), k>>

NotEnded == \A e \in Ids(sent) : e.type \notin {"done", "error"}

StartsCame == \A id \in Announced : Sse("tool_use_start", id) \in Ids(sent)

\* Of the last message the results are those the loop has; the others are of
\* messages before it.
ResultsCame ==
    \A e \in Ids(sent) :
        e.type = "tool_result" =>
            /\ e.id \in UseId
            /\ e.id[1] <= Len(state.messages)
            /\ pc \in {"received", "dispatching"} /\ e.id[1] = Len(state.messages)
                  => e.id \in Got

SentInv ==
    /\ StreamIsWellFormed
    /\ LastIsNumbered
    /\ pc # "idle" => NotEnded /\ StartsCame /\ ResultsCame

LEMMA IdsOfPrefix ==
    ASSUME NEW S, NEW seq \in Seq(S), NEW n \in 0..Len(seq)
    PROVE  Ids(SubSeq(seq, 1, n)) = {seq[j] : j \in 1..n}
<1> DEFINE front == SubSeq(seq, 1, n)
<1>1. Len(front) = n /\ \A j \in 1..n : front[j] = seq[j]
    OBVIOUS
<1> HIDE DEF front
<1>2. Ids(front) = {seq[j] : j \in 1..n}
    BY <1>1 DEF Ids
<1>3. QED
    BY <1>2 DEF front

LEMMA IdsOfAppend ==
    ASSUME NEW S, NEW seq \in Seq(S), NEW e \in S
    PROVE  Ids(Append(seq, e)) = Ids(seq) \cup {e}
<1> DEFINE longer == Append(seq, e)
<1>1. /\ Len(longer) = Len(seq) + 1 /\ Len(seq) \in Nat
      /\ longer[Len(seq) + 1] = e
      /\ \A k \in 1..Len(seq) : longer[k] = seq[k]
    OBVIOUS
<1> HIDE DEF longer
<1>2. 1..Len(longer) = 1..Len(seq) \cup {Len(seq) + 1}
    BY <1>1
<1>3. Ids(longer) = Ids(seq) \cup {e}
    BY <1>1, <1>2 DEF Ids
<1>4. QED
    BY <1>3 DEF longer

\* An event may follow if the stream is not over, and a result if its tool was
\* announced and it did not come before.
LEMMA StreamGrows ==
    ASSUME sent \in Seq(SseEvent), StreamIsWellFormed, NotEnded,
           NEW e \in SseEvent, sent' = Append(sent, e),
           e.type = "tool_result" =>
               Sse("tool_use_start", e.id) \in Ids(sent) /\ e \notin Ids(sent)
    PROVE  StreamIsWellFormed'
<1> DEFINE longer == Append(sent, e)
<1>1. /\ Len(longer) = Len(sent) + 1 /\ Len(sent) \in Nat
      /\ longer[Len(sent) + 1] = e
      /\ \A k \in 1..Len(sent) : longer[k] = sent[k]
      /\ longer \in Seq(SseEvent)
    OBVIOUS
<1>2. sent' = longer
    OBVIOUS
<1> HIDE DEF longer
<1> SUFFICES ASSUME NEW i \in 1..Len(longer)
             PROVE  /\ longer[i].type \in {"done", "error"} => i = Len(longer)
                    /\ longer[i].type = "tool_result" =>
                         /\ Sse("tool_use_start", longer[i].id) \in Ids(SubSeq(longer, 1, i - 1))
                         /\ longer[i] \notin Ids(SubSeq(longer, 1, i - 1))
    BY <1>2 DEF StreamIsWellFormed
<1>3. i = Len(sent) + 1 \/ i \in 1..Len(sent)
    BY <1>1
<1>4. i - 1 \in 0..Len(longer) /\ i - 1 \in 0..Len(sent)
    BY <1>1
<1>5. /\ Ids(SubSeq(longer, 1, i - 1)) = {longer[j] : j \in 1..(i - 1)}
      /\ Ids(SubSeq(sent, 1, i - 1)) = {sent[j] : j \in 1..(i - 1)}
    BY <1>1, <1>4, IdsOfPrefix
<1>6. \A j \in 1..(i - 1) : longer[j] = sent[j]
    BY <1>1, <1>4
<1>7. Ids(SubSeq(longer, 1, i - 1)) = Ids(SubSeq(sent, 1, i - 1))
    BY <1>5, <1>6
<1>8. CASE i = Len(sent) + 1
    <2>1. Ids(SubSeq(sent, 1, i - 1)) = Ids(sent)
        BY <1>1, <1>5, <1>8 DEF Ids
    <2>2. QED
        BY <1>1, <1>7, <1>8, <2>1
<1>9. CASE i \in 1..Len(sent)
    BY <1>1, <1>7, <1>9 DEF StreamIsWellFormed, NotEnded, Ids
<1>10. QED
    BY <1>3, <1>8, <1>9

\* The last event of a turn.
LEMMA StreamEnds ==
    ASSUME TypeInv, SentInv, pc # "idle", pc' = "idle",
           Yield("done", <<>>) \/ Yield("error", <<>>)
    PROVE  SentInv'
<1>1. PICK e : e \in {Sse("done", <<>>), Sse("error", <<>>)} /\ sent' = Append(sent, e)
    BY DEF Yield
<1>2. e \in SseEvent /\ e.type # "tool_result"
    BY <1>1 DEF Sse, SseEvent
<1>3. StreamIsWellFormed'
    BY <1>1, <1>2, StreamGrows DEF SentInv, TypeInv, TypeOK
<1>4. QED
    BY <1>3 DEF SentInv, LastIsNumbered


\* A turn begins with an empty stream.
LEMMA StreamBegins == sent' = <<>> /\ pc' = "calling" => SentInv'
<1> SUFFICES ASSUME sent' = <<>>, pc' = "calling" PROVE SentInv'
    OBVIOUS
<1>1. Ids(sent') = {} /\ Len(sent') = 0
    BY DEF Ids
<1>2. Announced' = {}
    BY DEF Announced
<1>3. StreamIsWellFormed' /\ NotEnded' /\ StartsCame' /\ ResultsCame' /\ LastIsNumbered'
    BY <1>1, <1>2 DEF StreamIsWellFormed, NotEnded, StartsCame, ResultsCame, LastIsNumbered
<1>4. QED
    BY <1>3 DEF SentInv

LEMMA StepSends == TypeInv /\ SentInv /\ [Next]_vars => SentInv'
<1> SUFFICES ASSUME TypeInv, SentInv, [Next]_vars PROVE SentInv'
    OBVIOUS
<1>0. /\ state \in State /\ state.messages \in Seq(Message) /\ Len(state.messages) \in Nat
      /\ response \in Response /\ completed \in Seq(UseId) /\ sent \in Seq(SseEvent)
      /\ started \in 0..Len(response.tools) /\ Len(response.tools) \in Nat
      /\ StreamIsWellFormed /\ LastIsNumbered
      /\ pc # "idle" => NotEnded /\ StartsCame /\ ResultsCame
    BY ResponseTypes DEF TypeInv, TypeOK, State, SentInv
<1>1. CASE StartTurn
    BY <1>1, StreamBegins DEF StartTurn
<1>2. ASSUME NEW r \in Responses, CallApi(r) PROVE SentInv'
    <2>1. pc = "calling" /\ pc' = "receiving" /\ started' = 0 /\ UNCHANGED <<state, sent>>
        BY <1>2 DEF CallApi
    <2>2. Announced' = {}
        BY <2>1 DEF Announced
    <2>3. StreamIsWellFormed' /\ NotEnded' /\ LastIsNumbered' /\ StartsCame'
        BY <1>0, <2>1, <2>2 DEF StreamIsWellFormed, NotEnded, LastIsNumbered, StartsCame
    <2>4. ResultsCame'
        BY <1>0, <2>1 DEF ResultsCame
    <2>5. QED
        BY <2>3, <2>4 DEF SentInv
<1>3. CASE ToolUseStart
    <2> DEFINE id == UseIds(state, response)[started + 1]
               e == Sse("tool_use_start", id)
    <2>1. pc = "receiving" /\ pc' = pc /\ started' = started + 1 /\ state' = state
          /\ sent' = Append(sent, e)
        BY <1>3 DEF ToolUseStart, Yield
    <2>2. started + 1 \in 1..Len(response.tools)
        BY <1>0, <1>3 DEF ToolUseStart
    <2>3. id = <<Len(state.messages) + 1, started + 1>> /\ id \in UseId
        BY <1>0, <2>2, UseIdsAreNumbered
    <2>4. e \in SseEvent /\ e.type = "tool_use_start"
        BY <2>3 DEF Sse, SseEvent
    <2>5. Announced' = Announced \cup {id}
        <3>1. 1..(started + 1) = 1..started \cup {started + 1}
            BY <1>0
        <3>2. QED
            BY <2>1, <2>3, <3>1 DEF Announced
    <2>6. StreamIsWellFormed'
        BY <1>0, <2>1, <2>4, StreamGrows
    <2> HIDE DEF id
    <2>7. e = Sse("tool_use_start", id)
        OBVIOUS
    <2> HIDE DEF e
    <2>8. Ids(sent') = Ids(sent) \cup {e}
        BY <1>0, <2>1, <2>4, IdsOfAppend
    <2>9. NotEnded' /\ StartsCame'
        BY <1>0, <2>1, <2>4, <2>5, <2>7, <2>8 DEF NotEnded, StartsCame
    <2>10. ResultsCame' /\ LastIsNumbered'
        BY <1>0, <2>1, <2>4, <2>8 DEF ResultsCame, LastIsNumbered
    <2>11. QED
        BY <2>6, <2>9, <2>10 DEF SentInv
<1>4. CASE EndOfStream
    <2> DEFINE e == Sse("iteration_end", <<>>)
               ids == UseIds(state, response)
    <2>1. pc = "receiving" /\ pc' = "received" /\ started = Len(response.tools)
          /\ state' = WithResponse(state, response) /\ sent' = Append(sent, e)
        BY <1>4 DEF EndOfStream, Yield
    <2>2. e \in SseEvent /\ e.type = "iteration_end"
        BY DEF Sse, SseEvent
    <2>3. /\ AnswerMessage(state, response) \in Message
          /\ AnswerMessage(state, response).uses = ids
          /\ state'.messages = Append(state.messages, AnswerMessage(state, response))
        BY <1>0, <2>1, WithResponseAppends, AnswerMessageType
    <2>4. Len(state'.messages) = Len(state.messages) + 1 /\ Dispatched' = ids
        BY <1>0, <2>3, AppendProperties DEF Dispatched
    <2>5. /\ ids \in Seq(UseId) /\ Len(ids) = Len(response.tools)
          /\ \A k \in 1..Len(response.tools) : ids[k] = <<Len(state.messages) + 1, k>>
        BY <1>0, UseIdsAreNumbered
    <2> HIDE DEF e, ids
    <2>6. Announced' = Announced
        <3>1. Announced = {<<Len(state.messages) + 1, k>> : k \in 1..Len(response.tools)}
            BY <2>1 DEF Announced
        <3>2. Announced' = Ids(ids)
            BY <2>1, <2>4 DEF Announced
        <3>3. Ids(ids) = {ids[k] : k \in 1..Len(response.tools)}
            BY <2>5 DEF Ids
        <3>4. QED
            BY <2>5, <3>1, <3>2, <3>3
    <2>7. LastIsNumbered'
        BY <2>4, <2>5 DEF LastIsNumbered
    <2>8. StreamIsWellFormed'
        BY <1>0, <2>1, <2>2, StreamGrows
    <2>9. Ids(sent') = Ids(sent) \cup {e}
        BY <1>0, <2>1, <2>2, IdsOfAppend
    <2>10. NotEnded' /\ StartsCame'
        BY <1>0, <2>1, <2>2, <2>6, <2>9 DEF NotEnded, StartsCame
    <2>11. ASSUME NEW o \in Ids(sent), o.type = "tool_result"
           PROVE  o.id \in UseId /\ o.id[1] <= Len(state'.messages) /\ o.id[1] # Len(state'.messages)
        <3>1. o.id \in UseId /\ o.id[1] <= Len(state.messages)
            BY <1>0, <2>1, <2>11 DEF ResultsCame
        <3>2. o.id[1] \in Nat
            BY <3>1 DEF UseId
        <3>3. QED
            BY <1>0, <2>4, <3>1, <3>2
    <2>12. ResultsCame'
        BY <2>2, <2>9, <2>11 DEF ResultsCame
    <2>13. QED
        BY <2>7, <2>8, <2>10, <2>12 DEF SentInv
<1>5. CASE FinalAnswer
    BY <1>5, StreamEnds DEF FinalAnswer, Done
<1>6. CASE BeginDispatch
    <2>1. pc = "received" /\ pc' = "dispatching" /\ UNCHANGED <<state, sent>>
        BY <1>6 DEF BeginDispatch
    <2>2. Announced' = Announced /\ Got = {}
        BY <2>1 DEF Announced, Got, Dispatched
    <2>3. StreamIsWellFormed' /\ NotEnded' /\ LastIsNumbered' /\ StartsCame'
        BY <1>0, <2>1, <2>2 DEF StreamIsWellFormed, NotEnded, LastIsNumbered, StartsCame, Dispatched
    <2>4. ResultsCame'
        BY <1>0, <2>1, <2>2 DEF ResultsCame
    <2>5. QED
        BY <2>3, <2>4 DEF SentInv
<1>7. ASSUME NEW i \in 1..Len(response.tools), CompleteTool(i), Leaves(Told(state, Dispatched[i]))
      PROVE  SentInv'
    <2> DEFINE id == Dispatched[i]
               e == Sse("tool_result", id)
    <2>1. /\ pc = "dispatching" /\ pc' = pc /\ id \notin Ids(completed)
          /\ completed' = Append(completed, id) /\ sent' = Append(sent, e)
        BY <1>7 DEF CompleteTool, Yield
    <2>2. state.messages # <<>> /\ Len(Dispatched) = Len(response.tools)
        BY <2>1 DEF TypeInv, Shape
    <2>3. id \in UseId /\ id \in Ids(Dispatched) /\ id = <<Len(state.messages), i>>
        <3>1. Dispatched \in Seq(UseId) /\ i \in 1..Len(Dispatched)
            BY <1>0, <2>2, CollectedAppends DEF Dispatched
        <3>2. id = <<Len(state.messages), i>>
            BY <1>0, <2>1, <3>1 DEF LastIsNumbered
        <3>3. QED
            BY <3>1, <3>2 DEF Ids
    <2>4. state'.messages = state.messages
        BY <1>0, <1>7, <2>3, ToldAppends DEF Leaves
    <2>5. Announced' = Announced /\ Dispatched' = Dispatched
        BY <2>1, <2>4 DEF Announced, Dispatched
    <2>6. id[1] = Len(state.messages)
        BY <2>3
    <2> HIDE DEF id
    <2>7. e \in SseEvent /\ e.type = "tool_result" /\ e.id = id
        BY <2>3 DEF Sse, SseEvent
    <2> HIDE DEF e
    <2>8. Sse("tool_use_start", e.id) \in Ids(sent)
        BY <1>0, <2>1, <2>3, <2>7 DEF StartsCame, Announced
    <2>9. e \notin Ids(sent)
        BY <1>0, <2>1, <2>6, <2>7 DEF ResultsCame, Got
    <2>10. StreamIsWellFormed'
        BY <1>0, <2>1, <2>7, <2>8, <2>9, StreamGrows
    <2>11. Ids(sent') = Ids(sent) \cup {e} /\ Ids(completed') = Ids(completed) \cup {id}
        <3>1. Ids(Append(sent, e)) = Ids(sent) \cup {e}
            BY <1>0, <2>7, IdsOfAppend
        <3>2. Ids(Append(completed, id)) = Ids(completed) \cup {id}
            BY <1>0, <2>3, IdsOfAppend
        <3>3. QED
            BY <2>1, <3>1, <3>2
    <2>12. NotEnded' /\ StartsCame'
        BY <1>0, <2>1, <2>5, <2>7, <2>11 DEF NotEnded, StartsCame
    <2>13. LastIsNumbered'
        BY <1>0, <2>1, <2>4, <2>5 DEF LastIsNumbered
    <2>14. Got' = Got \cup {id}
        BY <2>1, <2>11 DEF Got
    <2>15. ASSUME NEW o \in Ids(sent'), o.type = "tool_result"
           PROVE  /\ o.id \in UseId
                  /\ o.id[1] <= Len(state'.messages)
                  /\ o.id[1] = Len(state'.messages) => o.id \in Got'
        <3>1. CASE o = e
            <4>1. o.id = id
                BY <2>7, <3>1
            <4>2. id[1] <= Len(state.messages)
                BY <1>0, <2>6
            <4>3. QED
                BY <2>3, <2>4, <2>14, <4>1, <4>2
        <3>2. CASE o \in Ids(sent)
            BY <1>0, <2>1, <2>4, <2>14, <2>15, <3>2 DEF ResultsCame
        <3>3. QED
            BY <2>11, <3>1, <3>2
    <2>16. ResultsCame'
        BY <2>15 DEF ResultsCame
    <2>17. QED
        BY <2>10, <2>12, <2>13, <2>16 DEF SentInv
<1>8. CASE CollectResults /\ Leaves(Collected(state))
    <2>1. pc = "dispatching"
        BY <1>8 DEF CollectResults
    <2>2. CASE pc' = "idle"
        BY <1>8, <2>1, <2>2, StreamEnds DEF CollectResults, NextIteration, Done
    <2>3. CASE pc' = "calling"
        <3>1. sent' = sent
            BY <1>8, <2>3 DEF CollectResults, NextIteration, Done
        <3>2. state.messages # <<>>
            BY <2>1 DEF TypeInv, Shape
        <3>3. Len(state'.messages) = Len(state.messages) + 1
            <4>1. Dispatched \in Seq(UseId)
                BY <1>0, <3>2, CollectedAppends DEF Dispatched
            <4>2. ResultMessage(Dispatched) \in Message
                BY <4>1, ResultMessageType
            <4>3. state'.messages = Append(state.messages, ResultMessage(Dispatched))
                BY <1>0, <1>8, <3>2, CollectedAppends DEF Leaves, Dispatched
            <4>4. QED
                BY <1>0, <4>2, <4>3, AppendProperties
        <3>4. Announced' = {}
            BY <2>3 DEF Announced
        <3>5. StreamIsWellFormed' /\ NotEnded' /\ StartsCame' /\ LastIsNumbered'
            BY <1>0, <2>1, <2>3, <3>1, <3>4 DEF StreamIsWellFormed, NotEnded, StartsCame, LastIsNumbered
        <3>6. ASSUME NEW o \in Ids(sent), o.type = "tool_result"
              PROVE  o.id \in UseId /\ o.id[1] <= Len(state'.messages)
            <4>1. o.id \in UseId /\ o.id[1] <= Len(state.messages)
                BY <1>0, <2>1, <3>6 DEF ResultsCame
            <4>2. o.id[1] \in Nat
                BY <4>1 DEF UseId
            <4>3. QED
                BY <1>0, <3>3, <4>1, <4>2
        <3>7. ResultsCame'
            BY <2>3, <3>1, <3>6 DEF ResultsCame
        <3>8. QED
            BY <3>5, <3>7 DEF SentInv
    <2>4. QED
        BY <1>8, <2>2, <2>3 DEF CollectResults, NextIteration, Done
<1>9. CASE Raise
    BY <1>9, StreamEnds DEF Raise, Backstop
<1>10. CASE Disconnect
    BY <1>0, <1>10 DEF Disconnect, Backstop, SentInv, StreamIsWellFormed, LastIsNumbered
<1>11. CASE UNCHANGED vars
    BY <1>11 DEF vars, SentInv, StreamIsWellFormed, LastIsNumbered, NotEnded, StartsCame,
                 ResultsCame, Announced, Got, Dispatched
<1>12. QED
    BY <1>1, <1>2, <1>3, <1>4, <1>5, <1>6, <1>7, <1>8, <1>9, <1>10, <1>11, StepShapes DEF Quietly

\* The events of a turn are a list the client can follow: a tool's result comes
\* at most once and after its announcement, although ids are only unique by the
\* position of their message and tools finish in any order; and nothing follows
\* done or error.
THEOREM StreamCanBeFollowed == Spec => []StreamIsWellFormed
<1>1. Init => SentInv
    BY DEF Init, SentInv, StreamIsWellFormed, LastIsNumbered
<1>2. SentInv => StreamIsWellFormed
    BY DEF SentInv
<1>3. QED
    BY <1>1, <1>2, InitTypes, StepTypes, StepSends, PTL DEF Spec


-----------------------------------------------------------------------------
\* A done event is the truth

Question(m) == m.role = "user" /\ m.text = "plain"

\* The last question of the conversation is message q.
AskedAt(msgs, q) ==
    /\ q \in 1..Len(msgs)
    /\ Question(msgs[q])
    /\ \A i \in (q + 1)..Len(msgs) : ~ Question(msgs[i])

UsesSince(msgs, q) == UNION {Ids(msgs[i].uses) : i \in q..Len(msgs)}

ResultsSince(msgs, q) == UNION {Ids(msgs[i].results) : i \in q..Len(msgs)}

\* Every call since then is answered, those of the last message excepted while
\* the loop is still at them.
AnsweredSince(msgs, q, open) ==
    \A i \in q..Len(msgs) :
        msgs[i].stop = "tool_use" /\ msgs[i].uses # <<>> =>
            AnsweredNext(msgs, i) \/ (open /\ i = Len(msgs))

\* What the client was told in a running turn is what the messages since the
\* question hold, plus what the loop has not put in a message yet.
Sums(q) ==
    /\ SentIds("tool_use_start") =
         UsesSince(state.messages, q) \cup (IF pc = "receiving" THEN Announced ELSE {})
    /\ SentIds("tool_result") = ResultsSince(state.messages, q) \cup Got
    /\ IF pc \in {"received", "dispatching"}
       THEN AnsweredSince(state.messages, q, TRUE)
       ELSE AnsweredSince(state.messages, q, FALSE)

DoneInv ==
    /\ DoneTellsTruth
    /\ pc # "idle" =>
         \E q \in 1..Len(state.messages) : AskedAt(state.messages, q) /\ Sums(q)

LEMMA SentIdsGrow ==
    ASSUME sent \in Seq(SseEvent), NEW e \in SseEvent, sent' = Append(sent, e), NEW type
    PROVE  /\ e.type = type => SentIds(type)' = SentIds(type) \cup {e.id}
           /\ e.type # type => SentIds(type)' = SentIds(type)
<1> DEFINE longer == Append(sent, e)
<1>1. /\ Len(longer) = Len(sent) + 1 /\ Len(sent) \in Nat
      /\ longer[Len(sent) + 1] = e
      /\ \A k \in 1..Len(sent) : longer[k] = sent[k]
    OBVIOUS
<1>2. sent' = longer
    OBVIOUS
<1> HIDE DEF longer
<1>3. \A j : j \in 1..Len(longer) <=> (j \in 1..Len(sent) \/ j = Len(sent) + 1)
    BY <1>1
<1>4. SentIds(type)' = {longer[i].id : i \in {j \in 1..Len(longer) : longer[j].type = type}}
    BY <1>2 DEF SentIds
<1>5. SentIds(type) = {sent[i].id : i \in {j \in 1..Len(sent) : sent[j].type = type}}
    BY DEF SentIds
<1>6. e.type = type => SentIds(type)' = SentIds(type) \cup {e.id}
    BY <1>1, <1>3, <1>4, <1>5
<1>7. e.type # type => SentIds(type)' = SentIds(type)
    BY <1>1, <1>3, <1>4, <1>5
<1>8. QED
    BY <1>6, <1>7

\* No new event, no change.
LEMMA SentIdsKept ==
    ASSUME sent' = sent, NEW type PROVE SentIds(type)' = SentIds(type)
    BY DEF SentIds

\* The positions of a longer list.
LEMMA LongerList ==
    ASSUME NEW msgs \in Seq(Message), NEW m \in Message, NEW q \in 1..Len(msgs)
    PROVE  /\ Append(msgs, m) \in Seq(Message)
           /\ Len(Append(msgs, m)) = Len(msgs) + 1
           /\ Len(msgs) \in q..Len(msgs)
           /\ Append(msgs, m)[Len(msgs) + 1] = m
           /\ \A i \in q..Len(msgs) : i \in 1..Len(msgs) /\ Append(msgs, m)[i] = msgs[i]
           /\ \A i : i \in q..(Len(msgs) + 1) <=> (i \in q..Len(msgs) \/ i = Len(msgs) + 1)
    OBVIOUS

LEMMA SinceAppend ==
    ASSUME NEW msgs \in Seq(Message), NEW m \in Message, NEW q \in 1..Len(msgs)
    PROVE  /\ UsesSince(Append(msgs, m), q) = UsesSince(msgs, q) \cup Ids(m.uses)
           /\ ResultsSince(Append(msgs, m), q) = ResultsSince(msgs, q) \cup Ids(m.results)
<1> DEFINE longer == Append(msgs, m)
           n == Len(msgs)
<1>1. /\ Len(longer) = n + 1 /\ longer[n + 1] = m
      /\ \A i \in q..n : longer[i] = msgs[i]
      /\ \A i : i \in q..(n + 1) <=> (i \in q..n \/ i = n + 1)
    BY LongerList
<1>2. /\ UsesSince(msgs, q) = UNION {Ids(msgs[i].uses) : i \in q..n}
      /\ ResultsSince(msgs, q) = UNION {Ids(msgs[i].results) : i \in q..n}
    BY DEF UsesSince, ResultsSince
<1> HIDE DEF longer, n
<1>3. UsesSince(longer, q) = UNION {Ids(longer[i].uses) : i \in q..(n + 1)}
    BY <1>1 DEF UsesSince
<1>4. ResultsSince(longer, q) = UNION {Ids(longer[i].results) : i \in q..(n + 1)}
    BY <1>1 DEF ResultsSince
<1>5. UsesSince(longer, q) = UsesSince(msgs, q) \cup Ids(m.uses)
    BY <1>1, <1>2, <1>3
<1>6. ResultsSince(longer, q) = ResultsSince(msgs, q) \cup Ids(m.results)
    BY <1>1, <1>2, <1>4
<1>7. QED
    BY <1>5, <1>6 DEF longer

LEMMA AskedAppend ==
    ASSUME NEW msgs \in Seq(Message), NEW m \in Message, NEW q, AskedAt(msgs, q),
           ~ Question(m)
    PROVE  AskedAt(Append(msgs, m), q)
<1> DEFINE longer == Append(msgs, m)
           n == Len(msgs)
<1>0. q \in 1..Len(msgs)
    BY DEF AskedAt
<1>1. /\ Len(longer) = n + 1 /\ longer[n + 1] = m /\ n \in Nat /\ q \in 1..n
      /\ \A i \in q..n : longer[i] = msgs[i]
    BY <1>0, LongerList
<1>2. Question(msgs[q]) /\ \A i \in (q + 1)..n : ~ Question(msgs[i])
    BY DEF AskedAt
<1> HIDE DEF longer, n
<1>3. ASSUME NEW i \in (q + 1)..(n + 1) PROVE ~ Question(longer[i])
    <2>1. CASE i = n + 1
        BY <1>1, <2>1
    <2>2. CASE i # n + 1
        <3>1. i \in q..n /\ i \in (q + 1)..n
            BY <1>1, <2>2
        <3>2. QED
            BY <1>1, <1>2, <3>1
    <2>3. QED
        BY <2>1, <2>2
<1>4. q \in 1..(n + 1) /\ Question(longer[q])
    <2>1. q \in 1..(n + 1) /\ q \in q..n
        BY <1>1
    <2>2. QED
        BY <1>1, <1>2, <2>1
<1>5. AskedAt(longer, q)
    BY <1>1, <1>3, <1>4 DEF AskedAt
<1>6. QED
    BY <1>5 DEF longer

\* A message closes the calls of the one before it, and may open its own.
LEMMA AnsweredAppend ==
    ASSUME NEW msgs \in Seq(Message), NEW m \in Message, NEW q \in 1..Len(msgs),
           NEW open \in BOOLEAN, AnsweredSince(msgs, q, open),
           open => m.role = "user" /\ Ids(m.results) = Ids(msgs[Len(msgs)].uses),
           NEW open2 \in BOOLEAN, open2 \/ m.stop # "tool_use"
    PROVE  AnsweredSince(Append(msgs, m), q, open2)
<1> DEFINE longer == Append(msgs, m)
           n == Len(msgs)
<1>1. /\ Len(longer) = n + 1 /\ longer[n + 1] = m /\ n \in Nat /\ n \in q..n
      /\ \A i \in q..n : i \in 1..n /\ longer[i] = msgs[i]
      /\ \A i : i \in q..(n + 1) <=> (i \in q..n \/ i = n + 1)
    BY LongerList
<1>2. \A i \in q..n : msgs[i].stop = "tool_use" /\ msgs[i].uses # <<>> =>
         AnsweredNext(msgs, i) \/ (open /\ i = n)
    BY DEF AnsweredSince
<1> HIDE DEF longer
<1>3. ASSUME NEW i \in q..n, AnsweredNext(msgs, i) PROVE AnsweredNext(longer, i)
    <2>1. i + 1 \in q..n
        BY <1>1, <1>3 DEF AnsweredNext
    <2>2. longer[i] = msgs[i] /\ longer[i + 1] = msgs[i + 1] /\ i < Len(longer)
        BY <1>1, <2>1
    <2>3. QED
        BY <1>3, <2>2 DEF AnsweredNext
<1>4. ASSUME open PROVE AnsweredNext(longer, n)
    <2>1. longer[n] = msgs[n] /\ n < Len(longer)
        BY <1>1
    <2>2. QED
        BY <1>1, <1>4, <2>1 DEF AnsweredNext
<1> HIDE DEF n
<1>5. ASSUME NEW i \in q..(n + 1), longer[i].stop = "tool_use", longer[i].uses # <<>>
      PROVE  AnsweredNext(longer, i) \/ (open2 /\ i = n + 1)
    <2>1. CASE i = n + 1
        BY <1>1, <1>5, <2>1
    <2>2. CASE i \in q..n
        BY <1>1, <1>2, <1>3, <1>4, <1>5, <2>2
    <2>3. QED
        BY <1>1, <2>1, <2>2
<1>6. AnsweredSince(longer, q, open2)
    BY <1>1, <1>5 DEF AnsweredSince
<1>7. QED
    BY <1>6 DEF longer

\* The messages of the turn are those since its question.
LEMMA TurnSince ==
    ASSUME NEW msgs \in Seq(Message), NEW q, AskedAt(msgs, q)
    PROVE  TurnMessages(msgs) = q..Len(msgs)
<1> DEFINE asked == {i \in 1..Len(msgs) : msgs[i].role = "user" /\ msgs[i].text = "plain"}
<1>1. Len(msgs) \in Nat /\ q \in 1..Len(msgs)
    BY DEF AskedAt
<1>2. q \in asked
    BY DEF AskedAt, Question
<1>3. \A i \in asked : q >= i
    BY <1>1 DEF AskedAt, Question
<1>4. asked \subseteq Int
    BY <1>1
<1> HIDE DEF asked
<1>5. \A x \in asked : (\A y \in asked : x >= y) => x = q
    BY <1>2, <1>3, <1>4
<1>6. Max(asked) = q
    BY <1>2, <1>3, <1>5 DEF Max
<1>7. QED
    BY <1>6 DEF TurnMessages, asked


\* While the turn runs, no done event was sent.
LEMMA NotDoneYet == NotEnded' => DoneTellsTruth'
<1> SUFFICES ASSUME NotEnded' PROVE DoneTellsTruth'
    OBVIOUS
<1>1. SentIds("done")' = {}
    BY DEF NotEnded, SentIds, Ids
<1>2. QED
    BY <1>1 DEF DoneTellsTruth

\* The turn ends with done or error, and all it did is in the messages.
LEMMA DoneIsTrue ==
    ASSUME sent \in Seq(SseEvent), NotEnded, pc' = "idle",
           state'.messages \in Seq(Message), NEW q, AskedAt(state'.messages, q),
           SentIds("tool_use_start") = UsesSince(state'.messages, q),
           SentIds("tool_result") = ResultsSince(state'.messages, q),
           AnsweredSince(state'.messages, q, FALSE),
           Yield("done", <<>>) \/ Yield("error", <<>>)
    PROVE  DoneInv'
<1>1. PICK e : e \in {Sse("done", <<>>), Sse("error", <<>>)} /\ sent' = Append(sent, e)
    BY DEF Yield
<1>2. e \in SseEvent /\ e.type \in {"done", "error"}
    BY <1>1 DEF Sse, SseEvent
<1>3. /\ SentIds("tool_use_start")' = UsesSince(state'.messages, q)
      /\ SentIds("tool_result")' = ResultsSince(state'.messages, q)
    BY <1>1, <1>2, SentIdsGrow
<1>4. TurnMessages(state'.messages) = q..Len(state'.messages)
    BY TurnSince
<1>5. DoneTellsTruth'
    BY <1>3, <1>4 DEF DoneTellsTruth, UsesSince, ResultsSince, AnsweredSince
<1>6. QED
    BY <1>5 DEF DoneInv

LEMMA StepTells ==
    TypeInv /\ CoverInv /\ SentInv /\ DoneInv /\ [Next]_vars /\ SentInv' => DoneInv'
<1> SUFFICES ASSUME TypeInv, CoverInv, SentInv, DoneInv, [Next]_vars, SentInv'
             PROVE  DoneInv'
    OBVIOUS
<1> DEFINE msgs == state.messages
<1>0. /\ state \in State /\ msgs \in Seq(Message) /\ Len(msgs) \in Nat
      /\ saved \in State /\ saved.messages \in Seq(Message)
      /\ response \in Response /\ completed \in Seq(UseId) /\ sent \in Seq(SseEvent)
      /\ started \in 0..Len(response.tools) /\ Len(response.tools) \in Nat
    BY ResponseTypes DEF TypeInv, TypeOK, State
<1>1. /\ DoneTellsTruth
      /\ pc # "idle" => NotEnded /\ \E q \in 1..Len(msgs) : AskedAt(msgs, q) /\ Sums(q)
      /\ pc' # "idle" => NotEnded'
    BY DEF SentInv, DoneInv
<1>2. ASSUME pc' # "idle", NEW q \in 1..Len(state'.messages), AskedAt(state'.messages, q), Sums(q)'
      PROVE  DoneInv'
    BY <1>1, <1>2, NotDoneYet DEF DoneInv
<1>3. CASE StartTurn
    <2> DEFINE m == UserMessage("plain")
               old == saved.messages
    <2>0. PICK q \in Nat \ {0} : q = Len(old) + 1
        BY <1>0
    <2>1. /\ m \in Message /\ Question(m) /\ m.uses = <<>> /\ m.results = <<>> /\ m.stop = "none"
          /\ state'.messages = Append(old, m)
        BY <1>0, <1>3, UserMessageType, WithUserMessageAppends DEF Texts, Question, StartTurn
    <2>2. pc' = "calling" /\ sent' = <<>>
        BY <1>3 DEF StartTurn
    <2> HIDE DEF m
    <2>3. /\ Len(state'.messages) = q /\ q \in Nat \ {0} /\ state'.messages[q] = m
        BY <1>0, <2>0, <2>1
    <2>4. AskedAt(state'.messages, q)
        BY <2>1, <2>3 DEF AskedAt
    <2>5. q..q = {q} /\ Ids(m.uses) = {} /\ Ids(m.results) = {}
        BY <2>1, <2>3 DEF Ids
    <2>6. UsesSince(state'.messages, q) = {} /\ ResultsSince(state'.messages, q) = {}
        BY <2>3, <2>5 DEF UsesSince, ResultsSince
    <2>7. AnsweredSince(state'.messages, q, FALSE)
        BY <2>1, <2>3, <2>5 DEF AnsweredSince
    <2>8. SentIds("tool_use_start")' = {} /\ SentIds("tool_result")' = {}
        BY <2>2 DEF SentIds
    <2>9. Sums(q)'
        <3>1. Got' = {}
            BY <2>2 DEF Got
        <3>2. QED
            BY <2>2, <2>6, <2>7, <2>8, <3>1 DEF Sums
    <2>10. pc' # "idle" /\ q \in 1..Len(state'.messages)
        BY <2>2, <2>4 DEF AskedAt
    <2>11. QED
        BY <1>2, <2>4, <2>9, <2>10
<1>4. ASSUME NEW r \in Responses, CallApi(r) PROVE DoneInv'
    <2>1. pc = "calling" /\ pc' = "receiving" /\ started' = 0 /\ UNCHANGED <<state, sent>>
        BY <1>4 DEF CallApi
    <2>2. PICK q \in 1..Len(msgs) : AskedAt(msgs, q) /\ Sums(q)
        BY <1>1, <2>1
    <2>3. Announced' = {} /\ Got = {} /\ Got' = {}
        BY <2>1 DEF Announced, Got
    <2>4. Sums(q)'
        BY <2>1, <2>2, <2>3 DEF Sums, SentIds
    <2>5. QED
        BY <1>2, <2>1, <2>2, <2>4
<1>5. CASE ToolUseStart
    <2> DEFINE id == UseIds(state, response)[started + 1]
               e == Sse("tool_use_start", id)
    <2>1. pc = "receiving" /\ pc' = pc /\ started' = started + 1 /\ state' = state
          /\ sent' = Append(sent, e)
        BY <1>5 DEF ToolUseStart, Yield
    <2>2. started + 1 \in 1..Len(response.tools)
        BY <1>0, <1>5 DEF ToolUseStart
    <2>3. id = <<Len(msgs) + 1, started + 1>> /\ id \in UseId
        BY <1>0, <2>2, UseIdsAreNumbered
    <2>4. e \in SseEvent /\ e.type = "tool_use_start" /\ e.id = id
        BY <2>3 DEF Sse, SseEvent
    <2>5. Announced' = Announced \cup {id}
        <3>1. 1..(started + 1) = 1..started \cup {started + 1}
            BY <1>0
        <3>2. QED
            BY <2>1, <2>3, <3>1 DEF Announced
    <2>6. PICK q \in 1..Len(msgs) : AskedAt(msgs, q) /\ Sums(q)
        BY <1>1, <2>1
    <2> HIDE DEF id, e
    <2>7. /\ SentIds("tool_use_start")' = SentIds("tool_use_start") \cup {id}
          /\ SentIds("tool_result")' = SentIds("tool_result")
        BY <1>0, <2>1, <2>4, SentIdsGrow
    <2>8. Got = {} /\ Got' = {}
        BY <2>1 DEF Got
    <2>9. Sums(q)'
        BY <2>1, <2>5, <2>6, <2>7, <2>8 DEF Sums
    <2>10. QED
        BY <1>2, <2>1, <2>6, <2>9
<1>6. CASE EndOfStream
    <2> DEFINE e == Sse("iteration_end", <<>>)
               ids == UseIds(state, response)
               m == AnswerMessage(state, response)
    <2>1. pc = "receiving" /\ pc' = "received" /\ started = Len(response.tools)
          /\ state' = WithResponse(state, response) /\ sent' = Append(sent, e)
        BY <1>6 DEF EndOfStream, Yield
    <2>2. e \in SseEvent /\ e.type = "iteration_end"
        BY DEF Sse, SseEvent
    <2>3. /\ m \in Message /\ m.uses = ids /\ m.results = <<>> /\ m.role = "assistant"
          /\ state'.messages = Append(msgs, m)
        BY <1>0, <2>1, WithResponseAppends, AnswerMessageType
    <2>4. /\ Len(ids) = Len(response.tools)
          /\ \A k \in 1..Len(response.tools) : ids[k] = <<Len(msgs) + 1, k>>
        BY <1>0, UseIdsAreNumbered
    <2> HIDE DEF e, ids, m
    <2>5. Announced = Ids(ids)
        BY <2>1, <2>4 DEF Announced, Ids
    <2>6. PICK q \in 1..Len(msgs) : AskedAt(msgs, q) /\ Sums(q)
        BY <1>1, <2>1
    <2>7. AskedAt(state'.messages, q) /\ q \in 1..Len(state'.messages)
        BY <1>0, <2>3, <2>6, AskedAppend DEF Question, AskedAt
    <2>8. Ids(m.results) = {}
        BY <2>3 DEF Ids
    <2>9. /\ UsesSince(state'.messages, q) = UsesSince(msgs, q) \cup Announced
          /\ ResultsSince(state'.messages, q) = ResultsSince(msgs, q)
        <3>1. /\ UsesSince(Append(msgs, m), q) = UsesSince(msgs, q) \cup Ids(m.uses)
              /\ ResultsSince(Append(msgs, m), q) = ResultsSince(msgs, q) \cup Ids(m.results)
            BY <1>0, <2>3, <2>6, SinceAppend
        <3>2. QED
            BY <2>3, <2>5, <2>8, <3>1
    <2>10. AnsweredSince(state'.messages, q, TRUE)
        <3>1. AnsweredSince(msgs, q, FALSE)
            BY <2>1, <2>6 DEF Sums
        <3>2. QED
            BY <1>0, <2>3, <2>6, <3>1, AnsweredAppend
    <2>11. /\ SentIds("tool_use_start")' = SentIds("tool_use_start")
           /\ SentIds("tool_result")' = SentIds("tool_result")
        BY <1>0, <2>1, <2>2, SentIdsGrow
    <2>12. Got = {} /\ Got' = {}
        BY <2>1 DEF Got
    <2>13. Sums(q)'
        BY <2>1, <2>6, <2>9, <2>10, <2>11, <2>12 DEF Sums
    <2>14. QED
        BY <1>2, <2>1, <2>7, <2>13
<1>7. CASE FinalAnswer
    <2>1. pc = "received" /\ response.stop # "tool_use" /\ pc' = "idle"
          /\ (Yield("done", <<>>) \/ Yield("error", <<>>)) /\ state' = Stopped(state)
        BY <1>7 DEF FinalAnswer, Done, Stopped
    <2>2. state'.messages = msgs
        BY <1>0, <2>1, StoppedAppends
    <2>3. PICK q \in 1..Len(msgs) : AskedAt(msgs, q) /\ Sums(q)
        BY <1>1, <2>1
    <2>4. msgs[Len(msgs)].stop # "tool_use"
        BY <2>1 DEF TypeInv, Shape, LastMessage
    <2>5. AnsweredSince(msgs, q, FALSE)
        BY <2>1, <2>3, <2>4 DEF Sums, AnsweredSince
    <2>6. /\ SentIds("tool_use_start") = UsesSince(msgs, q)
          /\ SentIds("tool_result") = ResultsSince(msgs, q)
        BY <2>1, <2>3 DEF Sums, Got
    <2>7. QED
        BY <1>0, <1>1, <2>1, <2>2, <2>3, <2>5, <2>6, DoneIsTrue
<1>8. CASE BeginDispatch
    <2>1. pc = "received" /\ pc' = "dispatching" /\ UNCHANGED <<state, sent, completed>>
        BY <1>8 DEF BeginDispatch
    <2>2. PICK q \in 1..Len(msgs) : AskedAt(msgs, q) /\ Sums(q)
        BY <1>1, <2>1
    <2>3. Got = {} /\ Got' = {}
        BY <2>1 DEF Got, Ids, CoverInv
    <2>4. Sums(q)'
        BY <2>1, <2>2, <2>3 DEF Sums, SentIds
    <2>5. QED
        BY <1>2, <2>1, <2>2, <2>4
<1>9. ASSUME NEW i \in 1..Len(response.tools), CompleteTool(i), Leaves(Told(state, Dispatched[i]))
      PROVE  DoneInv'
    <2> DEFINE id == Dispatched[i]
               e == Sse("tool_result", id)
    <2>1. /\ pc = "dispatching" /\ pc' = pc
          /\ completed' = Append(completed, id) /\ sent' = Append(sent, e)
        BY <1>9 DEF CompleteTool, Yield
    <2>2. state.messages # <<>> /\ Len(Dispatched) = Len(response.tools)
        BY <2>1 DEF TypeInv, Shape
    <2>3. id \in UseId
        BY <1>0, <2>2, CollectedAppends DEF Dispatched
    <2>4. state'.messages = msgs
        BY <1>0, <1>9, <2>3, ToldAppends DEF Leaves
    <2> HIDE DEF id
    <2>5. e \in SseEvent /\ e.type = "tool_result" /\ e.id = id
        BY <2>3 DEF Sse, SseEvent
    <2> HIDE DEF e
    <2>6. /\ SentIds("tool_use_start")' = SentIds("tool_use_start")
          /\ SentIds("tool_result")' = SentIds("tool_result") \cup {id}
        BY <1>0, <2>1, <2>5, SentIdsGrow
    <2>7. Got' = Got \cup {id}
        <3>1. Ids(Append(completed, id)) = Ids(completed) \cup {id}
            BY <1>0, <2>3, IdsOfAppend
        <3>2. QED
            BY <2>1, <3>1 DEF Got
    <2>8. PICK q \in 1..Len(msgs) : AskedAt(msgs, q) /\ Sums(q)
        BY <1>1, <2>1
    <2>9. Sums(q)'
        BY <2>1, <2>4, <2>6, <2>7, <2>8 DEF Sums
    <2>10. QED
        BY <1>2, <2>1, <2>4, <2>8, <2>9
<1>10. CASE CollectResults /\ Leaves(Collected(state))
    <2> DEFINE ids == msgs[Len(msgs)].uses
               m == ResultMessage(ids)
    <2>1. pc = "dispatching" /\ Ids(Dispatched) = Ids(completed)
        BY <1>10 DEF CollectResults
    <2>2. msgs # <<>>
        BY <2>1 DEF TypeInv, Shape
    <2>3. /\ ids \in Seq(UseId) /\ state'.messages = Append(msgs, m)
        BY <1>0, <1>10, <2>2, CollectedAppends DEF Leaves
    <2>4. /\ m \in Message /\ m.uses = <<>> /\ m.results = ids
          /\ m.role = "user" /\ m.text = "none" /\ m.stop = "none"
        BY <2>3, ResultMessageType
    <2>5. Ids(m.uses) = {} /\ Ids(m.results) = Got /\ Ids(m.results) = Ids(msgs[Len(msgs)].uses)
        <3>1. Ids(m.uses) = {}
            BY <2>4 DEF Ids
        <3>2. Got = Ids(ids)
            BY <2>1 DEF Got, Dispatched
        <3>3. QED
            BY <2>4, <3>1, <3>2
    <2> HIDE DEF m
    <2>6. PICK q \in 1..Len(msgs) : AskedAt(msgs, q) /\ Sums(q)
        BY <1>1, <2>1
    <2>7. AskedAt(state'.messages, q) /\ q \in 1..Len(state'.messages)
        BY <1>0, <2>3, <2>4, <2>6, AskedAppend DEF Question, AskedAt
    <2>8. /\ UsesSince(state'.messages, q) = UsesSince(msgs, q)
          /\ ResultsSince(state'.messages, q) = ResultsSince(msgs, q) \cup Got
        <3>1. /\ UsesSince(Append(msgs, m), q) = UsesSince(msgs, q) \cup Ids(m.uses)
              /\ ResultsSince(Append(msgs, m), q) = ResultsSince(msgs, q) \cup Ids(m.results)
            BY <1>0, <2>4, <2>6, SinceAppend
        <3>2. QED
            BY <2>3, <2>5, <3>1
    <2>9. AnsweredSince(state'.messages, q, FALSE)
        <3>1. AnsweredSince(msgs, q, TRUE)
            BY <2>1, <2>6 DEF Sums
        <3>2. QED
            BY <1>0, <2>3, <2>4, <2>5, <2>6, <3>1, AnsweredAppend
    <2>10. /\ SentIds("tool_use_start") = UsesSince(state'.messages, q)
           /\ SentIds("tool_result") = ResultsSince(state'.messages, q)
        BY <2>1, <2>6, <2>8 DEF Sums
    <2>11. CASE pc' = "idle"
        <3>1. Yield("done", <<>>) \/ Yield("error", <<>>)
            BY <1>10, <2>11 DEF CollectResults, NextIteration, Done
        <3>2. state'.messages \in Seq(Message)
            BY <1>0, <2>3, <2>4, AppendProperties
        <3>3. QED
            BY <1>0, <1>1, <2>1, <2>7, <2>9, <2>10, <2>11, <3>1, <3>2, DoneIsTrue
    <2>12. CASE pc' = "calling"
        <3>1. sent' = sent
            BY <1>10, <2>12 DEF CollectResults, NextIteration, Done
        <3>2. Sums(q)'
            <4>1. /\ SentIds("tool_use_start")' = SentIds("tool_use_start")
                  /\ SentIds("tool_result")' = SentIds("tool_result")
                BY <3>1, SentIdsKept
            <4>2. Got' = {}
                BY <2>12 DEF Got
            <4>3. QED
                BY <2>9, <2>10, <2>12, <4>1, <4>2 DEF Sums
        <3>3. QED
            BY <1>2, <2>7, <2>12, <3>2
    <2>13. QED
        BY <1>10, <2>11, <2>12 DEF CollectResults, NextIteration, Done
<1>11. CASE Raise
    <2>1. pc # "idle" /\ pc' = "idle" /\ sent' = Append(sent, Sse("error", <<>>))
        BY <1>11 DEF Raise, Backstop, Yield
    <2>2. Sse("error", <<>>) \in SseEvent /\ Sse("error", <<>>).type = "error"
        BY DEF Sse, SseEvent
    <2>3. NotEnded /\ SentIds("done")' = SentIds("done")
        BY <1>0, <1>1, <2>1, <2>2, SentIdsGrow
    <2>4. SentIds("done")' = {}
        BY <2>3 DEF NotEnded, SentIds, Ids
    <2>5. QED
        BY <2>1, <2>4 DEF DoneInv, DoneTellsTruth
<1>12. ASSUME UNCHANGED <<state, sent>> PROVE DoneTellsTruth'
    <2>1. \A type : SentIds(type)' = SentIds(type)
        BY <1>12, SentIdsKept
    <2>2. /\ SentIds("done")' = SentIds("done")
          /\ SentIds("tool_use_start")' = SentIds("tool_use_start")
          /\ SentIds("tool_result")' = SentIds("tool_result")
        BY <2>1
    <2>3. QED
        BY <1>1, <1>12, <2>2 DEF DoneTellsTruth
<1>13. CASE Disconnect
    BY <1>12, <1>13 DEF Disconnect, Backstop, DoneInv
<1>14. CASE UNCHANGED vars
    <2>1. DoneTellsTruth'
        BY <1>12, <1>14 DEF vars
    <2>2. CASE pc = "idle"
        BY <1>14, <2>1, <2>2 DEF vars, DoneInv
    <2>3. CASE pc # "idle"
        <3>1. PICK q \in 1..Len(msgs) : AskedAt(msgs, q) /\ Sums(q)
            BY <1>1, <2>3
        <3>2. Sums(q)'
            <4>1. /\ SentIds("tool_use_start")' = SentIds("tool_use_start")
                  /\ SentIds("tool_result")' = SentIds("tool_result")
                BY <1>14, SentIdsKept DEF vars
            <4>2. Announced' = Announced /\ Got' = Got
                BY <1>14 DEF vars, Got, Announced, Dispatched
            <4>3. pc' = pc /\ state' = state
                BY <1>14 DEF vars
            <4>4. QED
                BY <3>1, <4>1, <4>2, <4>3 DEF Sums
        <3>3. QED
            BY <1>2, <1>14, <2>3, <3>1, <3>2 DEF vars
    <2>4. QED
        BY <2>2, <2>3
<1>15. QED
    BY <1>3, <1>4, <1>5, <1>6, <1>7, <1>8, <1>9, <1>10, <1>11, <1>13, <1>14, StepShapes DEF Quietly

\* A done event tells the truth, whatever the iterations before it went through:
\* the tools the client was told of and the results it got are those in the
\* messages since its question, and the model owes no call of the turn an answer.
THEOREM DoneIsTheTruth == Spec => []DoneTellsTruth
<1>1. Init => CoverInv /\ SentInv /\ DoneInv
    <2>1. Init => CoverInv
        BY DEF Init, NewState, CoverInv, TraceCoversMessages, TraceCovers
    <2>2. Init => SentInv
        BY DEF Init, SentInv, StreamIsWellFormed, LastIsNumbered
    <2>3. Init => DoneInv
        BY DEF Init, DoneInv, DoneTellsTruth, SentIds
    <2>4. QED
        BY <2>1, <2>2, <2>3
<1>2. DoneInv => DoneTellsTruth
    BY DEF DoneInv
<1>3. QED
    BY <1>1, <1>2, InitTypes, StepTypes, StepCovers, StepSends, StepTells, PTL DEF Spec
=============================================================================
