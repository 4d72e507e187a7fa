---------------------------- MODULE Conversation ----------------------------
(***************************************************************************)
(* The conversation both agent loops extend: ConversationState of          *)
(* src/src/agent/state.py, its messages in Anthropic wire format and its   *)
(* trace.                                                                  *)
(*                                                                         *)
(* A message keeps what the loops and the API tell apart: the role, the    *)
(* kind of its text, the ids of its tool_use blocks and of its tool_result *)
(* blocks, each in order.  A tool_use id is the position of its message    *)
(* and of its block, so ids are unique.                                    *)
(***************************************************************************)
EXTENDS Naturals, Sequences

\* The joined text blocks of a message: "none" is no text block at all, "blank"
\* a text block with no characters, "plan" a text with two or more "Day N"
\* headers, "nudge" the reminder the guardrail writes in the user's name.
Texts == {"none", "blank", "plain", "plan", "nudge"}

CritiqueTool == "critique_trip_plan"
Tools == {CritiqueTool, "other_tool"}

\* The name of the tool_use event that records an intervention of the guardrail.
GuardrailName == "_guardrail_critique_missing"

StopReasons == {"end_turn", "tool_use", "max_tokens"}

\* What one API call answers.
Response == [stop : StopReasons, text : Texts \ {"nudge"}, tools : Seq(Tools)]

UseId == (Nat \ {0}) \X (Nat \ {0})

\* stop is the stop_reason that came with an assistant message ("none" in a
\* user message); it is not on the wire and only properties look at it.
Message == [role : {"user", "assistant"}, text : Texts, uses : Seq(UseId),
            results : Seq(UseId), stop : StopReasons \cup {"none"}]

Event == [type : {"user_message", "assistant_text", "tool_use", "tool_result",
                  "stop"},
          id : UseId \cup {<<>>}, name : Tools \cup {GuardrailName, ""}]

State == [messages : Seq(Message), trace : Seq(Event), total_turns : Nat]

NewState == [messages |-> <<>>, trace |-> <<>>, total_turns |-> 0]

-----------------------------------------------------------------------------

UserMessage(text) ==
    [role |-> "user", text |-> text, uses |-> <<>>, results |-> <<>>,
     stop |-> "none"]

ResultMessage(ids) ==
    [role |-> "user", text |-> "none", uses |-> <<>>, results |-> ids,
     stop |-> "none"]

AssistantMessage(r, text, ids) ==
    [role |-> "assistant", text |-> text, uses |-> ids, results |-> <<>>,
     stop |-> r.stop]

\* The ids of response r's tool_use blocks, were it the next message of s.
UseIds(s, r) == [i \in 1..Len(r.tools) |-> <<Len(s.messages) + 1, i>>]

PlainEvent(type) == [type |-> type, id |-> <<>>, name |-> ""]

\* It has the type of a tool call and no block in the messages.
GuardrailEvent == [type |-> "tool_use", id |-> <<>>, name |-> GuardrailName]

\* One tool_use event for each block of r.
UseEvents(s, r) ==
    [i \in 1..Len(r.tools) |->
        [type |-> "tool_use", id |-> UseIds(s, r)[i], name |-> r.tools[i]]]

ResultEvents(ids) ==
    [i \in 1..Len(ids) |-> [type |-> "tool_result", id |-> ids[i], name |-> ""]]

\* state.messages.append and _trace.
Say(s, message)    == [s EXCEPT !.messages = Append(@, message)]
Record(s, events)  == [s EXCEPT !.trace = @ \o events]

\* The start of every turn: the user's message, and its trace event.
WithUserMessage(s) ==
    Record(Say(s, UserMessage("plain")), <<PlainEvent("user_message")>>)

\* _looks_like_plan_presentation
LooksLikePlan(text) == text = "plan"

\* _critique_called_in_turn: a tool_use event for the critique since `start`.
CritiqueCalled(trace, start) ==
    \E i \in start + 1..Len(trace) :
        trace[i].type = "tool_use" /\ trace[i].name = CritiqueTool

-----------------------------------------------------------------------------
\* The message list the API accepts, as the comments of both loops describe it
\* (external): no message with content [], and the tool_use blocks of a message
\* are answered, all of them and nothing else, in the next one.

HasContent(m) == m.text # "none" \/ m.uses # <<>> \/ m.results # <<>>

Ids(seq) == {seq[i] : i \in 1..Len(seq)}

AnsweredNext(msgs, i) ==
    /\ i < Len(msgs)
    /\ msgs[i + 1].role = "user"
    /\ Ids(msgs[i + 1].results) = Ids(msgs[i].uses)

ApiAccepts(msgs) ==
    \A i \in 1..Len(msgs) :
        /\ HasContent(msgs[i])
        /\ msgs[i].uses # <<>> => AnsweredNext(msgs, i)
=============================================================================
