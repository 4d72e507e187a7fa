--------------------------- MODULE WebClientProofs ---------------------------
(***************************************************************************)
(* Why a conversation the page has left never comes back, why no message   *)
(* is taken twice although requests are retried, why the panel shows the   *)
(* trace of the conversation, and why the thread reads in order: for any   *)
(* session ids, any number of turns, and resets, reloads, restarts of the  *)
(* service and a refusing localStorage at any point of a turn.             *)
(***************************************************************************)
EXTENDS WebClient, SequenceTheorems, TLAPS

USE NoneAssumption, MaxTurnsAssumption DEF NoneAssumption, MaxTurnsAssumption

-----------------------------------------------------------------------------
\* Types

\* A turn in flight has a number, and whatever the service works on it has given out;
\* without that the session that takes a message need not be one of the service.
InFlight ==
    /\ phase # "idle" => turn # 0
    /\ phase = "events" => serving # None
    /\ serving # None => serving \in minted

\* Whoever takes the message of the turn is a session of the service.
LEMMA TakesTypes ==
    ASSUME TypeOK, InFlight, phase # "idle", serving # None, Takes
    PROVE  /\ sessions' \subseteq minted' /\ minted' \subseteq Sessions
           /\ log' \in [1..MaxTurns -> Seq(Sessions)]
           /\ serving \in minted'
           /\ log' = [log EXCEPT ![turn] = Append(log[turn], serving)]
<1>1. turn \in 1..MaxTurns /\ serving \in Sessions
    BY DEF TypeOK, InFlight
<1>2. Append(log[turn], serving) \in Seq(Sessions)
    BY <1>1, AppendProperties DEF TypeOK
<1>3. QED
    BY <1>1, <1>2 DEF TypeOK, InFlight, Takes

\* What a step that lets the service take the message, or nothing, does to it.
LEMMA MayTakeTypes ==
    ASSUME TypeOK, InFlight, phase # "idle",
           (serving # None /\ Takes) \/ UNCHANGED <<log, server>>
    PROVE  /\ sessions' \subseteq minted' /\ minted' \subseteq Sessions
           /\ minted \subseteq minted'
           /\ log' \in [1..MaxTurns -> Seq(Sessions)]
<1>1. CASE serving # None /\ Takes
    BY <1>1, TakesTypes DEF Takes, TypeOK
<1>2. CASE UNCHANGED <<log, server>>
    BY <1>2 DEF server, TypeOK
<1>3. QED
    BY <1>1, <1>2

\* The bubble that goes leaves the other entries in their order.
LEMMA DropEmptyBubbleKeeps ==
    ASSUME thread \in Seq(Message), DropEmptyBubble
    PROVE  /\ thread' \in Seq(Message)
           /\ \E pos \in [1..Len(thread') -> 1..Len(thread)] :
                 /\ \A i \in 1..Len(thread') : thread'[i] = thread[pos[i]]
                 /\ \A i, j \in 1..Len(thread') : i < j => pos[i] < pos[j]
<1>1. CASE EmptyBubbles = {} /\ UNCHANGED thread
    <2> DEFINE pos == [i \in 1..Len(thread') |-> i]
    <2>1. /\ pos \in [1..Len(thread') -> 1..Len(thread)]
          /\ \A i \in 1..Len(thread') : thread'[i] = thread[pos[i]]
          /\ \A i, j \in 1..Len(thread') : i < j => pos[i] < pos[j]
        BY <1>1
    <2> HIDE DEF pos
    <2>2. QED
        BY <1>1, <2>1
<1>2. ASSUME NEW n \in EmptyBubbles, thread' = RemoveAt(thread, n)
      PROVE  /\ thread' \in Seq(Message)
             /\ \E pos \in [1..Len(thread') -> 1..Len(thread)] :
                   /\ \A i \in 1..Len(thread') : thread'[i] = thread[pos[i]]
                   /\ \A i, j \in 1..Len(thread') : i < j => pos[i] < pos[j]
    <2>1. n \in 1..Len(thread) /\ Len(thread) \in Nat
        BY <1>2 DEF EmptyBubbles
    <2> DEFINE before == SubSeq(thread, 1, n - 1)
               after  == SubSeq(thread, n + 1, Len(thread))
    <2>2. thread' = before \o after
        BY <1>2 DEF RemoveAt
    <2>3. /\ before \in Seq(Message) /\ Len(before) = n - 1
          /\ \A i \in 1..(n - 1) : before[i] = thread[i]
        BY <2>1, SubSeqProperties
    <2>4. /\ after \in Seq(Message) /\ Len(after) = Len(thread) - n
          /\ \A i \in 1..(Len(thread) - n) : after[i] = thread[i + n]
        BY <2>1, SubSeqProperties
    <2> HIDE DEF before, after
    <2>5. /\ thread' \in Seq(Message)
          /\ Len(thread') = Len(thread) - 1
          /\ \A i \in 1..Len(thread') :
                thread'[i] = IF i < n THEN thread[i] ELSE thread[i + 1]
        <3>1. /\ before \o after \in Seq(Message)
              /\ Len(before \o after) = Len(before) + Len(after)
              /\ \A i \in 1..(Len(before) + Len(after)) :
                    (before \o after)[i] = IF i <= Len(before) THEN before[i]
                                          ELSE after[i - Len(before)]
            BY <2>3, <2>4, ConcatProperties
        <3>2. thread' \in Seq(Message) /\ Len(thread') = Len(thread) - 1
            BY <2>1, <2>2, <2>3, <2>4, <3>1
        <3>3. ASSUME NEW i \in 1..Len(thread')
              PROVE  thread'[i] = IF i < n THEN thread[i] ELSE thread[i + 1]
            <4>1. /\ i \in 1..(Len(before) + Len(after)) /\ i \in Nat
                  /\ Len(before) = n - 1 /\ n \in Nat
                BY <2>1, <2>3, <2>4, <3>2, <3>3
            <4>2. CASE i < n
                <5>1. i <= Len(before) /\ i \in 1..(n - 1)
                    BY <4>1, <4>2
                <5>2. thread'[i] = before[i]
                    BY <2>2, <3>1, <4>1, <5>1
                <5>3. QED
                    BY <2>3, <4>2, <5>1, <5>2
            <4>3. CASE ~ (i < n)
                <5>1. /\ ~ (i <= Len(before)) /\ i - Len(before) \in 1..(Len(thread) - n)
                      /\ i - Len(before) + n = i + 1
                    BY <2>1, <2>4, <4>1, <4>3
                <5>2. thread'[i] = after[i - Len(before)]
                    BY <2>2, <3>1, <4>1, <5>1
                <5>3. QED
                    BY <2>4, <4>3, <5>1, <5>2
            <4>4. QED
                BY <4>2, <4>3
        <3>4. QED
            BY <3>2, <3>3
    <2> DEFINE pos == [i \in 1..Len(thread') |-> IF i < n THEN i ELSE i + 1]
    <2>6. pos \in [1..Len(thread') -> 1..Len(thread)]
        BY <2>1, <2>5
    <2>7. /\ \A i \in 1..Len(thread') : thread'[i] = thread[pos[i]]
          /\ \A i, j \in 1..Len(thread') : i < j => pos[i] < pos[j]
        BY <2>1, <2>5
    <2> HIDE DEF pos
    <2>8. QED
        BY <2>5, <2>6, <2>7
<1>3. QED
    BY <1>1, <1>2 DEF DropEmptyBubble

\* What the later proofs take for granted.
TypeInv == TypeOK /\ InFlight

LEMMA InitTypes == Init => TypeInv
<1> SUFFICES ASSUME Init PROVE TypeInv
    OBVIOUS
<1>1. <<>> \in Seq(Message) /\ <<>> \in Seq(Sessions)
    OBVIOUS
<1>2. log \in [1..MaxTurns -> Seq(Sessions)] /\ thread \in Seq(Message)
    BY <1>1 DEF Init
<1>3. {stored} \ {None} \subseteq Sessions /\ sessions \subseteq {stored} \ {None}
    BY DEF Init
<1>4. /\ {closure, requested, serving} \subseteq Sessions \cup {None}
      /\ trace \in Sessions \cup {None} /\ overtaken \in BOOLEAN
      /\ phase \in {"idle", "sync", "stream", "events"} /\ turn \in 0..MaxTurns
    <2>1. {closure, requested, serving} \subseteq Sessions \cup {None}
        BY DEF Init
    <2>2. trace \in Sessions \cup {None}
        BY DEF Init
    <2>3. overtaken \in BOOLEAN
        BY DEF Init
    <2>4. phase \in {"idle", "sync", "stream", "events"}
        BY DEF Init
    <2>5. turn \in 0..MaxTurns
        BY DEF Init
    <2>6. QED
        BY <2>1, <2>2, <2>3, <2>4, <2>5
<1>5. /\ stored \in Sessions \cup {None} /\ sessionId \in Sessions \cup {None}
      /\ sessions \subseteq minted /\ minted \subseteq Sessions /\ tracing \subseteq Sessions
      /\ left \subseteq Sessions
    BY <1>3 DEF Init
<1>6. TypeOK
    BY <1>2, <1>4, <1>5 DEF TypeOK
<1>7. QED
    BY <1>6 DEF Init, TypeInv, InFlight

\* An entry of the turn in flight fits into the thread.
LEMMA EntryType ==
    ASSUME TypeInv, phase # "idle", NEW role \in {"user", "assistant"}, NEW empty \in BOOLEAN
    PROVE  Entry(role, empty) \in Message
BY DEF TypeInv, TypeOK, InFlight, Entry, Message

LEMMA SubmitTypes == TypeInv /\ Submit => TypeInv'
<1> SUFFICES ASSUME TypeInv, Submit PROVE TypeInv'
    OBVIOUS
<1> DEFINE question == [role |-> "user", turn |-> turn', empty |-> FALSE]
           bubble   == [role |-> "assistant", turn |-> turn', empty |-> TRUE]
<1>1. turn' \in 1..MaxTurns /\ turn' # 0
    BY DEF TypeInv, TypeOK, Submit
<1>2. question \in Message /\ bubble \in Message
    BY <1>1 DEF Message
<1>3. thread \in Seq(Message) /\ <<question, bubble>> \in Seq(Message)
    BY <1>2 DEF TypeInv, TypeOK
<1> HIDE DEF question, bubble
<1>4. Append(thread, question) \in Seq(Message) /\ thread \o <<question, bubble>> \in Seq(Message)
    BY <1>2, <1>3, AppendProperties, ConcatProperties
<1>5. thread' \in Seq(Message) /\ phase' \in {"sync", "stream"}
    BY <1>4 DEF Submit, question, bubble
<1>6. QED
    BY <1>1, <1>5 DEF TypeInv, TypeOK, InFlight, Submit, server, panel, ids

LEMMA StepTypes == TypeInv /\ [Next]_vars => TypeInv'
<1> SUFFICES ASSUME TypeInv, [Next]_vars PROVE TypeInv'
    OBVIOUS
<1> USE DEF server, panel, request, ids
<1>0. <<>> \in Seq(Message)
    OBVIOUS
<1>1. CASE Submit
    BY <1>1, SubmitTypes
<1>2. CASE Reset
    BY <1>0, <1>2 DEF Reset, Keep, GoOnWith, ClearTrace, TypeInv, TypeOK, InFlight
<1>3. CASE Reload
    <2>1. /\ sessions' \subseteq minted' /\ minted' \subseteq Sessions
          /\ minted \subseteq minted'
          /\ log' \in [1..MaxTurns -> Seq(Sessions)]
        <3>1. CASE phase # "idle" /\ serving # None /\ Takes
            BY <3>1, MayTakeTypes DEF TypeInv
        <3>2. CASE UNCHANGED <<log, server>>
            BY <3>2 DEF TypeInv, TypeOK
        <3>3. QED
            BY <1>3, <3>1, <3>2 DEF Reload
    <2>2. QED
        BY <1>0, <1>3, <2>1 DEF Reload, GoOnWith, ClearTrace, TypeInv, TypeOK, InFlight
<1>4. CASE Restart
    BY <1>4 DEF Restart, TypeInv, TypeOK, InFlight
<1>5. CASE Accepts
    BY <1>5 DEF Accepts, TypeInv, TypeOK, InFlight
<1>6. CASE RetryFresh
    BY <1>6 DEF RetryFresh, Keep, GoOnWith, ClearTrace, TypeInv, TypeOK, InFlight
<1>7. CASE SyncAnswer
    <2>1. phase # "idle" /\ serving # None /\ serving \in Sessions /\ Takes
        BY <1>7 DEF SyncAnswer, TypeInv, TypeOK, InFlight
    <2>2. /\ sessions' \subseteq minted' /\ minted' \subseteq Sessions
          /\ minted \subseteq minted'
          /\ log' \in [1..MaxTurns -> Seq(Sessions)]
        BY <2>1, MayTakeTypes DEF TypeInv
    <2>3. thread' \in Seq(Message)
        BY <1>7, <2>1, EntryType, AppendProperties DEF SyncAnswer, TypeInv, TypeOK
    <2>4. QED
        BY <1>7, <2>1, <2>2, <2>3
           DEF SyncAnswer, KeepIfNew, Keep, GoOnWith, RefreshTrace, TypeInv, TypeOK, InFlight
<1>8. CASE StreamOpens
    BY <1>8 DEF StreamOpens, KeepIfNew, Keep, GoOnWith, TraceNewSession, RefreshTrace,
                TypeInv, TypeOK, InFlight
<1>9. CASE TextDelta
    <2>1. Entry("assistant", FALSE) \in Message
        BY <1>9, EntryType DEF TextDelta
    <2>2. thread' \in Seq(Message)
        <3>1. \A i \in 1..Len(thread) : thread[i] \in Message
            BY DEF TypeInv, TypeOK
        <3>2. thread' \in [1..Len(thread) -> Message] /\ Len(thread) \in Nat
            <4>1. Len(thread) \in Nat
                BY DEF TypeInv, TypeOK
            <4>2. QED
                BY <1>9, <2>1, <3>1, <4>1 DEF TextDelta
        <3>3. [1..Len(thread) -> Message] \in {[1..n -> Message] : n \in Nat}
            BY <3>2, Zenon
        <3>4. QED
            BY <3>2, <3>3, SeqDef, Zenon
    <2>3. QED
        BY <1>9, <2>2 DEF TextDelta, TypeInv, TypeOK, InFlight
<1>10. CASE StreamDone
    <2>1. phase # "idle" /\ serving # None /\ serving \in Sessions /\ Takes
        BY <1>10 DEF StreamDone, TypeInv, TypeOK, InFlight
    <2>2. /\ sessions' \subseteq minted' /\ minted' \subseteq Sessions
          /\ minted \subseteq minted'
          /\ log' \in [1..MaxTurns -> Seq(Sessions)]
        BY <2>1, MayTakeTypes DEF TypeInv
    <2>3. QED
        BY <1>10, <2>1, <2>2 DEF StreamDone, RefreshTrace, TypeInv, TypeOK, InFlight
<1>11. CASE StreamError
    <2>1. phase # "idle" /\ serving # None
        BY <1>11 DEF StreamError, TypeInv, InFlight
    <2>2. /\ sessions' \subseteq minted' /\ minted' \subseteq Sessions
          /\ minted \subseteq minted'
          /\ log' \in [1..MaxTurns -> Seq(Sessions)]
        BY <1>11, <2>1, MayTakeTypes DEF StreamError, TypeInv
    <2>3. thread' \in Seq(Message)
        BY <1>11, DropEmptyBubbleKeeps DEF StreamError, TypeInv, TypeOK
    <2>4. QED
        BY <1>11, <2>2, <2>3 DEF StreamError, TypeInv, TypeOK, InFlight
<1>12. CASE Fails
    <2>1. /\ sessions' \subseteq minted' /\ minted' \subseteq Sessions
          /\ minted \subseteq minted'
          /\ log' \in [1..MaxTurns -> Seq(Sessions)]
        BY <1>12, MayTakeTypes DEF Fails, TypeInv
    <2>2. QED
        BY <1>12, <2>1 DEF Fails, TypeInv, TypeOK, InFlight
<1>13. ASSUME NEW id \in Sessions, TraceAnswers(id) PROVE TypeInv'
    BY <1>13 DEF TraceAnswers, TypeInv, TypeOK, InFlight
<1>14. CASE UNCHANGED vars
    BY <1>14 DEF vars, TypeInv, TypeOK, InFlight
<1>15. QED
    BY <1>1, <1>2, <1>3, <1>4, <1>5, <1>6, <1>7, <1>8, <1>9, <1>10, <1>11, <1>12,
       <1>13, <1>14 DEF Next, Handle

\* The variables have their types.
THEOREM TypeCorrect == Spec => []TypeOK
<1>1. QED
    BY InitTypes, StepTypes, PTL DEF Spec, TypeInv

-----------------------------------------------------------------------------
\* A message is asked once

\* AskedAtMostOnce is not inductive: that the message of the turn in flight was not
\* taken yet, nor that of a turn to come, must be known as well.
AskInv ==
    /\ AskedAtMostOnce
    /\ phase # "idle" => log[turn] = <<>>
    /\ \A t \in 1..MaxTurns : t > turn => log[t] = <<>>

\* Whoever takes the message is the first, and the page does not ask again.
LEMMA TakesOnce ==
    ASSUME TypeInv, AskInv, phase # "idle", serving # None, Takes,
           turn' = turn, phase' = "idle"
    PROVE  AskInv'
<1>1. turn \in 1..MaxTurns /\ log' = [log EXCEPT ![turn] = Append(log[turn], serving)]
    BY TakesTypes DEF TypeInv, TypeOK, InFlight
<1>2. log[turn] = <<>>
    BY DEF AskInv
<1>3. log \in [1..MaxTurns -> Seq(Sessions)] /\ Len(Append(<<>>, serving)) = 1
    BY DEF TypeInv, TypeOK
<1>4. \A t \in 1..MaxTurns : log'[t] = IF t = turn THEN Append(<<>>, serving) ELSE log[t]
    BY <1>1, <1>2, <1>3
<1>5. QED
    BY <1>1, <1>3, <1>4 DEF AskInv, AskedAtMostOnce

\* A step that leaves log alone and starts no turn.
LEMMA NothingTaken ==
    ASSUME AskInv, UNCHANGED <<log, turn>>, phase' # "idle" => phase # "idle"
    PROVE  AskInv'
BY DEF AskInv, AskedAtMostOnce

LEMMA StepAsks == TypeInv /\ AskInv /\ [Next]_vars => AskInv'
<1> SUFFICES ASSUME TypeInv, AskInv, [Next]_vars PROVE AskInv'
    OBVIOUS
<1>1. CASE Submit
    <2>1. turn' \in 1..MaxTurns /\ turn \in 0..MaxTurns /\ turn' = turn + 1 /\ log' = log
        BY <1>1 DEF Submit, TypeInv, TypeOK
    <2>2. log'[turn'] = <<>> /\ \A t \in 1..MaxTurns : t > turn' => log'[t] = <<>>
        BY <2>1 DEF AskInv
    <2>3. AskedAtMostOnce'
        BY <2>1 DEF AskInv, AskedAtMostOnce
    <2>4. QED
        BY <2>2, <2>3 DEF AskInv
<1>2. CASE Reset \/ Restart \/ Accepts \/ RetryFresh
    BY <1>2, NothingTaken DEF Reset, Restart, Accepts, RetryFresh
<1>3. CASE Reload
    BY <1>3, TakesOnce, NothingTaken DEF Reload
<1>4. CASE SyncAnswer
    BY <1>4, TakesOnce DEF SyncAnswer
<1>5. CASE StreamOpens \/ TextDelta
    BY <1>5, NothingTaken DEF StreamOpens, TextDelta
<1>6. CASE StreamDone
    BY <1>6, TakesOnce DEF StreamDone, TypeInv, InFlight
<1>7. CASE StreamError
    BY <1>7, TakesOnce, NothingTaken DEF StreamError, TypeInv, InFlight
<1>8. CASE Fails
    BY <1>8, TakesOnce, NothingTaken DEF Fails
<1>9. ASSUME NEW id \in Sessions, TraceAnswers(id) PROVE AskInv'
    BY <1>9, NothingTaken DEF TraceAnswers
<1>10. CASE UNCHANGED vars
    BY <1>10, NothingTaken DEF vars
<1>11. QED
    BY <1>1, <1>2, <1>3, <1>4, <1>5, <1>6, <1>7, <1>8, <1>9, <1>10 DEF Next, Handle

\* No message is taken by two conversations, or twice by one.
THEOREM AskedOnce == Spec => []AskedAtMostOnce
<1>1. Init => AskInv
    BY DEF Init, AskInv, AskedAtMostOnce
<1>2. QED
    BY <1>1, InitTypes, StepTypes, StepAsks, PTL DEF Spec, AskInv

-----------------------------------------------------------------------------
\* What the page is told of its session

\* handleSubmit compares the answer with the id it closed over, not with the current
\* one.  That this is enough rests on what a request without an id means: the page has
\* none either, since it began without one, was reset, or dropped the one it had.
RequestInv ==
    phase \in {"sync", "stream"} =>
        /\ requested = None => sessionId = None
        /\ requested # None => requested = closure
        /\ serving # None /\ requested # None => serving = requested

\* So the id that the page adopts never replaces another one.
LEMMA AdoptsIfNone ==
    ASSUME RequestInv, phase \in {"sync", "stream"}, serving # None, KeepIfNew(serving)
    PROVE  sessionId' = sessionId \/ sessionId = None
BY DEF RequestInv, KeepIfNew, Keep, GoOnWith, ids

LEMMA StepRequest == TypeInv /\ RequestInv /\ [Next]_vars => RequestInv'
<1> SUFFICES ASSUME TypeInv, RequestInv, [Next]_vars PROVE RequestInv'
    OBVIOUS
<1> USE DEF RequestInv, request, ids
<1>1. CASE Submit
    BY <1>1 DEF Submit
<1>2. CASE Reset
    BY <1>2 DEF Reset, Keep, GoOnWith
<1>3. CASE Reload \/ SyncAnswer \/ StreamOpens \/ StreamDone \/ StreamError \/ Fails
    BY <1>3 DEF Reload, SyncAnswer, StreamOpens, StreamDone, StreamError, Fails
<1>4. CASE Restart
    BY <1>4 DEF Restart
<1>5. CASE Accepts
    <2>1. None \notin sessions
        BY DEF TypeInv, TypeOK
    <2>2. QED
        BY <1>5, <2>1 DEF Accepts
<1>6. CASE RetryFresh
    BY <1>6 DEF RetryFresh, Keep, GoOnWith
<1>7. CASE TextDelta
    BY <1>7 DEF TextDelta
<1>8. ASSUME NEW id \in Sessions, TraceAnswers(id) PROVE RequestInv'
    BY <1>8 DEF TraceAnswers
<1>9. CASE UNCHANGED vars
    BY <1>9 DEF vars
<1>10. QED
    BY <1>1, <1>2, <1>3, <1>4, <1>5, <1>6, <1>7, <1>8, <1>9 DEF Next, Handle

-----------------------------------------------------------------------------
\* What was left stays left

\* LeftForGood is not inductive: that the session opened for a request without an id is
\* one the page has never heard of must be known until the page is told of it, and that
\* whatever the page knows the service has given out.
LeftInv ==
    /\ LeftForGood
    /\ {stored, sessionId} \subseteq minted \cup {None}
    /\ left \subseteq minted
    /\ phase \in {"sync", "stream"} /\ serving # None /\ requested = None =>
          serving \notin {stored, sessionId} \cup left

\* A step that changes nothing of this.
LEMMA NothingLeft ==
    ASSUME LeftInv, UNCHANGED ids, minted \subseteq minted',
           \/ phase' \notin {"sync", "stream"}
           \/ phase \in {"sync", "stream"} /\ UNCHANGED <<serving, requested>>
           \/ serving' = None
    PROVE  LeftInv'
BY DEF LeftInv, LeftForGood, ids

\* Going on with what the page or localStorage has, or with nothing.
LEMMA GivesUp ==
    ASSUME TypeInv, LeftInv, NEW newStored \in {stored, None}, NEW newId \in {stored, None},
           GoOnWith(newStored, newId), minted \subseteq minted',
           phase' \in {"sync", "stream"} /\ serving' # None => 
               phase \in {"sync", "stream"} /\ UNCHANGED <<serving, requested>>
    PROVE  LeftInv'
BY DEF TypeInv, TypeOK, LeftInv, LeftForGood, GoOnWith

\* The answer, or the session event, names a session that is new or the one the turn
\* began with; the latter changes nothing.
LEMMA AnswerIsNoReturn ==
    ASSUME TypeInv, RequestInv, LeftInv, phase \in {"sync", "stream"}, serving # None,
           KeepIfNew(serving), minted \subseteq minted', phase' \notin {"sync", "stream"}
    PROVE  LeftInv'
<1>1. CASE serving = closure
    BY <1>1, NothingLeft DEF KeepIfNew
<1>2. CASE serving # closure
    <2>1. /\ requested = None /\ serving \in minted /\ serving \in Sessions
          /\ serving \notin {stored, sessionId} \cup left
        BY <1>2 DEF TypeInv, TypeOK, InFlight, RequestInv, LeftInv
    <2>2. GoOnWith(serving, serving) \/ GoOnWith(stored, serving)
        BY <1>2 DEF KeepIfNew, Keep
    <2>3. QED
        BY <2>1, <2>2 DEF TypeInv, TypeOK, LeftInv, LeftForGood, GoOnWith
<1>3. QED
    BY <1>1, <1>2

LEMMA StepLeft == TypeInv /\ RequestInv /\ LeftInv /\ [Next]_vars => LeftInv'
<1> SUFFICES ASSUME TypeInv, RequestInv, LeftInv, [Next]_vars PROVE LeftInv'
    OBVIOUS
<1> USE DEF server, request
<1>1. CASE Submit
    BY <1>1, NothingLeft DEF Submit
<1>2. CASE Reset
    BY <1>2, GivesUp DEF Reset, Keep
<1>3. CASE Reload
    BY <1>3, GivesUp DEF Reload, Takes
<1>4. CASE Restart
    BY <1>4, NothingLeft DEF Restart
<1>5. CASE Accepts
    BY <1>5 DEF Accepts, ids, TypeInv, TypeOK, LeftInv, LeftForGood
<1>6. CASE RetryFresh
    BY <1>6, GivesUp DEF RetryFresh, Keep
<1>7. CASE SyncAnswer
    BY <1>7, AnswerIsNoReturn DEF SyncAnswer, Takes
<1>8. CASE StreamOpens
    BY <1>8, AnswerIsNoReturn DEF StreamOpens
<1>9. CASE TextDelta
    BY <1>9, NothingLeft DEF TextDelta
<1>10. CASE StreamDone \/ StreamError \/ Fails
    BY <1>10, NothingLeft DEF StreamDone, StreamError, Fails, Takes
<1>11. ASSUME NEW id \in Sessions, TraceAnswers(id) PROVE LeftInv'
    <2>1. UNCHANGED <<ids, minted, phase, serving, requested>>
        BY <1>11 DEF TraceAnswers
    <2>2. QED
        BY <2>1 DEF LeftInv, LeftForGood, ids
<1>12. CASE UNCHANGED vars
    BY <1>12 DEF vars, ids, LeftInv, LeftForGood
<1>13. QED
    BY <1>1, <1>2, <1>3, <1>4, <1>5, <1>6, <1>7, <1>8, <1>9, <1>10, <1>11, <1>12
       DEF Next, Handle

\* An id that the page and localStorage have both given up never comes back: not with a
\* late answer of handleSubmit, nor with its retry, nor with a reload.
THEOREM WhatIsLeftStaysLeft == Spec => []LeftForGood
<1>1. Init => RequestInv /\ LeftInv
    BY DEF Init, RequestInv, LeftInv, LeftForGood
<1>2. QED
    BY <1>1, InitTypes, StepTypes, StepRequest, StepLeft, PTL DEF Spec, LeftInv

-----------------------------------------------------------------------------
\* The trace is that of the conversation

LEMMA StepTrace == RequestInv /\ TraceIsCurrent /\ [Next]_vars => TraceIsCurrent'
<1> SUFFICES ASSUME RequestInv, TraceIsCurrent, [Next]_vars PROVE TraceIsCurrent'
    OBVIOUS
<1> USE DEF TraceIsCurrent, panel, ids
<1>1. CASE Submit \/ Restart \/ Accepts
    BY <1>1 DEF Submit, Restart, Accepts
<1>2. CASE Reset \/ Reload \/ RetryFresh
    BY <1>2 DEF Reset, Reload, RetryFresh, ClearTrace
<1>3. CASE SyncAnswer
    BY <1>3, AdoptsIfNone DEF SyncAnswer, RefreshTrace
<1>4. CASE StreamOpens
    BY <1>4, AdoptsIfNone DEF StreamOpens, TraceNewSession, RefreshTrace
<1>5. CASE TextDelta \/ StreamError \/ Fails
    BY <1>5 DEF TextDelta, StreamError, Fails
<1>6. CASE StreamDone
    BY <1>6 DEF StreamDone, RefreshTrace
<1>7. ASSUME NEW id \in Sessions, TraceAnswers(id) PROVE TraceIsCurrent'
    <2>1. sessionId' = sessionId
        BY <1>7 DEF TraceAnswers
    <2>2. CASE trace' = id /\ overtaken' = (id # sessionId)
        <3>1. CASE id = sessionId
            BY <2>1, <2>2, <3>1
        <3>2. CASE id # sessionId
            <4>1. overtaken' = TRUE
                BY <2>2, <3>2, Zenon
            <4>2. QED
                BY <4>1, Zenon
        <3>3. QED
            BY <3>1, <3>2
    <2>3. CASE UNCHANGED <<trace, overtaken>>
        BY <2>1, <2>3
    <2>4. QED
        BY <1>7, <2>2, <2>3 DEF TraceAnswers
<1>8. CASE UNCHANGED vars
    BY <1>8 DEF vars
<1>9. QED
    BY <1>1, <1>2, <1>3, <1>4, <1>5, <1>6, <1>7, <1>8 DEF Next, Handle

\* The panel shows the trace of another conversation only if that was asked for
\* before the page changed to the current one.
THEOREM TraceBelongs == Spec => []TraceIsCurrent
<1>1. Init => RequestInv /\ TraceIsCurrent
    BY DEF Init, RequestInv, TraceIsCurrent
<1>2. QED
    BY <1>1, InitTypes, StepTypes, StepRequest, StepTrace, PTL DEF Spec

-----------------------------------------------------------------------------
\* The thread is in order

\* ThreadIsOrdered is not inductive: what is appended must belong to a later turn than
\* all there is, or be the answer to a turn of which only the question is there.
ThreadInv ==
    /\ ThreadIsOrdered
    /\ \A i \in 1..Len(thread) :
          /\ thread[i].turn <= turn
          /\ phase = "sync" /\ thread[i].turn = turn => thread[i].role = "user"

\* Turns have numbers, in the thread as well.
LEMMA TurnNumbers ==
    ASSUME TypeInv
    PROVE  turn \in Nat /\ \A i \in 1..Len(thread) : thread[i].turn \in Nat
<1>1. \A i \in 1..Len(thread) : thread[i] \in Message
    BY DEF TypeInv, TypeOK
<1>2. \A m \in Message : m.turn \in Nat
    BY DEF Message
<1>3. QED
    BY <1>1, <1>2 DEF TypeInv, TypeOK

\* An entry at the end of the thread, after entries it may follow.
LEMMA AppendInOrder ==
    ASSUME TypeInv, ThreadIsOrdered, NEW m \in Message, thread' = Append(thread, m),
           \A i \in 1..Len(thread) :
              \/ thread[i].turn < m.turn
              \/ /\ thread[i].turn = m.turn
                 /\ thread[i].role = "user" /\ m.role = "assistant"
    PROVE  ThreadIsOrdered'
<1>1. /\ Len(thread) \in Nat /\ Len(thread') = Len(thread) + 1
      /\ \A i \in 1..Len(thread) : thread'[i] = thread[i]
      /\ thread'[Len(thread) + 1] = m
    BY AppendProperties DEF TypeInv, TypeOK
<1> SUFFICES ASSUME NEW i \in 1..Len(thread'), NEW j \in 1..Len(thread'), i < j
             PROVE  \/ thread'[i].turn < thread'[j].turn
                    \/ /\ thread'[i].turn = thread'[j].turn
                       /\ thread'[i].role = "user" /\ thread'[j].role = "assistant"
    BY DEF ThreadIsOrdered
<1>2. i \in 1..Len(thread) /\ thread'[i] = thread[i]
    BY <1>1
<1>3. CASE j \in 1..Len(thread)
    BY <1>1, <1>2, <1>3 DEF ThreadIsOrdered
<1>4. CASE j = Len(thread) + 1
    BY <1>1, <1>2, <1>4
<1>5. QED
    BY <1>1, <1>3, <1>4

\* A step that leaves the thread alone and does not begin a synchronous turn.
LEMMA SameThread ==
    ASSUME ThreadInv, UNCHANGED <<thread, turn>>, phase' = "sync" => phase = "sync"
    PROVE  ThreadInv'
BY DEF ThreadInv, ThreadIsOrdered

\* An empty thread is in order.
LEMMA EmptyThread == thread' = <<>> => ThreadInv'
BY DEF ThreadInv, ThreadIsOrdered

LEMMA SubmitInOrder == TypeInv /\ ThreadInv /\ Submit => ThreadInv'
<1> SUFFICES ASSUME TypeInv, ThreadInv, Submit PROVE ThreadInv'
    OBVIOUS
<1> DEFINE question == [role |-> "user", turn |-> turn', empty |-> FALSE]
           bubble   == [role |-> "assistant", turn |-> turn', empty |-> TRUE]
           n        == Len(thread)
<1>1. turn \in Nat /\ turn' = turn + 1 /\ n \in Nat
    BY DEF TypeInv, TypeOK, Submit
<1>2. /\ question \in Message /\ question.turn = turn' /\ question.role = "user"
      /\ bubble \in Message /\ bubble.turn = turn' /\ bubble.role = "assistant"
    BY <1>1 DEF Message, TypeInv, TypeOK, Submit
<1>3. \A i \in 1..n : thread[i].turn \in Nat /\ thread[i].turn < turn'
    BY <1>1, TurnNumbers DEF ThreadInv
<1> HIDE DEF question, bubble
<1>4. CASE phase' = "sync" /\ thread' = Append(thread, question)
    <2>1. ThreadIsOrdered'
        BY <1>2, <1>3, <1>4, AppendInOrder DEF ThreadInv
    <2>2. /\ Len(thread') = n + 1 /\ thread'[n + 1] = question
          /\ \A i \in 1..n : thread'[i] = thread[i]
        BY <1>2, <1>4, AppendProperties DEF TypeInv, TypeOK
    <2>3. \A i \in 1..Len(thread') :
              /\ thread'[i].turn <= turn'
              /\ thread'[i].turn = turn' => thread'[i].role = "user"
        BY <1>1, <1>2, <1>3, <2>2
    <2>4. QED
        BY <2>1, <2>3 DEF ThreadInv
<1>5. CASE phase' = "stream" /\ thread' = thread \o <<question, bubble>>
    <2>1. <<question, bubble>> \in Seq(Message) /\ Len(<<question, bubble>>) = 2
        BY <1>2
    <2>2. /\ Len(thread') = n + 2
          /\ \A i \in 1..(n + 2) :
                thread'[i] = IF i <= n THEN thread[i] ELSE <<question, bubble>>[i - n]
        BY <1>5, <2>1, ConcatProperties DEF TypeInv, TypeOK
    <2>3. /\ \A i \in 1..n : thread'[i] = thread[i]
          /\ thread'[n + 1] = question /\ thread'[n + 2] = bubble
        BY <1>1, <2>2
    <2>4. \A i \in 1..Len(thread') : i \in 1..n \/ i = n + 1 \/ i = n + 2
        BY <1>1, <2>2
    <2>5. \A i \in 1..Len(thread') : thread'[i].turn <= turn'
        BY <1>1, <1>2, <1>3, <2>3, <2>4
    <2>6. ASSUME NEW i \in 1..Len(thread'), NEW j \in 1..Len(thread'), i < j
          PROVE  \/ thread'[i].turn < thread'[j].turn
                 \/ /\ thread'[i].turn = thread'[j].turn
                    /\ thread'[i].role = "user" /\ thread'[j].role = "assistant"
        <3>1. CASE j \in 1..n
            BY <1>1, <2>3, <2>6, <3>1 DEF ThreadInv, ThreadIsOrdered
        <3>2. CASE i \in 1..n /\ j \notin 1..n
            BY <1>2, <1>3, <2>3, <2>4, <3>2
        <3>3. CASE i = n + 1 /\ j = n + 2
            BY <1>2, <2>3, <3>3
        <3>4. QED
            BY <1>1, <2>4, <2>6, <3>1, <3>2, <3>3
    <2>7. QED
        BY <1>5, <2>5, <2>6 DEF ThreadInv, ThreadIsOrdered
<1>6. QED
    BY <1>4, <1>5 DEF Submit, question, bubble

LEMMA SyncAnswerInOrder == TypeInv /\ ThreadInv /\ SyncAnswer => ThreadInv'
<1> SUFFICES ASSUME TypeInv, ThreadInv, SyncAnswer PROVE ThreadInv'
    OBVIOUS
<1> DEFINE answer == Entry("assistant", FALSE)
           n      == Len(thread)
<1>1. /\ answer \in Message /\ answer.turn = turn /\ answer.role = "assistant"
      /\ thread' = Append(thread, answer) /\ turn' = turn /\ phase' = "idle"
    BY EntryType DEF SyncAnswer, Entry
<1>2. turn \in Nat /\ \A i \in 1..n : thread[i].turn \in Nat
    BY TurnNumbers
<1>3. \A i \in 1..n : thread[i].turn < turn \/ (thread[i].turn = turn /\ thread[i].role = "user")
    BY <1>2 DEF ThreadInv, SyncAnswer
<1> HIDE DEF answer
<1>4. ThreadIsOrdered'
    BY <1>1, <1>3, AppendInOrder DEF ThreadInv
<1>5. /\ n \in Nat /\ Len(thread') = n + 1 /\ thread'[n + 1] = answer
      /\ \A i \in 1..n : thread'[i] = thread[i]
    BY <1>1, AppendProperties DEF TypeInv, TypeOK
<1>6. \A i \in 1..Len(thread') : thread'[i].turn <= turn'
    <2>1. \A i \in 1..n : thread'[i].turn <= turn'
        BY <1>1, <1>5 DEF ThreadInv
    <2>2. thread'[n + 1].turn <= turn'
        BY <1>1, <1>5 DEF TypeInv, TypeOK
    <2>3. QED
        BY <1>5, <2>1, <2>2
<1>7. QED
    BY <1>1, <1>4, <1>6 DEF ThreadInv

LEMMA TextDeltaInOrder == TypeInv /\ ThreadInv /\ TextDelta => ThreadInv'
<1> SUFFICES ASSUME TypeInv, ThreadInv, TextDelta PROVE ThreadInv'
    OBVIOUS
<1>1. Len(thread) \in Nat /\ turn' = turn /\ phase' = "events"
    BY DEF TypeInv, TypeOK, TextDelta
<1>2. Len(thread') = Len(thread)
    BY <1>1 DEF TextDelta
<1>3. \A i \in 1..Len(thread) :
          thread'[i].turn = thread[i].turn /\ thread'[i].role = thread[i].role
    BY DEF TextDelta, IsBubble, Entry
<1>4. QED
    BY <1>1, <1>2, <1>3 DEF ThreadInv, ThreadIsOrdered

LEMMA StreamErrorInOrder == TypeInv /\ ThreadInv /\ StreamError => ThreadInv'
<1> SUFFICES ASSUME TypeInv, ThreadInv, StreamError PROVE ThreadInv'
    OBVIOUS
<1>1. thread \in Seq(Message) /\ DropEmptyBubble /\ turn' = turn /\ phase' = "idle"
    BY DEF TypeInv, TypeOK, StreamError
<1>2. PICK pos \in [1..Len(thread') -> 1..Len(thread)] :
          /\ \A i \in 1..Len(thread') : thread'[i] = thread[pos[i]]
          /\ \A i, j \in 1..Len(thread') : i < j => pos[i] < pos[j]
    BY <1>1, DropEmptyBubbleKeeps
<1>3. ThreadIsOrdered'
    BY <1>2 DEF ThreadInv, ThreadIsOrdered
<1>4. QED
    BY <1>1, <1>2, <1>3 DEF ThreadInv

LEMMA StepThread == TypeInv /\ ThreadInv /\ [Next]_vars => ThreadInv'
<1> SUFFICES ASSUME TypeInv, ThreadInv, [Next]_vars PROVE ThreadInv'
    OBVIOUS
<1>1. CASE Submit
    BY <1>1, SubmitInOrder
<1>2. CASE Reset \/ Reload
    BY <1>2, EmptyThread DEF Reset, Reload
<1>3. CASE Restart \/ Accepts \/ RetryFresh \/ StreamOpens \/ StreamDone \/ Fails
    BY <1>3, SameThread DEF Restart, Accepts, RetryFresh, StreamOpens, StreamDone, Fails
<1>4. CASE SyncAnswer
    BY <1>4, SyncAnswerInOrder
<1>5. CASE TextDelta
    BY <1>5, TextDeltaInOrder
<1>6. CASE StreamError
    BY <1>6, StreamErrorInOrder
<1>7. ASSUME NEW id \in Sessions, TraceAnswers(id) PROVE ThreadInv'
    BY <1>7, SameThread DEF TraceAnswers
<1>8. CASE UNCHANGED vars
    BY <1>8, SameThread DEF vars
<1>9. QED
    BY <1>1, <1>2, <1>3, <1>4, <1>5, <1>6, <1>7, <1>8 DEF Next, Handle

\* The thread shows the turns in order, each question at most once and before its answer.
THEOREM ThreadInOrder == Spec => []ThreadIsOrdered
<1>1. Init => ThreadInv
    BY DEF Init, ThreadInv, ThreadIsOrdered
<1>2. QED
    BY <1>1, InitTypes, StepTypes, StepThread, PTL DEF Spec, ThreadInv
=============================================================================
