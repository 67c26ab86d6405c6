----------------------------- MODULE Assistant -----------------------------
(***************************************************************************)
(* The assistant of the planner: the chat (PlannerAssistant.tsx), the       *)
(* reader of its event stream (stream-assistant.ts) and the route that      *)
(* writes the stream (app/api/assistant/route.ts).                          *)
(*                                                                         *)
(* An event is written in two pieces, so that a read of the stream can end  *)
(* inside one.  A stream outlives the Clear of its conversation.            *)
(***************************************************************************)
EXTENDS Naturals, Sequences

CONSTANTS None,
          MaxTurns, \* bound: questions asked
          MaxTokens \* bound: tokens of an answer

Turn == 1 .. MaxTurns
\* A question, or an answer with the tokens it holds, each of its turn.
Message == [role : {"user"}, turn : Turn]
           \cup [role : {"assistant"}, text : SUBSET (Turn \X (1 .. MaxTokens))]
\* A request: the conversation it was sent with, where it is, the tokens that
\* were written, the pieces that were read, and those before its buffer.
Stream == [conv : Seq(Message), st : {"asked", "open", "closed", "broken"},
           wrote : 0 .. MaxTokens, read : 0 .. 2 * MaxTokens,
           start : 0 .. 2 * MaxTokens]

BoundsAssumption ==
    /\ MaxTurns \in Nat /\ MaxTokens \in Nat
    /\ None \notin Stream

VARIABLES messages, busy, error,
          stream, \* the requests of the turns
          asked,  \* the turns there have been
          whole   \* the tokens of the answers that ended well

vars == <<messages, busy, error, stream, asked, whole>>

TypeOK ==
    /\ messages \in Seq(Message)
    /\ busy \in BOOLEAN /\ error \in BOOLEAN
    /\ stream \in [Turn -> Stream \cup {None}]
    /\ asked \in 0 .. MaxTurns
    /\ whole \in [Turn -> 0 .. MaxTokens]
-----------------------------------------------------------------------------
Init ==
    /\ messages = <<>> /\ busy = FALSE /\ error = FALSE
    /\ stream = [t \in Turn |-> None]
    /\ asked = 0 /\ whole = [t \in Turn |-> 0]

\* A suggestion, Enter or Send.
Send ==
    /\ ~busy /\ asked < MaxTurns
    /\ LET conversation ==
               Append(messages, [role |-> "user", turn |-> asked + 1])
       IN  /\ messages' = Append(conversation, [role |-> "assistant", text |-> {}])
           /\ stream' = [stream EXCEPT ![asked + 1] =
                  [conv |-> conversation, st |-> "asked", wrote |-> 0,
                   read |-> 0, start |-> 0]]
    /\ asked' = asked + 1
    /\ busy' = TRUE /\ error' = FALSE
    /\ UNCHANGED whole

\* Faulty: a conversation that is cleared is ready for the next question.
FreedByClear(b) == FALSE

BusyAfterClear(b) == b

Clear ==
    /\ messages # <<>>
    /\ messages' = <<>> /\ error' = FALSE
    /\ busy' = BusyAfterClear(busy)
    /\ UNCHANGED <<stream, asked, whole>>
-----------------------------------------------------------------------------
(* The route.                                                               *)

Goes(t, r) == /\ stream' = [stream EXCEPT ![t] = r]
              /\ UNCHANGED <<messages, busy, error, asked, whole>>

\* The request is valid; the model is called.
Post(t) == /\ stream[t] # None /\ stream[t].st = "asked"
           /\ Goes(t, [stream[t] EXCEPT !.st = "open"])

\* content_block_delta
Enqueue(t) == /\ stream[t] # None /\ stream[t].st = "open"
              /\ stream[t].wrote < MaxTokens
              /\ Goes(t, [stream[t] EXCEPT !.wrote = @ + 1])

\* The answer ends; or it fails, and an error is the last event.
CloseController(t) ==
    /\ stream[t] # None /\ stream[t].st = "open"
    /\ \E st \in {"closed", "broken"} : Goes(t, [stream[t] EXCEPT !.st = st])
-----------------------------------------------------------------------------
(* The reader.                                                              *)

\* Faulty: what follows the last whole event of a read is dropped, and so is
\* the other piece of it, which does not begin with "data: ".
Dropped(r, to) == to

\* The buffer keeps what follows the last whole event.
Buffered(r, to) == 2 * (to \div 2)

\* onToken: nothing to add to after a Clear.
OnToken(ms, tokens) ==
    IF ms = <<>> \/ ms[Len(ms)].role # "assistant" THEN ms
    ELSE [ms EXCEPT ![Len(ms)].text = @ \cup tokens]

\* reader.read(): some of the pieces that were written, and the events that
\* are whole with what the buffer held.
ReadPieces(t) ==
    /\ stream[t] # None
    /\ \E to \in stream[t].read + 1 .. 2 * stream[t].wrote :
          LET r == stream[t]
              tokens == {<<t, n>> : n \in
                            {k \in 1 .. r.wrote : r.start < 2 * k - 1 /\ 2 * k <= to}}
          IN  /\ messages' = IF tokens = {} THEN messages
                             ELSE OnToken(messages, tokens)
              /\ stream' = [stream EXCEPT ![t].read = to,
                                          ![t].start = Buffered(r, to)]
    /\ UNCHANGED <<busy, error, asked, whole>>

Finish(t) ==
    /\ stream[t] # None /\ stream[t].st = "closed"
    /\ stream[t].read = 2 * stream[t].wrote
    /\ whole' = [whole EXCEPT ![t] = stream[t].wrote]
    /\ stream' = [stream EXCEPT ![t] = None]
    /\ busy' = FALSE
    /\ UNCHANGED <<messages, error, asked>>

\* Faulty: what came of the answer stays.
KeepPartial(r) == messages

\* The conversation as it was asked, also when it was cleared since.
AfterFailure(r) == r.conv

\* Faulty: only an answer that ends well makes the chat ready.
StillBusy(b) == b

\* finally
BusyAfterFailure(b) == FALSE

\* The route refuses, the connection breaks, or the error event is read.
Catch(t) ==
    /\ stream[t] # None
    /\ stream[t].st = "closed" => stream[t].read < 2 * stream[t].wrote
    /\ messages' = AfterFailure(stream[t])
    /\ stream' = [stream EXCEPT ![t] = None]
    /\ busy' = BusyAfterFailure(busy) /\ error' = TRUE
    /\ UNCHANGED <<asked, whole>>

Next == \/ Send \/ Clear
        \/ \E t \in Turn : \/ Post(t) \/ Enqueue(t) \/ CloseController(t)
                           \/ ReadPieces(t) \/ Finish(t) \/ Catch(t)

Spec == Init /\ [][Next]_vars
-----------------------------------------------------------------------------
\* What an answer shows came for the question above it, whatever was cleared
\* while it came (PlannerAssistant.tsx:54).
AnswersBelong ==
    \A i \in 1 .. Len(messages) :
        messages[i].role = "assistant"
        => /\ i > 1 /\ messages[i - 1].role = "user"
           /\ \A token \in messages[i].text :
                 token[1] = messages[i - 1].turn

\* However the stream is cut into reads, an answer that ended well has every
\* token of it (stream-assistant.ts:53).
AnswersWhole ==
    \A i \in 2 .. Len(messages) :
        /\ messages[i].role = "assistant" /\ messages[i - 1].role = "user"
        /\ stream[messages[i - 1].turn] = None
        => LET t == messages[i - 1].turn
           IN  messages[i].text = {<<t, n>> : n \in 1 .. whole[t]}

\* A failed question is the last thing said, with nothing of its answer: the
\* next request does not send an answer that never was
\* (PlannerAssistant.tsx:63).
FailureLeavesQuestion ==
    error => /\ messages # <<>>
             /\ messages[Len(messages)].role = "user"

\* A chat that waits has a request under way to wait for, also when it was
\* cleared or the request failed half-way: Send and the suggestions are
\* disabled no longer than that (PlannerAssistant.tsx:66).
BusyHasStream == busy => \E t \in Turn : stream[t] # None
=============================================================================
