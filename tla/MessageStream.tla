--------------------------- MODULE MessageStream ---------------------------
(***************************************************************************)
(* One /v1/messages request after it has its account: executeWithRetry and *)
(* callAndHandle (internal/app/messages/execute.go), the streaming and the *)
(* non-streaming response handlers (response.go), the GateWriter that      *)
(* holds back what the client has not seen yet (gate_writer.go), and the   *)
(* SSEWriter with its accumulator (internal/respconv).                     *)
(*                                                                         *)
(* The upstream's event stream is nondeterministic.  An event stands for   *)
(* what the accumulator makes of it (text emitted, text held back by the   *)
(* stop-sequence or tag filter, a budget reached, ...); text itself is     *)
(* left out.  The code's empty string, as a reason to retry or as the type *)
(* of the open block, is written "none".                                   *)
(***************************************************************************)
EXTENDS Integers, Sequences, SequencesExt, FiniteSets

CONSTANTS
    Streaming,   \* the request's "stream" flags to consider, a subset of BOOLEAN
    MaxEvents    \* bound: upstream events per attempt

ASSUME MessageStreamAssumption == Streaming \subseteq BOOLEAN /\ MaxEvents \in Nat

VARIABLES
    stream,     \* req.Stream
    pc,         \* "call" | "events" | "ended" | "retry" | "done"
    attempt,    \* 1 or 2
    reason,     \* retryOutcome.Reason of the attempt, "none" if there is none
    first,      \* the first attempt's reason, once it is retried
    events,     \* events read in this attempt
    acc,        \* responseAccumulator
    sse,        \* SSEWriter on its GateWriter
    stopped,    \* how the callback stopped the parser: "no" | "error" | "local"
    fault,      \* "none" | "exception" | "retryable" | "final": the error event seen
    parseErr,   \* ParseStream returned an error
    wire,       \* what has been handed to the client's connection
    gone,       \* the client has disconnected
    terminal,   \* executeWithRetry's error: "nil" | "error"
    committed   \* attempts whose prompt-cache plan was committed

vars == <<stream, pc, attempt, reason, first, events, acc, sse, stopped, fault, parseErr,
          wire, gone, terminal, committed>>

\* newAccumulator.  held: text waiting in the tag or stop-sequence buffer, or
\* thinking waiting in the tag buffer; finished: calls of finalizeResult.
FreshAcc == [think |-> FALSE, text |-> FALSE, tool |-> FALSE, invalid |-> FALSE,
             localStop |-> FALSE, held |-> "no", signature |-> FALSE, finished |-> 0]

\* NewGateWriter and NewSSEWriter.  out: what was written to the gate, in
\* order; with promoted it has all gone to the client.
FreshSSE == [started |-> FALSE, block |-> -1, active |-> "none", signed |-> FALSE,
             out |-> <<>>, promoted |-> FALSE, writeErr |-> FALSE]

Init ==
    /\ stream \in Streaming
    /\ pc = "call"
    /\ attempt = 1
    /\ reason = "none"
    /\ first = "none"
    /\ events = 0
    /\ acc = FreshAcc
    /\ sse = FreshSSE
    /\ stopped = "no"
    /\ fault = "none"
    /\ parseErr = FALSE
    /\ wire = <<>>
    /\ gone = FALSE
    /\ terminal = "nil"
    /\ committed = {}
-----------------------------------------------------------------------------
(***************************************************************************)
(* SSEWriter: each operator takes the writer before and gives it after     *)
(***************************************************************************)

\* An item on the wire: its kind, block index and block type.
Item(k, i, t) == [kind |-> k, index |-> i, type |-> t]
Plain(k) == Item(k, -1, "none")

\* writeSSE / writeRawSSE: into the buffer, or to the client; a write to a
\* client that has left fails, and after a failure nothing is written.
Write(w, item) ==
    IF w.writeErr THEN w
    ELSE IF w.promoted /\ gone THEN [w EXCEPT !.writeErr = TRUE]
    ELSE [w EXCEPT !.out = Append(@, item)]

EnsureStarted(w) ==
    IF w.started THEN w ELSE Write([w EXCEPT !.started = TRUE], Plain("start"))

\* fireVisibleOutput: GateWriter.Promote.
FireVisibleOutput(w) == [w EXCEPT !.promoted = TRUE]

\* Mutant: the type of the closed block is kept.
CloseKeepsType(w) ==
    IF w.active = "none" THEN w ELSE Write(w, Item("stop", w.block, w.active))

CloseActiveBlock(w) ==
    IF w.active = "none" THEN w
    ELSE [Write(w, Item("stop", w.block, w.active)) EXCEPT !.active = "none"]

OpenBlock(w, t) ==
    Write([w EXCEPT !.block = @ + 1, !.active = t], Item("open", w.block + 1, t))

SwitchBlock(w, t) == IF w.active = t THEN w ELSE OpenBlock(CloseActiveBlock(w), t)

WriteDelta(w) == Write(w, Item("delta", w.block, w.active))

\* A new thinking block carries the signature if it is known by then.
WriteThinkingDelta(w, a) ==
    LET v == SwitchBlock(EnsureStarted(w), "thinking")
    IN  WriteDelta([v EXCEPT !.signed = @ \/ (a.signature /\ w.active # "thinking")])

WriteSignatureDelta(w) ==
    LET v == EnsureStarted(w)
    IN  IF w.signed THEN w
        ELSE IF v.active # "thinking" THEN v
        ELSE [WriteDelta(v) EXCEPT !.signed = TRUE]

WriteTextDelta(w) ==
    WriteDelta(SwitchBlock(FireVisibleOutput(EnsureStarted(w)), "text"))

WriteToolUse(w) ==
    WriteDelta(OpenBlock(CloseActiveBlock(FireVisibleOutput(EnsureStarted(w))), "tool_use"))

WriteRedacted(w) ==
    CloseActiveBlock(OpenBlock(CloseActiveBlock(EnsureStarted(w)), "redacted_thinking"))

WriteError(w) == Write(CloseActiveBlock(w), Plain("error"))

\* FinalizeStream on what is held: a max_tokens budget or a stop sequence may
\* cut it short ("cut") or leave nothing of it ("drop").  Once the adapter has
\* stopped the stream only the tag buffer's text still comes out.
Cuts(a) ==
    CASE a.held = "tag" -> IF a.localStop THEN {"whole", "drop"} ELSE {"whole", "cut", "drop"}
      [] a.held # "no" /\ a.localStop -> {"drop"}
      [] a.held # "no" -> {"whole", "cut"}
      [] OTHER -> {"whole"}

FlushesThink(a, cut) == a.held = "think" /\ cut # "drop"
FlushesText(a, cut) == a.held \in {"tag", "stop"} /\ cut # "drop"

\* SSEWriter.Finish.
FinishSSE(w, a, cut) ==
    LET s == EnsureStarted(w)
        t == IF FlushesThink(a, cut) THEN WriteThinkingDelta(s, a) ELSE s
        x == IF FlushesText(a, cut) THEN WriteTextDelta(t) ELSE t
        c == CloseActiveBlock(x)
    IN  Write(Write(c, Plain("message_delta")), Plain("message_stop"))

\* finalizeResult's effect on the accumulator.
FinishAcc(a, cut) ==
    [a EXCEPT !.think = @ \/ FlushesThink(a, cut),
              !.text = @ \/ FlushesText(a, cut),
              !.localStop = @ \/ cut # "whole",
              !.held = "no",
              !.finished = @ + 1]
-----------------------------------------------------------------------------
(***************************************************************************)
(* Events: responseAccumulator.ProcessEvent and SSEWriter.HandleEvent      *)
(***************************************************************************)

\* What an upstream event does to the accumulator.
ContentEvents ==
    {"text",         \* assistant text, emitted
     "textHold",     \* the same, its tail kept as a possible stop sequence
     "holdTag",      \* text that may be the start of a tag
     "holdStop",     \* text that may be the start of a stop sequence
     "holdThink",    \* thinking that may be the start of the closing tag
     "think",        \* reasoning, or a call of the thinking tool
     "tagThink",     \* text between thinking tags
     "thinkText",    \* the same, with the closing tag and text after it
     "thinkSigned",  \* reasoning with a signature
     "signature",    \* a reasoning signature on its own
     "redacted",     \* redacted reasoning
     "tool",         \* a complete tool_use with valid input
     "invalidTool",  \* a complete tool_use the validator rejects
     "meta"}         \* metadata, metering, context usage, partial tool_use
\* The same with a stop sequence found or the max_tokens budget reached.
StopEvents == {"textStop", "emptyStop", "thinkStop", "thinkTextStop", "toolStop"}
ErrorEvents == {"exception", "retryable", "final"}

ThinkEvents == {"think", "thinkSigned", "tagThink", "thinkStop"}
ThinkTextEvents == {"thinkText", "thinkTextStop"}
TextEvents == {"text", "textHold", "textStop"}

ProcessEvent(a, e) ==
    [a EXCEPT
       !.think = @ \/ e \in ThinkEvents \cup ThinkTextEvents,
       !.text = @ \/ e \in TextEvents \cup ThinkTextEvents,
       !.tool = @ \/ e \in {"tool", "toolStop"},
       !.invalid = @ \/ e = "invalidTool",
       !.signature = @ \/ e \in {"signature", "thinkSigned"},
       !.localStop = @ \/ e \in StopEvents,
       !.held = CASE e = "holdTag" -> "tag"
                  [] e \in {"holdStop", "textHold"} -> "stop"
                  [] e = "holdThink" -> "think"
                  [] e \in {"text", "textStop", "emptyStop", "tagThink"} \cup ThinkTextEvents -> "no"
                  [] OTHER -> @]

\* HandleEvent up to its Finish, given the accumulator after ProcessEvent.
HandleEvent(w, a, e) ==
    CASE e \in TextEvents -> WriteTextDelta(w)
      [] e \in ThinkEvents \ {"thinkSigned"} -> WriteThinkingDelta(w, a)
      [] e = "thinkSigned" -> WriteSignatureDelta(WriteThinkingDelta(w, a))
      [] e \in ThinkTextEvents -> WriteTextDelta(WriteThinkingDelta(w, a))
      [] e = "signature" -> WriteSignatureDelta(w)
      [] e = "redacted" -> WriteRedacted(w)
      [] e \in {"tool", "toolStop"} -> WriteToolUse(w)
      [] e \in ErrorEvents -> IF w.started THEN WriteError(w) ELSE w
      [] OTHER -> w

\* parseThinkingTags looks for tags only before any text; with stop sequences
\* the filter keeps a tail of all text from the first on.
Possible(e) ==
    /\ e \in {"holdTag", "holdThink", "tagThink"} \cup ThinkTextEvents =>
           ~acc.text /\ acc.held # "stop"
    /\ e = "holdStop" => ~acc.text
    /\ e = "text" => acc.held # "stop"
    /\ e = "textHold" => ~acc.text \/ acc.held = "stop"

\* The parser's callback in handleStreamingResponse.
StreamEvent(e) ==
    LET a == ProcessEvent(acc, e)
        v == HandleEvent(sse, a, e)
    IN  /\ pc = "events" /\ stream /\ stopped = "no" /\ events < MaxEvents
        /\ Possible(e)
        /\ events' = events + 1
        /\ IF e \in StopEvents
           THEN \E cut \in Cuts(a) : acc' = FinishAcc(a, cut) /\ sse' = FinishSSE(v, a, cut)
           ELSE acc' = a /\ sse' = v
        /\ fault' = IF e \in ErrorEvents THEN e ELSE fault
        /\ stopped' = IF sse'.writeErr \/ e \in ErrorEvents THEN "error"
                      ELSE IF e \in StopEvents THEN "local" ELSE "no"
        /\ pc' = IF stopped' = "no" THEN "events" ELSE "ended"
        /\ UNCHANGED <<stream, attempt, reason, first, parseErr, wire, gone, terminal, committed>>

\* The callback of handleNonStreamingResponse: only an error stops the parser.
BufferEvent(e) ==
    /\ pc = "events" /\ ~stream /\ events < MaxEvents
    /\ Possible(e)
    /\ ~acc.localStop \/ e \in ErrorEvents
    /\ events' = events + 1
    /\ acc' = ProcessEvent(acc, e)
    /\ fault' = IF e \in ErrorEvents THEN e ELSE fault
    /\ stopped' = IF e \in ErrorEvents THEN "error" ELSE "no"
    /\ pc' = IF stopped' = "no" THEN "events" ELSE "ended"
    /\ UNCHANGED <<stream, attempt, reason, first, sse, parseErr, wire, gone, terminal, committed>>

\* The stream ends, or reading it fails (also when the context is done).
StreamEnds ==
    /\ pc = "events"
    /\ parseErr' \in BOOLEAN
    /\ pc' = "ended"
    /\ UNCHANGED <<stream, attempt, reason, first, events, acc, sse, stopped, fault, wire, gone,
                   terminal, committed>>
-----------------------------------------------------------------------------
(***************************************************************************)
(* The end of an attempt                                                   *)
(***************************************************************************)

\* What the client has got from a gate: all of it once promoted.
SentBy(w) == IF w.promoted THEN w.out ELSE <<>>

JSONError == Plain("json_error")
JSONMessage == Plain("json_message")

IsEmptyVisibleEndTurn(a) == ~a.localStop /\ a.think /\ ~a.text /\ ~a.tool

\* The attempt is over: the client gets what passed the gate of w and then
\* `more`; r says why the attempt should be retried.
EndAttempt(w, more, r, a) ==
    /\ wire' = wire \o SentBy(w) \o more
    /\ sse' = FreshSSE
    /\ acc' = a
    /\ reason' = r
    /\ pc' = "retry"
    /\ UNCHANGED <<stream, attempt, first, events, stopped, fault, parseErr, gone, terminal>>

\* An error before the client has seen anything.
UpstreamFault == stopped = "error" /\ ~sse.promoted

\* handleUpstreamError: a retryable invalid state is silent, everything else
\* is answered.
EndUpstreamFault ==
    /\ pc = "ended" /\ UpstreamFault
    /\ IF fault = "retryable"
       THEN EndAttempt(sse, <<>>, "invalid_state", acc)
       ELSE EndAttempt(sse, <<JSONError>>, "none", acc)
    /\ UNCHANGED committed

\* Mutant: the error is lost once the stream is promoted.
EndParseErrorSilent ==
    /\ pc = "ended" /\ ~UpstreamFault /\ parseErr
    /\ EndAttempt(sse, IF sse.promoted THEN <<>> ELSE <<JSONError>>, "none", acc)
    /\ UNCHANGED committed

\* writeStreamingOrJSONError, or the plain error of the non-streaming path.
EndParseError ==
    /\ pc = "ended" /\ ~UpstreamFault /\ parseErr
    /\ IF sse.promoted
       THEN EndAttempt(WriteError(sse), <<>>, "none", acc)
       ELSE EndAttempt(sse, <<JSONError>>, "none", acc)
    /\ UNCHANGED committed

\* Mutant: the retry does not look at the gate.
WithholdsToolUnguarded(a) == a.invalid

\* Rejected tool calls are withheld while the client has seen nothing.
WithholdsTool(a) == a.invalid /\ ~sse.promoted

EndInvalidTool ==
    /\ pc = "ended" /\ ~UpstreamFault /\ ~parseErr
    /\ WithholdsTool(acc)
    /\ EndAttempt(sse, <<>>, "invalid_tool_use", acc)
    /\ UNCHANGED committed

\* Mutant: the stream is finished again after HandleEvent finished it.
FinishesUnlessBroken == stopped # "error"

\* Finish is left to the handler unless HandleEvent has called it or the stream
\* broke off.
FinishesHere == stopped = "no"

\* Mutant: the plan is committed whatever became of the stream.
CommitsAlways == TRUE

CommitsPlan == stopped # "error"

\* A thinking-only answer is discarded.
EndStreaming ==
    \E cut \in Cuts(acc) :
        LET a == IF FinishesHere THEN FinishAcc(acc, cut) ELSE acc
            w == IF FinishesHere THEN FinishSSE(sse, acc, cut) ELSE sse
        IN  /\ pc = "ended" /\ stream /\ ~UpstreamFault /\ ~parseErr /\ ~WithholdsTool(acc)
            /\ IF FinishesHere /\ IsEmptyVisibleEndTurn(a) /\ ~w.promoted
               THEN /\ EndAttempt(w, <<>>, "empty_visible_end_turn", a)
                    /\ UNCHANGED committed
               ELSE /\ EndAttempt(w, <<>>, "none", a)
                    /\ committed' = IF CommitsPlan THEN committed \cup {attempt} ELSE committed

\* BuildResponse, then the JSON body; without it nothing is committed.
EndNonStreaming ==
    \E cut \in Cuts(acc) :
        LET a == FinishAcc(acc, cut)
        IN  /\ pc = "ended" /\ ~stream /\ ~UpstreamFault /\ ~parseErr /\ ~WithholdsTool(acc)
            /\ IF IsEmptyVisibleEndTurn(a)
               THEN EndAttempt(sse, <<>>, "empty_visible_end_turn", a) /\ UNCHANGED committed
               ELSE /\ EndAttempt(sse, <<JSONMessage>>, "none", a)
                    /\ committed' = IF gone THEN committed ELSE committed \cup {attempt}
-----------------------------------------------------------------------------
(***************************************************************************)
(* callAndHandle's call and executeWithRetry                               *)
(***************************************************************************)

\* GenerateAssistantResponse returned a body to read.
CallSucceeds ==
    /\ pc = "call"
    /\ pc' = "events"
    /\ UNCHANGED <<stream, attempt, reason, first, events, acc, sse, stopped, fault, parseErr,
                   wire, gone, terminal, committed>>

Finished(more, err) ==
    /\ wire' = wire \o more
    /\ terminal' = err
    /\ pc' = "done"
    /\ UNCHANGED <<stream, attempt, reason, first, events, acc, sse, stopped, fault, parseErr,
                   gone, committed>>

CallFails == pc = "call" /\ Finished(<<JSONError>>, "error")

\* No reason to retry: the handler has answered, and the error is nil.
Accept == pc = "retry" /\ reason = "none" /\ Finished(<<>>, "nil")

\* Mutant: the retry is not limited to the first attempt.
RetryUnbounded ==
    /\ pc = "retry" /\ reason # "none"
    /\ attempt' = attempt + 1
    /\ first' = reason
    /\ reason' = "none"
    /\ pc' = "call"
    /\ events' = 0
    /\ acc' = FreshAcc
    /\ stopped' = "no"
    /\ fault' = "none"
    /\ parseErr' = FALSE
    /\ UNCHANGED <<stream, sse, wire, gone, terminal, committed>>

\* A second attempt: after prepareInvalidToolUseRetry, or with the
\* conversation id cleared.
Retry ==
    /\ pc = "retry" /\ reason # "none" /\ attempt = 1
    /\ attempt' = 2
    /\ first' = reason
    /\ reason' = "none"
    /\ pc' = "call"
    /\ events' = 0
    /\ acc' = FreshAcc
    /\ stopped' = "no"
    /\ fault' = "none"
    /\ parseErr' = FALSE
    /\ UNCHANGED <<stream, sse, wire, gone, terminal, committed>>

\* prepareInvalidToolUseRetry fails.
RetryUnprepared ==
    /\ pc = "retry" /\ attempt = 1 /\ reason = "invalid_tool_use"
    /\ Finished(<<JSONError>>, "error")

\* writeInvalidToolUseFallback: the rejected calls as a message.
FallbackMessage ==
    IF stream
    THEN <<Plain("start"), Item("open", 0, "tool_use"), Item("delta", 0, "tool_use"),
           Item("stop", 0, "tool_use"), Plain("message_delta"), Plain("message_stop")>>
    ELSE <<JSONMessage>>

\* The second attempt failed too.
GiveUp ==
    /\ pc = "retry" /\ reason # "none" /\ attempt = 2
    /\ IF first = "invalid_tool_use" /\ reason = "invalid_tool_use"
       THEN Finished(FallbackMessage, "error")
       ELSE Finished(<<JSONError>>, "error")

Disconnect ==
    /\ ~gone /\ pc # "done"
    /\ gone' = TRUE
    /\ UNCHANGED <<stream, pc, attempt, reason, first, events, acc, sse, stopped, fault,
                   parseErr, wire, terminal, committed>>

Next ==
    \/ CallSucceeds \/ CallFails
    \/ \E e \in ContentEvents \cup StopEvents \cup ErrorEvents : StreamEvent(e) \/ BufferEvent(e)
    \/ StreamEnds
    \/ EndUpstreamFault \/ EndParseError \/ EndInvalidTool \/ EndStreaming \/ EndNonStreaming
    \/ Accept \/ Retry \/ RetryUnprepared \/ GiveUp
    \/ Disconnect

Spec == Init /\ [][Next]_vars
-----------------------------------------------------------------------------
(***************************************************************************)
(* Properties                                                              *)
(***************************************************************************)

TypeOK ==
    /\ stream \in BOOLEAN
    /\ pc \in {"call", "events", "ended", "retry", "done"}
    /\ attempt \in 1..2
    /\ {reason, first} \subseteq {"none", "invalid_state", "invalid_tool_use", "empty_visible_end_turn"}
    /\ events \in 0..MaxEvents
    /\ acc.held \in {"no", "tag", "stop", "think"}
    /\ sse.active \in {"none", "text", "thinking", "tool_use", "redacted_thinking"}
    /\ sse.block >= -1
    /\ stopped \in {"no", "error", "local"}
    /\ fault \in {"none"} \cup ErrorEvents
    /\ {parseErr, gone} \subseteq BOOLEAN
    /\ terminal \in {"nil", "error"}
    /\ committed \subseteq {1, 2}

\* Everything the client has been sent.
Sent == wire \o SentBy(sse)

\* Which item may follow which in an Anthropic event stream: one message_start,
\* content blocks numbered from 0 that never overlap, then message_delta and
\* message_stop, or an error.
Follows(x, y) ==
    CASE x.kind \in {"start", "stop"} ->
           \/ y.kind = "open" /\ y.index = x.index + 1
           \/ y.kind \in {"message_delta", "error"}
      [] x.kind \in {"open", "delta"} ->
           y.kind \in {"delta", "stop"} /\ y.index = x.index /\ y.type = x.type
      [] x.kind = "message_delta" -> y.kind = "message_stop"
      [] OTHER -> FALSE

\* The client receives one well-formed answer, whatever is buffered, discarded,
\* retried or broken off behind the gate: a JSON body alone, or an event stream
\* in the order of the protocol with nothing after its end.
WireWellFormed ==
    /\ Sent # <<>> => Sent[1].kind \in {"start", "json_error", "json_message"}
    /\ \A n \in 2..Len(Sent) : Follows(Sent[n - 1], Sent[n])

\* A second upstream call is only made while the client has seen nothing of the
\* first attempt (GateWriter's "retry the upstream request transparently").
RetryIsInvisible == attempt = 2 /\ pc = "call" => Sent = <<>>

\* finalizeResult runs at most once per attempt (its comment: "this must be
\* called exactly once per stream"), and always before a message is closed.
FinalizedOnce ==
    /\ acc.finished <= 1
    /\ (\E n \in DOMAIN SentBy(sse) : SentBy(sse)[n].kind = "message_stop") => acc.finished = 1

\* An answer that has begun is brought to its end, unless the client left.
StartedIsEnded ==
    pc = "done" /\ ~gone /\ wire # <<>> =>
        Last(wire).kind \in {"message_stop", "error", "json_error", "json_message"}

\* The prompt-cache plan is committed for at most one attempt, the last one, and
\* never for an answer that carries an error.
CommitsOnlyCleanAnswers ==
    /\ committed \subseteq {attempt}
    /\ committed # {} => \A n \in DOMAIN wire : wire[n].kind \notin {"error", "json_error"}

\* executeWithRetry: the terminal error is "nil when the call ultimately
\* succeeded - letting the caller record the correct usage status".
SuccessMeansAnswered ==
    pc = "done" /\ ~gone /\ terminal = "nil" =>
        wire # <<>> /\ Last(wire).kind \in {"message_stop", "json_message"}
============================================================================
