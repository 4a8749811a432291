----------------------------- MODULE ClientStreams -----------------------------
(***************************************************************************)
(* One streamed answer, from the bytes of the upstream to the events that  *)
(* the client receives.                                                    *)
(*                                                                         *)
(*   upstream  --bytes-->  adapter  --provider events-->  translator       *)
(*                                                --client events-->       *)
(*                                                                         *)
(* The adapters (openai_sse_provider_stream, anthropic_sse_provider_stream)*)
(* cut the bytes into frames and parse them; the translators               *)
(* (format_*_provider_stream_response, one per protocol) turn each         *)
(* provider event into events of the client's protocol and keep what they  *)
(* need for the end.  All of it is pulled by the client: nothing is read   *)
(* from the upstream while an event waits to be sent.  A client that goes  *)
(* away drops the whole chain wherever it stands.                          *)
(*                                                                         *)
(* An orchestrated answer is streamed too, but complete (AnswerFormats);   *)
(* on a Responses WebSocket keepalives precede it.                         *)
(*                                                                         *)
(* The upstream is external: it may send any frames of its protocol, cut   *)
(* anywhere, report an error, close or break.  A frame has the number of   *)
(* its place in the stream, its text and its arguments are this number.    *)
(***************************************************************************)
EXTENDS AnswerFormats, FiniteSets

CONSTANTS OpenAiFrames,     \* frames an OpenAI compatible upstream sends
          AnthropicFrames,  \* frames an Anthropic compatible upstream sends
          Complete,         \* the complete answers that are streamed
          MaxWhole,         \* bound: pieces of an answer that comes whole
          MaxFrames,        \* bound: frames per stream
          MaxChunk,         \* bound: frames that one read of the upstream brings
          MaxCuts,          \* bound: frames that arrive in two pieces
          MaxKeepalives     \* bound: keepalives before a WebSocket answer

ASSUME BoundsAssumption == MaxWhole \in Nat /\ MaxFrames \in Nat /\ MaxCuts \in Nat /\ MaxChunk \in Nat \ {0}
                            /\ MaxKeepalives \in Nat
ASSUME CompleteAssumption == Complete \subseteq Answers

\* A frame is a record of its type, the index of its call, its text, whether it
\* has arguments, usage, and the reason to stop.  Usage, pings and errors have
\* neither text nor arguments.  A piece of Anthropic is text or arguments.
ASSUME FramesAssumption ==
    /\ \A f \in OpenAiFrames :
          /\ f.i \in Nat /\ f.text \in {"none", "word", "spaced", "space"} /\ f.args \in BOOLEAN
          /\ f.text # "none" \/ f.finish # "none" => f.type \notin {"usage", "other", "error"}
          /\ f.args => f.type = "call" \/ (f.type = "function" /\ f.i = 0)
    /\ \A f \in AnthropicFrames :
          /\ f.i \in Nat /\ f.text \in {"none", "word"} /\ f.args \in BOOLEAN
          /\ f.text # "none" \/ f.args => f.type = "delta"
          /\ f.type = "delta" => (f.text = "none" <=> f.args)

VARIABLES protocol,   \* what the client speaks
          upstream,   \* [kind, sent, cuts, state, reason, pieces, usage]
          buffer,     \* what the adapter holds of the bytes: [whole, part]
          ready,      \* provider events parsed and not yet taken
          stream,     \* the translator: see Fresh
          out,        \* the events that the client received
          client,     \* "reads", "ended" or "gone"
          stored,     \* the response that was stored, or NotStored
          told        \* the telemetry records that were emitted

streamVars == <<protocol, upstream, buffer, ready, stream, out, client, stored, told>>

Live == {"completion", "chat", "legacy", "messages", "responses"}
Blank == [type |-> "other", i |-> 0, text |-> "none", args |-> FALSE, usage |-> FALSE, finish |-> "none"]
NoPart == [f |-> Blank, form |-> "none"]

-----------------------------------------------------------------------------
(* Provider events, and how the adapters make them of a frame.             *)

ProviderEvent(k, i, p, r) == [k |-> k, i |-> i, p |-> p, r |-> r]
Nothing == <<0, "exact">>
TextDelta(p) == ProviderEvent("text", 0, p, "none")
ToolCallDelta(i, p) == ProviderEvent("call", i, p, "none")
Usage == ProviderEvent("usage", 0, Nothing, "none")
Finish(r) == ProviderEvent("finish", 0, Nothing, r)
Rejected == ProviderEvent("error", 0, Nothing, "none")

\* The text of a frame: "word", "spaced" (it starts with a space) or "space".
\* The adapter of OpenAI streams trims every delta (strip_thinking_markup).
OpenAiText(f, n, form) ==
    CASE f.text = "spaced" -> TextDelta(<<n, "trimmed">>)
      [] f.text = "space" -> TextDelta(Nothing)
      [] OTHER -> TextDelta(<<n, form>>)

\* openai_provider_finish_reason, anthropic_provider_finish_reason
OpenAiReason(r) == IF r \in {"stop", "tool_calls", "function_call", "length"} THEN r ELSE "other"
AnthropicReason(r) ==
    CASE r \in {"none", "end_turn", "stop_sequence"} -> "stop"
      [] r = "tool_use" -> "tool_calls"
      [] r = "max_tokens" -> "length"
      [] OTHER -> "other"

\* A chunk: first its usage, then the text, the call and the end of its first
\* choice.  "function_call": null in a delta counts as a call that says nothing.
OpenAiEvents(f, n, form) ==
    IF f.type = "error" THEN <<Rejected>>
    ELSE (IF f.usage THEN <<Usage>> ELSE <<>>)
         \o (IF f.text # "none" THEN <<OpenAiText(f, n, form)>> ELSE <<>>)
         \o (CASE f.type = "call" ->
                    <<ToolCallDelta(f.i, IF f.args THEN <<n, form>> ELSE Nothing)>>
               [] f.type = "function" ->
                    <<ToolCallDelta(0, IF f.args THEN <<n, form>> ELSE Nothing)>>
               [] f.type = "null" -> <<ToolCallDelta(0, Nothing)>>
               [] OTHER -> <<>>)
         \o (IF f.finish # "none" THEN <<Finish(OpenAiReason(f.finish))>> ELSE <<>>)

\* An event of the Messages protocol.  Pings, the ends of blocks, thinking and
\* message_stop say nothing; the reason to stop comes with message_delta.
BlockStart(f) == <<ToolCallDelta(f.i, Nothing)>>
BlockDelta(f, n, form) ==
    IF f.text # "none" THEN <<TextDelta(<<n, form>>)>> ELSE <<ToolCallDelta(f.i, <<n, form>>)>>

MessageDelta(f) ==
    (IF f.usage THEN <<Usage>> ELSE <<>>) \o <<Finish(AnthropicReason(f.finish))>>

AnthropicEvents(f, n, form) ==
    CASE f.type = "error" -> <<Rejected>>
      [] f.type = "tool_use" -> BlockStart(f)
      [] f.type = "delta" -> BlockDelta(f, n, form)
      [] f.type = "message_delta" -> MessageDelta(f)
      [] OTHER -> <<>>

\* provider_response_stream: a provider without streams of its own answers whole;
\* its texts are told only when it calls no tool.
EventsOfWhole(texts, calls, usage) ==
    (IF calls = 0 THEN [n \in 1..texts |-> TextDelta(<<n, "exact">>)]
     ELSE [n \in 1..calls |-> ToolCallDelta(n - 1, <<n, "exact">>)])
    \o (IF usage THEN <<Usage>> ELSE <<>>)
    \o <<Finish(IF calls = 0 THEN "stop" ELSE "tool_calls")>>

Parse(f, n, form) ==
    IF upstream.kind = "openai" THEN OpenAiEvents(f, n, form) ELSE AnthropicEvents(f, n, form)

-----------------------------------------------------------------------------
(* The translators.  A translator holds: the events to send, the usage, the*)
(* text and, per index, the arguments of the calls so far, which blocks it *)
(* opened, the next sequence number and what it has seen.                  *)

Fresh(pending) ==
    [pending |-> pending, usage |-> FALSE, text |-> <<>>, calls |-> <<>>, blocks |-> {},
     seq |-> 0, started |-> FALSE, tools |-> FALSE, finished |-> FALSE]

Push(s, e) == [s EXCEPT !.pending = Append(@, e)]
PushAll(s, es) == [s EXCEPT !.pending = @ \o es]

\* Responses events are numbered (next_sequence).
Say(s, e) == [Push(s, [e EXCEPT !.q = s.seq]) EXCEPT !.seq = @ + 1]
SayAll(s, es) ==
    [PushAll(s, [j \in 1..Len(es) |-> [es[j] EXCEPT !.q = s.seq + j - 1]])
        EXCEPT !.seq = @ + Len(es)]

Ended(s) == [s EXCEPT !.finished = TRUE]
SawTool(s) == [s EXCEPT !.tools = TRUE]

\* The calls are in a BTreeMap, which is walked in the order of its keys.
Sorted(T) ==
    CHOOSE q \in [1..Cardinality(T) -> T] : \A i, j \in 1..Cardinality(T) : i < j => q[i] < q[j]
Indexes(s) == Sorted(DOMAIN s.calls)
Arguments(s, i) == IF i \in DOMAIN s.calls THEN s.calls[i] ELSE <<>>
AddCall(s, i, p) ==
    LET args == IF p = Nothing THEN Arguments(s, i) ELSE Append(Arguments(s, i), p)
    IN  [s EXCEPT !.calls = [j \in DOMAIN @ \cup {i} |-> IF j = i THEN args ELSE @[j]]]

\* Chat Completions.  The older function_call has no index: the pieces of all
\* calls go to one.
ChatCall(s, e) ==
    IF protocol = "legacy" THEN Push(SawTool(s), Piece("function", ToolCall(0), e.p))
    ELSE Push(SawTool(s), Piece("call", ToolCall(e.i), e.p))

\* openai_finish_reason
ChatReason(s, r) ==
    LET tools == IF protocol = "legacy" THEN "function_call" ELSE "tool_calls"
    IN  CASE s.tools /\ r = "stop" -> tools
          [] r = "tool_calls" -> tools
          [] r = "other" -> "stop"
          [] OTHER -> r

OpenAiEnd(s, r) == Ended(Push(Push(s, Reason("finish", r)), Plain("[DONE]")))
OpenAiError(s) == Ended(Push(Push(s, Plain("error")), Plain("[DONE]")))

\* Legacy Completions: calls are not told.
CompletionReason(r) == IF r = "length" THEN "length" ELSE "stop"

-----------------------------------------------------------------------------
(* Anthropic Messages: a block is opened with its first piece and closed   *)
(* with the message.                                                       *)

\* Mutant of Opened: a block is not remembered as open.
OpenedAnew(s, b) == Push(s, About("block", b))

Opened(s, b) ==
    IF b \in s.blocks THEN s ELSE Push([s EXCEPT !.blocks = @ \cup {b}], About("block", b))

\* The text is told as block 0, a call as the block of its index (push_anthropic_
\* event): block 0 may be both, and is then started and stopped twice.  Here the
\* two have different names; SameItem compares what a client can see.
MessagesText(s, e) == Push(Opened(s, Text), Piece("delta", Text, e.p))

MessagesCall(s, e) ==
    LET opened == Opened(SawTool(s), ToolCall(e.i))
    IN  IF e.p = Nothing THEN opened ELSE Push(opened, Piece("delta", ToolCall(e.i), e.p))

\* close_open_blocks: the text first, then the calls by index.
CloseBlocks(s) ==
    LET calls == Sorted({b[2] : b \in s.blocks \ {Text}})
        text == IF Text \in s.blocks THEN <<About("stop", Text)>> ELSE <<>>
    IN  PushAll([s EXCEPT !.blocks = {}],
                text \o [j \in 1..Len(calls) |-> About("stop", ToolCall(calls[j]))])

MessagesEnd(s, r) ==
    Ended(Push(Push(CloseBlocks(s), Reason("finish", r)), Plain("message_stop")))

MessagesError(s) == Ended(Push(Push(CloseBlocks(s), Plain("error")), Plain("message_stop")))

\* anthropic_stop_reason
MessagesReason(s, r) ==
    CASE s.tools /\ r = "stop" -> "tool_use"
      [] r \in {"tool_calls", "function_call"} -> "tool_use"
      [] r = "length" -> "max_tokens"
      [] OTHER -> "end_turn"

-----------------------------------------------------------------------------
(* Responses.                                                              *)

\* ensure_created, ensure_text_output
Created(s) ==
    IF s.started THEN s
    ELSE Say(Say([s EXCEPT !.started = TRUE], Plain("created")), Plain("in_progress"))

TextAdded(s) ==
    IF Text \in s.blocks THEN s
    ELSE Say(Say([s EXCEPT !.blocks = @ \cup {Text}], About("added", Text)), About("part", Text))

\* The text has the output_index 0, a call its index: the same holds as for
\* MessagesText, but that the items also have ids, which differ.
ResponsesText(s, e) ==
    LET open == TextAdded(Created(s))
    IN  Say([open EXCEPT !.text = Append(@, e.p)], Piece("text", Text, e.p))

\* Mutant of ResponsesCall: the first piece of the arguments is kept but not sent.
ResponsesCallSilent(s, e) ==
    LET first == Arguments(s, e.i) = <<>>
        open == AddCall(SawTool(Created(s)), e.i, e.p)
    IN  Say(open, IF first THEN About("added", ToolCall(e.i)) ELSE Piece("args", ToolCall(e.i), e.p))

\* A call is added, and added again, as long as its arguments are empty.
ResponsesCall(s, e) ==
    LET first == Arguments(s, e.i) = <<>>
        open == AddCall(SawTool(Created(s)), e.i, e.p)
        added == IF first THEN Say(open, About("added", ToolCall(e.i))) ELSE open
    IN  IF e.p = Nothing THEN added ELSE Say(added, Piece("args", ToolCall(e.i), e.p))

\* finish_text, finish_tool_calls: once a call was seen the text is not done.
TextDone(s) ==
    Say(Say(Say(TextAdded(s), About("text.done", Text)), About("part.done", Text)), About("done", Text))

CallsDone(s) ==
    SayAll(s, FlattenSeq([j \in 1..Len(Indexes(s)) |->
        <<About("args.done", ToolCall(Indexes(s)[j])), About("done", ToolCall(Indexes(s)[j]))>>]))

\* finish: an answer that cannot be stored is completed all the same.
ResponsesEnd(s, storing) ==
    LET done == IF s.tools THEN CallsDone(Created(s)) ELSE TextDone(Created(s))
        reported == IF storing = "fails" THEN Push(done, Plain("error")) ELSE done
    IN  Ended(Push(Say(reported, Plain("completed")), Plain("[DONE]")))

\* The translator as finish leaves it, as far as it is stored.
TextAddedOrCalls(s) == IF s.tools THEN s ELSE TextAdded(s)

\* Mutant of ToStore: the text is stored even when calls were streamed after it.
ToStoreText(s) == [text |-> s.text, calls |-> IF s.text # <<>> THEN <<>> ELSE s.calls]

\* What is stored of the answer, for the conversation and in the output of the
\* response: its calls, or its text when it made none.
ToStore(s) == [text |-> IF s.tools THEN <<>> ELSE s.text, calls |-> s.calls]
CurrentOutput(s) ==
    IF s.tools THEN [j \in 1..Len(Indexes(s)) |-> ToolCall(Indexes(s)[j])]
    ELSE IF Text \in s.blocks THEN <<Text>> ELSE <<>>

ResponsesError(s) == Ended(Push(Push(Say(s, Plain("failed")), Plain("error")), Plain("[DONE]")))

-----------------------------------------------------------------------------
(* A provider event, the end of the provider stream and its failure, to    *)
(* the translator of the protocol.                                         *)

OnText(s, e) ==
    IF e.p = Nothing THEN s
    ELSE CASE protocol = "messages" -> MessagesText(s, e)
           [] protocol = "responses" -> ResponsesText(s, e)
           [] OTHER -> Push(s, Piece("text", Text, e.p))

OnCall(s, e) ==
    CASE protocol = "completion" -> s
      [] protocol = "messages" -> MessagesCall(s, e)
      [] protocol = "responses" -> ResponsesCall(s, e)
      [] OTHER -> ChatCall(s, e)

OnFinish(s, r, storing) ==
    CASE protocol = "completion" -> OpenAiEnd(s, CompletionReason(r))
      [] protocol = "messages" -> MessagesEnd(s, MessagesReason(s, r))
      [] protocol = "responses" -> ResponsesEnd(s, storing)
      [] OTHER -> OpenAiEnd(s, ChatReason(s, r))

\* Mutant of OnEnd: only a finish reason ends a legacy completion.
OnEndSilent(s, storing) ==
    CASE protocol = "completion" -> s
      [] protocol = "messages" -> MessagesEnd(s, "end_turn")
      [] protocol = "responses" -> ResponsesEnd(s, storing)
      [] OTHER -> OpenAiEnd(s, "stop")

\* A stream that ends without saying why has stopped, whatever it told.
OnEnd(s, storing) ==
    CASE protocol = "messages" -> MessagesEnd(s, "end_turn")
      [] protocol = "responses" -> ResponsesEnd(s, storing)
      [] OTHER -> OpenAiEnd(s, "stop")

OnError(s) ==
    CASE protocol = "messages" -> MessagesError(s)
      [] protocol = "responses" -> ResponsesError(s)
      [] OTHER -> OpenAiError(s)

-----------------------------------------------------------------------------
(* The steps.                                                              *)

NotStored == [text |-> <<>>, calls |-> <<>>, output |-> <<>>, none |-> TRUE]
Stored(s) == [text |-> ToStore(s).text, calls |-> ToStore(s).calls,
              output |-> CurrentOutput(s), none |-> FALSE]

\* A new stream: chat and messages begin with an event of their own.
Begin(p) ==
    Fresh(CASE p \in {"chat", "legacy"} -> <<Plain("role")>>
            [] p = "messages" -> <<Plain("start")>>
            [] OTHER -> <<>>)

\* The upstream of EventsOfWhole: nothing more comes from it.
Whole(texts, calls, usage) ==
    [kind |-> "whole", sent |-> 0, cuts |-> 0, state |-> "closed", usage |-> usage,
     reason |-> IF calls = 0 THEN "stop" ELSE "tool_calls",
     pieces |-> IF calls = 0 THEN [n \in 1..texts |-> <<Text, n>>]
                ELSE [n \in 1..calls |-> <<ToolCall(n - 1), n>>]]

NoUpstream == [kind |-> "none", sent |-> 0, cuts |-> 0, state |-> "closed", reason |-> "none",
               pieces |-> <<>>, usage |-> FALSE]

StreamsInit ==
    /\ \/ /\ protocol \in Live
          /\ stream = Begin(protocol)
          /\ \/ /\ \E kind \in {"openai", "anthropic"} :
                     upstream = [NoUpstream EXCEPT !.kind = kind, !.state = "open"]
                /\ ready = <<>>
             \/ \E texts, calls \in 0..MaxWhole, usage \in BOOLEAN :
                   /\ upstream = Whole(texts, calls, usage)
                   /\ ready = EventsOfWhole(texts, calls, usage)
       \/ /\ protocol \in Protocols
          /\ \E o \in Complete : /\ protocol \in BuiltIn => BuiltInAnswer(o)
                                 /\ stream = Ended(Fresh(EventsOf(protocol, o)))
          /\ upstream = NoUpstream /\ ready = <<>>
    /\ buffer = [whole |-> <<>>, part |-> NoPart]
    /\ out = <<>> /\ told = <<>>
    /\ client = "reads"
    /\ stored = NotStored

\* The client pulls the next event; with none to send the translator pulls the
\* adapter, and the adapter without a frame pulls the upstream.
Pulled == client = "reads" /\ stream.pending = <<>> /\ ~stream.finished
Polled == Pulled /\ ready = <<>> /\ buffer.whole = <<>>

Frames == IF upstream.kind = "openai" THEN OpenAiFrames ELSE AnthropicFrames

\* After its last piece an upstream sends its usage, pings and marks of the end.
MaySend(f) ==
    /\ upstream.state = "open" /\ upstream.sent < MaxFrames
    /\ upstream.reason # "none" => f.type \in {"usage", "other", "error"}

\* What frame number n says, by its number.  White space alone says nothing: the
\* adapter of OpenAI streams drops it (OpenAiText), and a client never gets it.
Pieces(f, n) ==
    (IF f.text \in {"word", "spaced"} THEN <<<<Text, n>>>> ELSE <<>>)
    \o (IF f.args THEN <<<<ToolCall(f.i), n>>>> ELSE <<>>)

\* The upstream once frame f is whole.
Counted(f, n) ==
    [upstream EXCEPT
        !.sent = n,
        !.reason = CASE upstream.kind = "openai" /\ f.finish # "none" -> OpenAiReason(f.finish)
                     [] upstream.kind = "anthropic" /\ f.type = "message_delta" -> AnthropicReason(f.finish)
                     [] OTHER -> @,
        !.usage = @ \/ f.usage,
        !.pieces = @ \o Pieces(f, n)]

\* A read of the upstream may bring more frames than one.
SendFrame(f) ==
    /\ Pulled /\ ready = <<>> /\ Len(buffer.whole) < MaxChunk
    /\ MaySend(f) /\ buffer.part = NoPart
    /\ upstream' = Counted(f, upstream.sent + 1)
    /\ buffer' = [buffer EXCEPT !.whole = Append(@, [f |-> f, n |-> upstream.sent + 1,
                                                    form |-> "exact"])]
    /\ UNCHANGED <<protocol, ready, stream, out, client, stored, told>>

\* The first piece of a frame.  Each piece is decoded on its own: a character
\* cut in two is replaced.
SendHead(f) ==
    /\ Polled /\ MaySend(f) /\ buffer.part = NoPart /\ upstream.cuts < MaxCuts
    /\ \E form \in {"exact", "garbled"} : buffer' = [buffer EXCEPT !.part = [f |-> f, form |-> form]]
    /\ upstream' = [upstream EXCEPT !.cuts = @ + 1]
    /\ UNCHANGED <<protocol, ready, stream, out, client, stored, told>>

SendTail ==
    /\ Polled /\ upstream.state = "open" /\ buffer.part # NoPart
    /\ upstream' = Counted(buffer.part.f, upstream.sent + 1)
    /\ buffer' = [whole |-> <<[f |-> buffer.part.f, n |-> upstream.sent + 1,
                               form |-> buffer.part.form]>>, part |-> NoPart]
    /\ UNCHANGED <<protocol, ready, stream, out, client, stored, told>>

\* pop_sse_frame and the parser.
ParseFrame ==
    /\ Pulled /\ ready = <<>> /\ buffer.whole # <<>>
    /\ LET frame == Head(buffer.whole) IN ready' = Parse(frame.f, frame.n, frame.form)
    /\ buffer' = [buffer EXCEPT !.whole = Tail(@)]
    /\ UNCHANGED <<protocol, upstream, stream, out, client, stored, told>>

\* The upstream closes.  A piece left in the buffer is parsed as a frame: it is
\* one that only lacks its blank line, or no JSON, or has no data yet.
Close ==
    /\ Polled /\ upstream.state = "open"
    /\ \/ /\ buffer.part = NoPart
          /\ upstream' = [upstream EXCEPT !.state = "closed"] /\ UNCHANGED ready
       \/ /\ buffer.part # NoPart
          /\ \/ /\ upstream' = [Counted(buffer.part.f, upstream.sent + 1) EXCEPT !.state = "closed"]
                /\ ready' = Parse(buffer.part.f, upstream.sent + 1, buffer.part.form)
             \/ /\ upstream' = [upstream EXCEPT !.state = "closed"]
                /\ ready' \in {<<>>, <<Rejected>>}
    /\ buffer' = [buffer EXCEPT !.part = NoPart]
    /\ UNCHANGED <<protocol, stream, out, client, stored, told>>

\* The connection to the upstream breaks.
Break ==
    /\ Polled /\ upstream.state = "open"
    /\ upstream' = [upstream EXCEPT !.state = "broken"]
    /\ ready' = <<Rejected>>
    /\ UNCHANGED <<protocol, buffer, stream, out, client, stored, told>>

\* emit_stream_telemetry: once.
Record(usage, failed) ==
    told' = IF told = <<>> THEN <<[usage |-> usage, failed |-> failed]>> ELSE told

\* A stored response: as asked, unless the store fails or was not asked to.
Store(s, storing) ==
    stored' = IF protocol = "responses" /\ storing = "stores" THEN Stored(TextAddedOrCalls(s)) ELSE stored

Storing == IF protocol = "responses" THEN {"stores", "fails", "off"} ELSE {"off"}

\* The translator takes the next provider event.
TakeEvent ==
    /\ Pulled /\ ready # <<>>
    /\ LET e == Head(ready) IN
       \/ /\ e.k = "text" /\ stream' = OnText(stream, e) /\ UNCHANGED <<stored, told>>
       \/ /\ e.k = "call" /\ stream' = OnCall(stream, e) /\ UNCHANGED <<stored, told>>
       \/ /\ e.k = "usage" /\ stream' = [stream EXCEPT !.usage = TRUE] /\ UNCHANGED <<stored, told>>
       \/ /\ e.k = "error" /\ stream' = OnError(stream) /\ Record(stream.usage, TRUE)
          /\ UNCHANGED stored
       \/ /\ e.k = "finish"
          /\ \E storing \in Storing : stream' = OnFinish(stream, e.r, storing) /\ Store(stream, storing)
          /\ Record(stream.usage, FALSE)
    /\ ready' = Tail(ready)
    /\ UNCHANGED <<protocol, upstream, buffer, out, client>>

\* The provider stream ends.
TakeEnd ==
    /\ Polled /\ upstream.state = "closed"
    /\ \E storing \in Storing : stream' = OnEnd(stream, storing) /\ Store(stream, storing)
    /\ Record(stream.usage, FALSE)
    /\ UNCHANGED <<protocol, upstream, buffer, ready, out, client>>

\* The WebSocket is kept alive until the answer is there.
KeepAlive ==
    /\ protocol = "websocket" /\ client = "reads"
    /\ Len(out) < MaxKeepalives /\ \A j \in 1..Len(out) : out[j].k = "keepalive"
    /\ out' = Append(out, Keepalive(Len(out)))
    /\ UNCHANGED <<protocol, upstream, buffer, ready, stream, client, stored, told>>

Send ==
    /\ client = "reads" /\ stream.pending # <<>>
    /\ out' = Append(out, Head(stream.pending))
    /\ stream' = [stream EXCEPT !.pending = Tail(@)]
    /\ UNCHANGED <<protocol, upstream, buffer, ready, client, stored, told>>

\* The body ends.
End ==
    /\ client = "reads" /\ stream.pending = <<>> /\ stream.finished
    /\ client' = "ended"
    /\ UNCHANGED <<protocol, upstream, buffer, ready, stream, out, stored, told>>

Leave ==
    /\ client = "reads"
    /\ client' = "gone"
    /\ UNCHANGED <<protocol, upstream, buffer, ready, stream, out, stored, told>>

Gateway == ParseFrame \/ TakeEvent \/ TakeEnd \/ Send \/ End
Upstream == Close \/ Break \/ SendTail \/ \E f \in Frames : SendFrame(f) \/ SendHead(f)
StreamsNext == Gateway \/ Upstream \/ KeepAlive \/ Leave
StreamsSpec == StreamsInit /\ [][StreamsNext]_streamVars

\* The gateway polls what is ready, and an upstream that is polled goes on,
\* closes or breaks.
FairStreamsSpec == StreamsSpec /\ WF_streamVars(Gateway) /\ WF_streamVars(Upstream)

-----------------------------------------------------------------------------
(* What a client can rely on.                                              *)

Has(events, k) == \E j \in 1..Len(events) : events[j].k = k
Failed == Has(out, "error") \/ Has(out, "failed")
WasLive == upstream.kind # "none"

Opening == {"block", "added"}
Closing == {"stop", "done"}
Inside == {"text", "args", "delta", "part", "text.done", "args.done", "part.done"}
HasItems == protocol \in {"messages", "builtin_messages", "responses", "websocket"}

\* The last event of a protocol.
Terminal == CASE protocol \in {"messages", "builtin_messages"} -> "message_stop"
              [] protocol = "websocket" -> "completed"
              [] OTHER -> "[DONE]"

\* On the wire a block or item has only its number.  A live stream gives the text
\* the number 0 and a call the one of the upstream, which may be 0 too.
SharesNumber(events) ==
    \E i, j \in 1..Len(events) : /\ events[i].k \in Opening /\ events[j].k \in Opening
                                 /\ events[i].b = Text /\ events[j].b = ToolCall(0)

SameItem(a, b, shared) == a[2] = b[2] /\ (shared => a[1] = b[1])

\* What may follow the events in earlier: an item gets content only between its
\* opening and its closing, is closed once and not opened again.  A block of a
\* message is opened once, an item of Responses may be added twice.
Follows(earlier, e, shared) ==
    LET Before(kinds) == \E o \in earlier : o.k \in kinds /\ SameItem(o.b, e.b, shared)
    IN  /\ e.k \in Inside \cup Closing => Before(Opening)
        /\ e.k \in Opening \cup Inside \cup Closing => ~Before(Closing)
        /\ e.k = "block" => ~Before({"block"})

ItemsInOrder(events) ==
    \A j \in 1..Len(events) :
        Follows({events[i] : i \in 1..(j - 1)}, events[j], SharesNumber(events))

\* All but the events that have no number.
Numbered(events) == Leaving(events, {"keepalive", "error", "[DONE]"})

\* The events of a stream are a sentence of its protocol, in what is sent and
\* in what waits to be sent: nothing follows the last event, the items are in
\* order, and the numbers of the Responses events grow.  The client
\* libraries parse the streams strictly
\* (format_*_provider_stream_response, format_*_stream_response).  One exception:
\* text before or after a call with the number 0, which is the first of every
\* OpenAI upstream, is told under the same number, and a client can tell the two
\* apart only by the type of what they carry; there each is in order by itself.
EventsInOrder ==
    LET all == out \o stream.pending
        numbered == Numbered(all)
    IN  /\ \A j \in 1..Len(all) : all[j].k = Terminal => j = Len(all)
        /\ HasItems => ItemsInOrder(all)
        /\ protocol \in {"responses", "websocket"} =>
             \A j \in 2..Len(numbered) : numbered[j - 1].q < numbered[j].q
        /\ protocol = "responses" /\ WasLive =>
             \A j \in 1..Len(numbered) : numbered[j].q = j - 1

\* The pieces that a client of the protocol is told: legacy completions tell no
\* calls, the older function_call is one call.
Shown(piece) ==
    IF piece[1] = Text THEN <<piece>>
    ELSE CASE protocol = "completion" -> <<>>
           [] protocol = "legacy" -> <<<<ToolCall(0), piece[2]>>>>
           [] OTHER -> <<piece>>

Promised(pieces) == FlattenSeq([j \in 1..Len(pieces) |-> Shown(pieces[j])])

\* A stream that ended and reported no error left nothing out and changed no
\* order: the client has every piece of text and every piece of the arguments
\* of each call that its upstream sent, and what it saw open is closed; only
\* legacy completions tell no calls, and Responses leave the text open when
\* calls came with it.  A frame may come in pieces, the upstream may close
\* without saying why it finished (TakeEvent, ParseFrame, close_open_blocks).
NothingLost ==
    (client = "ended" /\ WasLive /\ ~Failed) =>
        /\ Heard(out) = Promised(upstream.pieces)
        /\ HasItems =>
             \A j \in 1..Len(out) :
                out[j].k \in Opening /\ ~(out[j].b = Text /\ protocol = "responses" /\ stream.tools) =>
                   \E m \in 1..Len(out) : out[m].k \in Closing /\ out[m].b = out[j].b

\* What is stored for previous_response_id is what was streamed, no more and no
\* less: the calls with all their arguments, or the text.  Nothing is stored of
\* a stream that failed, or before its last provider event, so a client that
\* finds the response has missed none of it (finish, maybe_store_openai_response).
StoredIsStreamed ==
    ~stored.none =>
        LET all == out \o stream.pending
        IN  /\ stream.finished /\ Has(all, "completed") /\ ~Has(all, "failed")
            /\ \A i \in DOMAIN stored.calls : stored.calls[i] = Gather(all, {ToolCall(i)})
            /\ \A j \in 1..Len(all) :
                  all[j].k = "args" => \E i \in DOMAIN stored.calls : all[j].b = ToolCall(i)
            /\ ~stream.tools => stored.text = Gather(all, {Text})
            /\ \A j \in 1..Len(stored.output) :
                  \E i \in 1..Len(all) : all[i].k = "done" /\ all[i].b = stored.output[j]

\* The reason a stream gives for its end agrees with what it told: a client is
\* sent to run tools only if calls were told or the upstream said so itself,
\* and whenever calls were told and the upstream stopped for an ordinary reason
\* (openai_finish_reason, anthropic_stop_reason).
FinishTellsTools ==
    (client = "ended" /\ WasLive /\ ~Failed /\ protocol \in {"chat", "legacy", "messages"}) =>
        LET reason == Last(Finishes(out))
            toRun == reason \in {"tool_calls", "function_call", "tool_use"}
        IN  /\ toRun => stream.tools \/ upstream.reason \in {"tool_calls", "function_call"}
            /\ stream.tools /\ upstream.reason \in {"stop", "tool_calls"} => toRun

\* What a client is told, it is told in order and to its end.
ToldRight == EventsInOrder /\ FinishTellsTools

\* A complete answer is the same as a stream and as a JSON value: the text, the
\* calls, the summary and the reason to stop (format_openai_response and
\* format_openai_stream_response, format_anthropic_response and
\* format_anthropic_stream_response, openai_responses_output_items and
\* openai_responses_output_event_values, the two of legacy completions).
SameAnswer ==
    (client = "ended" /\ ~WasLive) =>
        \E o \in Complete :
            LET json == Json(protocol, o)
            IN  /\ Leaving(out, {"keepalive"}) = EventsOf(protocol, o)
                /\ Gather(out, {"text"} \X Nat) = json.text
                /\ Gather(out, {"call"} \X Nat) = json.calls
                /\ Gather(out, {"thinking"} \X Nat) = json.summary
                /\ Finishes(out) = <<json.finish>>

\* A stream ends or its client leaves.
EveryStreamEnds == <>(client \in {"ended", "gone"})

=============================================================================
