----------------------------- MODULE AnswerFormats -----------------------------
(***************************************************************************)
(* The four protocols in which the gateway answers                         *)
(* (crates/api-server/src/lib.rs): legacy Completions, Chat Completions    *)
(* (with tool calls, or with the older function_call), Anthropic Messages  *)
(* and Responses.  A complete answer of the kernel is told as one JSON     *)
(* value or, to a client that asked for a stream, as a sequence of         *)
(* server-sent events; the Responses WebSocket sends the same events.      *)
(*                                                                         *)
(* An answer carries payloads, not characters: a payload is a pair of the  *)
(* number of the piece and of its form, which only a piece that was        *)
(* damaged on its way has other than "exact".                              *)
(***************************************************************************)
EXTENDS Naturals, Sequences, SequencesExt

\* A client event: its kind, the block or output item that it is about, what
\* it carries and its sequence number (Responses only).
Event(k, b, p, q) == [k |-> k, b |-> b, p |-> p, q |-> q]
Plain(k) == Event(k, <<"none", 0>>, <<0, "exact">>, 0)
About(k, b) == Event(k, b, <<0, "exact">>, 0)
Piece(k, b, p) == Event(k, b, p, 0)
Reason(k, r) == Event(k, <<"none", 0>>, <<0, r>>, 0)

Text == <<"text", 0>>
ToolCall(i) == <<"call", i>>
Thinking == <<"thinking", 0>>

\* What a kernel run returns (KernelOutput), as far as the formats tell answers
\* apart: the final text is empty, prose or a tool call written as text; the
\* verification passed or not; the root made some calls and some are
\* unresolved; a public summary of the reasoning was asked for.
Answers == {o \in [text : {"none", "prose", "call"}, passed : BOOLEAN, calls : 0..2,
                   unresolved : BOOLEAN, summary : BOOLEAN] :
               o.unresolved => o.calls > 0}

TextPayload == <<9, "exact">>
CallPayload(j) == <<j, "exact">>
TextCallPayload == <<8, "exact">>
SummaryPayload == <<7, "exact">>

\* What a format shows of an answer.
IsTextCall(o) == o.passed /\ o.text = "call"
ShowsText(o) == ~o.unresolved /\ o.text # "none"
Indices(n) == [j \in 1..n |-> j - 1]

\* The calls that are told: the one written as text, or those of the root.
ToldCalls(o) == IF IsTextCall(o) THEN <<TextCallPayload>> ELSE [j \in 1..o.calls |-> CallPayload(j)]

\* What a JSON value says: text, calls, summary and the reason it ended.
Value(text, calls, summary, finish) ==
    [text |-> text, calls |-> calls, summary |-> summary, finish |-> finish]

Summary(o) == IF o.summary THEN <<SummaryPayload>> ELSE <<>>

-----------------------------------------------------------------------------
(* Chat Completions.                                                       *)

\* The first call, or a made-up one when there is none.
Function(o) == IF ToldCalls(o) = <<>> THEN <<6, "unknown">> ELSE Head(ToldCalls(o))

ChatJson(o, legacy) ==
    CASE ~IsTextCall(o) /\ ShowsText(o) -> Value(<<TextPayload>>, <<>>, Summary(o), "stop")
      [] legacy /\ (IsTextCall(o) \/ ~ShowsText(o)) ->
            Value(<<>>, <<Function(o)>>, Summary(o), "function_call")
      [] OTHER -> Value(<<>>, ToldCalls(o), Summary(o), "tool_calls")

\* One chunk carries the deltas of all calls, each with its index.
ChatBody(o, legacy) ==
    LET summary == IF o.summary THEN <<Piece("reasoning", Thinking, SummaryPayload)>> ELSE <<>>
        told == CASE ~IsTextCall(o) /\ ShowsText(o) ->
                       <<Piece("text", Text, TextPayload), Reason("finish", "stop")>>
                  [] legacy /\ (IsTextCall(o) \/ ~ShowsText(o)) ->
                       <<Piece("function", ToolCall(0), Function(o)), Reason("finish", "function_call")>>
                  [] OTHER ->
                       [j \in 1..Len(ToldCalls(o)) |-> Piece("call", ToolCall(j - 1), ToldCalls(o)[j])]
                       \o <<Reason("finish", "tool_calls")>>
    IN  <<Plain("role")>> \o summary \o told \o <<Plain("[DONE]")>>

-----------------------------------------------------------------------------
(* Legacy Completions: always the text, calls are not told.  A summary is  *)
(* written in front of the text.                                           *)

CompletionText(o) ==
    Summary(o) \o (IF o.text = "none" THEN <<>>
                   ELSE <<IF o.text = "call" THEN TextCallPayload ELSE TextPayload>>)

CompletionJson(o) == Value(CompletionText(o), <<>>, <<>>, "stop")

CompletionBody(o) ==
    [j \in 1..Len(CompletionText(o)) |-> Piece("text", Text, CompletionText(o)[j])]
    \o <<Reason("finish", "stop"), Plain("[DONE]")>>

-----------------------------------------------------------------------------
(* Anthropic Messages: numbered blocks, a tool call written as text stays  *)
(* text.                                                                   *)

MessageText(o) == IF o.text = "call" THEN TextCallPayload ELSE TextPayload

MessageJson(o) ==
    IF ShowsText(o) THEN Value(<<MessageText(o)>>, <<>>, Summary(o), "end_turn")
    ELSE Value(<<>>, [j \in 1..o.calls |-> CallPayload(j)], Summary(o), "tool_use")

Block(b, p) == <<About("block", b), Piece("delta", b, p), About("stop", b)>>
ThinkingBlock == Block(Thinking, SummaryPayload)

MessageBody(o) ==
    LET at == IF o.summary THEN 1 ELSE 0
        thinking == IF o.summary THEN ThinkingBlock ELSE <<>>
        told == IF ShowsText(o)
                THEN Block(<<"text", at>>, MessageText(o)) \o <<Reason("finish", "end_turn")>>
                ELSE FlattenSeq([j \in 1..o.calls |-> Block(ToolCall(at + j - 1), CallPayload(j))])
                     \o <<Reason("finish", "tool_use")>>
    IN  <<Plain("start")>> \o thinking \o told \o <<Plain("message_stop")>>

-----------------------------------------------------------------------------
(* Responses: the output items of the value, then the same items as events.*)

\* The output items and what they carry.
ResponseItems(o) ==
    (IF o.summary THEN <<[t |-> "thinking", p |-> SummaryPayload]>> ELSE <<>>)
    \o IF ~IsTextCall(o) /\ ShowsText(o) THEN <<[t |-> "text", p |-> TextPayload]>>
       ELSE [j \in 1..Len(ToldCalls(o)) |-> [t |-> "call", p |-> ToldCalls(o)[j]]]

Payloads(items, t) ==
    FlattenSeq([j \in 1..Len(items) |-> IF items[j].t = t THEN <<items[j].p>> ELSE <<>>])

ResponseJson(o) ==
    Value(Payloads(ResponseItems(o), "text"), Payloads(ResponseItems(o), "call"),
          Payloads(ResponseItems(o), "thinking"), "completed")

\* Mutant of ItemEvents: the arguments of a call are done without having been sent.
ItemEventsSilent(x, i) ==
    LET b == <<x.t, i>>
    IN  CASE x.t = "text" -> <<About("added", b), About("part", b), Piece("text", b, x.p),
                               About("text.done", b), About("part.done", b), About("done", b)>>
          [] x.t = "call" -> <<About("added", b), About("args.done", b), About("done", b)>>
          [] OTHER -> <<About("added", b), Piece("done", b, x.p)>>

\* The events of one item; an item of another type is only added and done, and
\* carries its content in these.
ItemEvents(x, i) ==
    LET b == <<x.t, i>>
    IN  CASE x.t = "text" -> <<About("added", b), About("part", b), Piece("text", b, x.p),
                               About("text.done", b), About("part.done", b), About("done", b)>>
          [] x.t = "call" -> <<About("added", b), Piece("args", b, x.p), About("args.done", b),
                               About("done", b)>>
          [] OTHER -> <<About("added", b), Piece("done", b, x.p)>>

\* The body of the stream: the items are numbered from 1, the last event has
\* the same number however many there are.
LastNumber == 10000
ResponseEvents(o) ==
    LET items == ResponseItems(o)
        events == FlattenSeq([j \in 1..Len(items) |-> ItemEvents(items[j], j - 1)])
    IN  <<Plain("created")>>
        \o [j \in 1..Len(events) |-> [events[j] EXCEPT !.q = j]]
        \o <<[Plain("completed") EXCEPT !.q = LastNumber]>>

ResponseBody(o) == ResponseEvents(o) \o <<Plain("[DONE]")>>

\* A keepalive of the WebSocket while the answer is awaited.
Keepalive(n) == [Plain("keepalive") EXCEPT !.q = 1000 + n]

-----------------------------------------------------------------------------
(* The built-in backend, for a gateway without a provider: a direct request *)
(* that asks for a tool is answered with one call, any other with text.  It *)
(* makes the JSON value, and its stream from this value.                    *)

BuiltInAnswer(o) ==
    /\ o.passed /\ ~o.summary
    /\ \/ o.text = "prose" /\ o.calls = 0
       \/ o.text = "none" /\ o.calls = 1 /\ o.unresolved

BuiltInChat(o) ==
    IF o.calls > 0 THEN Value(<<>>, <<CallPayload(1)>>, <<>>, "tool_calls")
    ELSE Value(<<TextPayload>>, <<>>, <<>>, "stop")

BuiltInMessage(o) ==
    IF o.calls > 0 THEN Value(<<>>, <<CallPayload(1)>>, <<>>, "tool_use")
    ELSE Value(<<TextPayload>>, <<>>, <<>>, "end_turn")

\* Calls take the place of the text, and the reason is found anew.
StreamOfChat(v) ==
    <<Plain("role")>>
    \o (IF v.calls # <<>>
        THEN [j \in 1..Len(v.calls) |-> Piece("call", ToolCall(j - 1), v.calls[j])]
             \o <<Reason("finish", "tool_calls")>>
        ELSE [j \in 1..Len(v.text) |-> Piece("text", Text, v.text[j])] \o <<Reason("finish", "stop")>>)
    \o <<Plain("[DONE]")>>

\* Every block of the content is told at its place.
StreamOfMessage(v) ==
    <<Plain("start")>>
    \o FlattenSeq([j \in 1..Len(v.text) |-> Block(<<"text", j - 1>>, v.text[j])])
    \o FlattenSeq([j \in 1..Len(v.calls) |-> Block(ToolCall(Len(v.text) + j - 1), v.calls[j])])
    \o <<Reason("finish", IF v.calls # <<>> THEN "tool_use" ELSE "end_turn"), Plain("message_stop")>>

-----------------------------------------------------------------------------
(* What a client puts together from the events it received.                *)

\* What it is told of some blocks, in its order.
Gather(events, blocks) ==
    FlattenSeq([j \in 1..Len(events) |->
        IF events[j].b \in blocks /\ events[j].p[1] # 0 THEN <<events[j].p>> ELSE <<>>])

\* The number of every piece, with its block.
Heard(events) ==
    FlattenSeq([j \in 1..Len(events) |->
        IF events[j].p[1] # 0 THEN <<<<events[j].b, events[j].p[1]>>>> ELSE <<>>])

\* The reasons to stop.
Finishes(events) ==
    FlattenSeq([j \in 1..Len(events) |->
        CASE events[j].k = "completed" -> <<"completed">>
          [] events[j].k = "finish" -> <<events[j].p[2]>>
          [] OTHER -> <<>>])

\* The events but for some kinds.
Leaving(events, kinds) ==
    FlattenSeq([j \in 1..Len(events) |-> IF events[j].k \in kinds THEN <<>> ELSE <<events[j]>>])

\* The same answer as a JSON value and as a stream.
BuiltIn == {"builtin_chat", "builtin_messages"}
Protocols == BuiltIn \cup {"completion", "chat", "legacy", "messages", "responses", "websocket"}
Json(protocol, o) ==
    CASE protocol = "completion" -> CompletionJson(o)
      [] protocol \in {"chat", "legacy"} -> ChatJson(o, protocol = "legacy")
      [] protocol = "messages" -> MessageJson(o)
      [] protocol = "builtin_chat" -> BuiltInChat(o)
      [] protocol = "builtin_messages" -> BuiltInMessage(o)
      [] OTHER -> ResponseJson(o)

EventsOf(protocol, o) ==
    CASE protocol = "completion" -> CompletionBody(o)
      [] protocol \in {"chat", "legacy"} -> ChatBody(o, protocol = "legacy")
      [] protocol = "messages" -> MessageBody(o)
      [] protocol = "builtin_chat" -> StreamOfChat(BuiltInChat(o))
      [] protocol = "builtin_messages" -> StreamOfMessage(BuiltInMessage(o))
      [] protocol = "responses" -> ResponseBody(o)
      [] OTHER -> ResponseEvents(o)

=============================================================================
