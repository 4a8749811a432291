---------------------------- MODULE MCClientStreams ----------------------------
(* Small sets of frames and of complete answers. *)
EXTENDS ClientStreams

Of(type) == [Blank EXCEPT !.type = type]
CallFrame(i, args) == [Of("call") EXCEPT !.i = i, !.args = args]

MCOpenAiFrames ==
    {[Of("text") EXCEPT !.text = "spaced"], CallFrame(0, FALSE), CallFrame(0, TRUE), CallFrame(1, TRUE),
     [Of("finish") EXCEPT !.finish = "stop"], [Of("finish") EXCEPT !.finish = "tool_calls"],
     [CallFrame(1, TRUE) EXCEPT !.finish = "stop"], Of("null"), [Of("usage") EXCEPT !.usage = TRUE], Of("error")}

MCAnthropicFrames ==
    {[Of("delta") EXCEPT !.text = "word"], [Of("tool_use") EXCEPT !.i = 1],
     [Of("delta") EXCEPT !.i = 1, !.args = TRUE],
     [Of("message_delta") EXCEPT !.finish = "end_turn", !.usage = TRUE],
     [Of("message_delta") EXCEPT !.finish = "max_tokens"], Of("other"), Of("error")}

=============================================================================
