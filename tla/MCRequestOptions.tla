--------------------------- MODULE MCRequestOptions ---------------------------
(***************************************************************************)
(* The requests of the run: for every API and backend, three families in   *)
(* which one concern varies and the others are unsaid.  The concerns meet  *)
(* only where thinking takes a forced tool back, so those two vary         *)
(* together; options are taken up to three at a time.                      *)
(***************************************************************************)
EXTENDS RequestOptions

Apis == {"chat", "responses", "messages"}
Backends == {"openai", "gemma", "anthropic"}
Says3 == {"unsaid", "none", "some"}
UpTo(n, S) == {x \in SUBSET S : Cardinality(x) <= n}

\* The requests of some APIs, by what varies in each concern.
Family(apis, efforts, thinkings, tools, choices, extras, metadata) ==
    [older : {FALSE}, api : apis, backend : Backends, effort : efforts, thinking : thinkings, tools : tools,
     choice : choices, extra : extras, reasoning : {{"summary"}}, metadata : metadata,
     ample : {{"num_predict"}}]

AllEfforts == [suffix : Says3, top : Says3, reasoning : Says3, nested : Says3, thinking : Says3,
               metadata : Says3]
KernelOrDirect == [suffix : {"unsaid"}, top : {"unsaid"}, reasoning : {"some", "none"},
                   nested : {"unsaid"}, thinking : {"unsaid"}, metadata : {"unsaid"}]
Unsaid == {Choice("unsaid", NoName)}

Settings == {"enable_thinking", "reasoning.enabled", "metadata.thinking_mode", "thinking.enabled",
             "thinking.type"}
Thinkings == UNION {[s -> {"on", "off"}] : s \in UpTo(2, Settings)}
Tools == {"search", "shell"}
Choices(kinds) ==
    {Choice(k, NoName) : k \in kinds \cap {"unsaid", "auto", "none", "required", "any", "allowed"}}
    \cup [kind : kinds \cap {"function", "tool", "custom"}, name : {"search", "undeclared"}]

Tooled(api, thinkings, kinds) ==
    Family({api}, KernelOrDirect, thinkings, {{}, {"shell"}, Tools}, Choices(kinds), {{}}, {{}})
Older ==
    {[r EXCEPT !.older = TRUE] :
        r \in Tooled("chat", {NoOptions}, {"unsaid", "auto", "none", "required", "function"})}

Names == {"temperature", "stop", "stop_sequences", "max_tokens", "num_predict", "response_format",
          "include_reasoning", "system", "functions"}
ResponsesNames == {"max_output_tokens", "text", "truncation", "max_tokens", "prompt"}
Metadata == {{}, {"user_id", "session_id"}, {"user_id", "tenant_id", "agent"}}

MCRequests ==
    Family(Apis, AllEfforts, {NoOptions}, {{}}, Unsaid, {{}}, {{"tenant_id"}})
    \cup Tooled("chat", Thinkings, {"unsaid", "auto", "none", "required", "function", "any"})
    \cup Tooled("responses", Thinkings, {"unsaid", "none", "required", "function", "allowed", "custom"})
    \cup Tooled("messages", Thinkings, {"unsaid", "auto", "none", "any", "tool", "function"})
    \cup Older
    \cup Family(Apis, KernelOrDirect, {NoOptions}, {{}}, Unsaid, UpTo(3, Names), Metadata)
    \cup Family({"responses"}, KernelOrDirect, {NoOptions}, {{}}, Unsaid, SUBSET ResponsesNames,
                Metadata)
=============================================================================
