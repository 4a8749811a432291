---------------------------- MODULE RequestOptions ----------------------------
(***************************************************************************)
(* What becomes of the parameters of a request on its way to the provider  *)
(* (crates/api-server/src/lib.rs, crates/agent-kernel/src/lib.rs and the   *)
(* two provider crates): the effort that decides between the direct path   *)
(* and the agents, thinking, tools and the choice among them, and all      *)
(* other options, of which the gateway consumes some and passes on the     *)
(* rest.                                                                   *)
(*                                                                         *)
(* A request is a record of                                                *)
(*   api       "chat", "responses" or "messages"                           *)
(*   backend   "openai", "gemma" (a server of OpenAI's format with a Gemma *)
(*             model) or "anthropic"                                       *)
(*   effort    what the suffix of the model, the top level, reasoning,     *)
(*             metadata.reasoning (nested), thinking and metadata say of   *)
(*             it: "unsaid", "none" or "some"                              *)
(*   thinking  a function from the settings that are made to "on" or "off":*)
(*             thinking.type is "enabled" or "disabled", the others are    *)
(*             booleans                                                    *)
(*   tools     the names of the declared tools                             *)
(*   choice    [kind, name] as the API writes it: unsaid, auto, none,      *)
(*             required, any, function, tool, allowed, custom; older is    *)
(*             TRUE for a chat with functions and a function_call          *)
(*   extra, reasoning, metadata   the names of the other options           *)
(*   ample     the caps of the client that are no lower than the floors of *)
(*             the kernel, or are no natural number, by the name that the  *)
(*             provider knows                                              *)
(* An option that the client has set has the value "client".  What the     *)
(* messages say is left to Dialogue, which calls there are and in which    *)
(* order to AgentKernel: here the kernel makes any of them.                *)
(***************************************************************************)
EXTENDS Naturals, Sequences, FiniteSets

CONSTANT Requests        \* the requests that are looked at

\* What reasoning says of the effort is in the record effort, and only chats have
\* functions and a function_call.
ASSUME RequestsAssumption ==
    \A r \in Requests : /\ r.api \in {"chat", "responses", "messages"}
                        /\ "effort" \notin r.reasoning
                        /\ r.older => r.api = "chat"

VARIABLES request, stage, body
optionsVars == <<request, stage, body>>

Choice(kind, name) == [kind |-> kind, name |-> name]
NoName == "none"
NoOptions == <<>>
Without(options, names) == [n \in DOMAIN options \ names |-> options[n]]
With(options, names, value) ==
    [n \in DOMAIN options \cup names |-> IF n \in names THEN value ELSE options[n]]

-----------------------------------------------------------------------------
(* Options that the gateway keeps for itself.                              *)

GatewayExtra == {"include_reasoning", "include_thinking", "show_reasoning", "return_reasoning",
                 "reasoning_content", "reasoning_effort"}

\* Mutant of GatewayMetadata: who is asking is passed on.
GatewayMetadataOpen == {"context", "agent", "orchestration", "thinking_mode", "thinking_format"}

GatewayMetadata == {"tenant_id", "tenant", "organization_id", "project_id", "request_id",
                    "correlation_id", "conversation_id", "thread_id", "session_id", "context",
                    "include_context_report", "include_encrypted_subagent_state",
                    "include_reasoning", "include_thinking", "show_reasoning",
                    "return_reasoning", "reasoning_content", "agent", "orchestration",
                    "max_parallel_agents", "parallel_agents", "thinking_mode", "thinking_format"}

ResponsesOnly == {"background", "client_metadata", "context_management", "conversation",
                  "generate", "include", "max_tool_calls", "previous_response_id", "prompt",
                  "store", "stream_options", "text", "truncation", "input", "instructions"}

\* The fields that an adapter writes itself.
OpenAiCore == {"model", "messages", "tools", "tool_choice", "parallel_tool_calls", "stream",
               "functions", "function_call"}

AnthropicCore == {"model", "system", "messages", "tools", "tool_choice", "stream"}

Extra(r) == r.extra \cup (IF r.effort.top # "unsaid" THEN {"reasoning_effort"} ELSE {})
Reasoning(r) == r.reasoning \cup (IF r.effort.reasoning # "unsaid" THEN {"effort"} ELSE {})
Given(names) == [n \in names |-> "client"]

\* Responses: other names for the cap and the format, unless max_tokens is there.
ResponsesOptions(r) ==
    Given((Extra(r) \ (ResponsesOnly \cup GatewayExtra \cup {"max_output_tokens"}))
          \cup (IF "max_output_tokens" \in r.extra THEN {"max_tokens"} ELSE {})
          \cup (IF "text" \in r.extra THEN {"response_format"} ELSE {}))

ChatOptions(r) == Given(Extra(r) \ GatewayExtra)
MessagesOptions(r) == Given(Extra(r) \ GatewayExtra)

SanitizedReasoning(r) == Reasoning(r) \ {"effort"}
SanitizedMetadata(r) == r.metadata \ GatewayMetadata

\* What the normal form keeps; Messages keep nothing of reasoning.  Settings of
\* thinking that are kept are in OwnSettings.
ProviderOptions(r) ==
    [extra |-> CASE r.api = "responses" -> ResponsesOptions(r)
                 [] r.api = "chat" -> ChatOptions(r)
                 [] r.api = "messages" -> MessagesOptions(r),
     reasoning |-> IF r.api = "messages" THEN {} ELSE SanitizedReasoning(r),
     metadata |-> SanitizedMetadata(r)]

-----------------------------------------------------------------------------
(* Effort and model.                                                       *)

\* Responses move the effort of the top level into reasoning.
ResponsesEffort(e) ==
    [e EXCEPT !.reasoning = IF e.top # "unsaid" THEN e.top ELSE e.reasoning, !.top = "unsaid"]

\* The first place that says something counts: the suffix of the model, the top
\* level, reasoning, metadata.reasoning, for Messages thinking, metadata.
FirstSaid(places) ==
    LET said == {i \in DOMAIN places : places[i] # "unsaid"}
    IN  IF said = {} THEN "some" ELSE places[CHOOSE i \in said : \A j \in said : i <= j]

ChatEffort(e) == FirstSaid(<<e.suffix, e.top, e.reasoning, e.nested, e.metadata>>)
MessagesEffort(e) == FirstSaid(<<e.suffix, e.top, e.reasoning, e.nested, e.thinking, e.metadata>>)

IsDirect(r) ==
    LET effort == CASE r.api = "chat" -> ChatEffort(r.effort)
                    [] r.api = "responses" -> ChatEffort(ResponsesEffort(r.effort))
                    [] r.api = "messages" -> MessagesEffort(r.effort)
    IN  effort = "none"

\* The name without the suffix of an effort.
ProviderModel(r) == "bare"
ModelAsGiven(r) == IF r.effort.suffix = "unsaid" THEN "bare" ELSE "suffixed"

-----------------------------------------------------------------------------
(* Thinking.                                                               *)

OffSettings == {"enable_thinking", "preserve_thinking", "metadata.thinking_mode",
                "chat_template_kwargs.enable_thinking", "thinking.enabled", "reasoning.enabled"}

Says(r, settings, value) == \E s \in settings \cap DOMAIN r.thinking : r.thinking[s] = value

\* Mutant of ChatThinking: one setting that turns it on is enough.
ChatThinkingIfAny(r) == \/ Says(r, OffSettings \cup {"thinking.type"}, "on")
                        \/ r.backend = "gemma" /\ ~Says(r, OffSettings, "off")

\* A setting that turns it off wins; Gemma models think unless it is turned off.
\* The type of thinking is only read as one that turns it on.
ChatThinking(r) ==
    /\ ~Says(r, OffSettings, "off")
    /\ Says(r, OffSettings \cup {"thinking.type"}, "on") \/ r.backend = "gemma"

MessagesOff == {"metadata.thinking_mode", "thinking.enabled"}
MessagesThinking(r) ==
    /\ ~Says(r, MessagesOff, "off")
    /\ Says(r, MessagesOff \cup {"thinking.type"}, "on") \/ r.backend = "gemma"

ThinkingEnabled(r) == IF r.api = "messages" THEN MessagesThinking(r) ELSE ChatThinking(r)

\* The settings that reach the provider among the options of the client, whatever
\* the gateway made of them: the object thinking of Messages and what Messages
\* know only as extra fields, or what is in reasoning.
OwnSettings(r) ==
    IF r.api = "messages"
    THEN {"thinking.type", "thinking.enabled", "enable_thinking", "preserve_thinking",
          "chat_template_kwargs.enable_thinking"}
    ELSE {"reasoning.enabled"}

Only(settings, names) == [s \in DOMAIN settings \cap names |-> settings[s]]

\* What is written over other settings replaces them.
Over(written, settings) ==
    [s \in DOMAIN written \cup DOMAIN settings |->
        IF s \in DOMAIN written THEN written[s] ELSE settings[s]]

OnOff(b) == IF b THEN "on" ELSE "off"
Setting(name, value) == [s \in {name} |-> value]

-----------------------------------------------------------------------------
(* Tools and the choice among them.                                        *)

\* Mutant of ResponsesTools: all tools are still offered.
ResponsesToolsAll(tools, choice) == tools

\* Responses: a declared function is forced by offering nothing else, a custom or
\* hosted tool by the name of the function that stands for it.
ResponsesTools(tools, choice) ==
    IF choice.kind = "function" /\ choice.name \in tools THEN {choice.name} ELSE tools

ResponsesChoice(tools, choice) ==
    CASE choice.kind = "allowed" -> Choice("auto", NoName)
      [] choice.kind = "function" /\ choice.name \in tools -> Choice("required", NoName)
      [] choice.kind = "custom" -> Choice("function", choice.name)
      [] OTHER -> choice

\* What the chat or messages part of the server gets to see.
AskedTools(r) == IF r.api = "responses" THEN ResponsesTools(r.tools, r.choice) ELSE r.tools
AskedChoice(r) == IF r.api = "responses" THEN ResponsesChoice(r.tools, r.choice) ELSE r.choice

\* The normal form knows auto, none, required and a tool that is named.  What is
\* unsaid is auto, anything else is refused.
Refused == Choice("refused", NoName)
NamedOr(choice, kind, kinds) ==
    CASE choice.kind = "unsaid" -> Choice("auto", NoName)
      [] choice.kind = kind -> Choice("named", choice.name)
      [] choice.kind \in kinds -> choice
      [] OTHER -> Refused

ChatChoice(choice) == NamedOr(choice, "function", {"auto", "none", "required"})
FunctionCallChoice(choice) == NamedOr(choice, "function", {"auto", "none"})
MessagesChoice(choice) ==
    IF choice.kind = "any" THEN Choice("required", NoName)
    ELSE NamedOr(choice, "tool", {"auto", "none", "required"})

EffectiveChoice(r) == IF r.older THEN FunctionCallChoice(r.choice) ELSE ChatChoice(AskedChoice(r))
NormalChoice(r) == IF r.api = "messages" THEN MessagesChoice(r.choice) ELSE EffectiveChoice(r)

ValidChoice(choice, tools) ==
    CASE choice.kind = "required" -> tools # {}
      [] choice.kind = "named" -> choice.name \in tools
      [] OTHER -> choice # Refused

\* Servers of Gemma models know no named choice and are offered that tool only.
AdaptsChoice(r, choice) == r.backend = "gemma" /\ choice.kind = "named"
OpenAiTools(r, tools, choice) ==
    IF AdaptsChoice(r, choice) THEN tools \cap {choice.name} ELSE tools

OpenAiChoice(r, choice) == IF AdaptsChoice(r, choice) THEN Choice("required", NoName) ELSE choice

\* Anthropic forces nothing while it thinks; auto is left unsaid.
AnthropicChoice(choice, thinking) ==
    CASE choice.kind \in {"required", "named"} /\ thinking -> Choice("unsaid", NoName)
      [] choice.kind = "auto" -> Choice("unsaid", NoName)
      [] OTHER -> choice

-----------------------------------------------------------------------------
(* What the kernel asks for in a call of each role.                        *)

LimitKeys == {"max_tokens", "max_completion_tokens", "max_new_tokens", "n_predict", "num_predict"}

\* Every cap below the floor is raised to it; where there is none, one is set.  What
\* is no natural number (-1, 0.5) is left.
WithFloor(options, ample) ==
    LET capped == DOMAIN options \cap LimitKeys
    IN  With(options, IF capped = {} THEN {"max_tokens"} ELSE capped \ ample, "floor")

\* The two names that servers of OpenAI's format have for stops; Anthropic's
\* stop_sequences stays.
WithoutStops(options) == Without(options, {"stop", "stopping_strings"})
InternalOptions(options, ample) == WithFloor(WithoutStops(options), ample)

\* Mutant of PlannerOptions: the stops of the client are left in a plan.
PlannerOptionsStopped(options, ample) ==
    With(WithFloor(options, ample), {"temperature", "response_format"}, "kernel")

PlannerOptions(options, ample) ==
    With(InternalOptions(options, ample), {"temperature", "response_format"}, "kernel")

RootRoles == {"root", "continuation"}
RoleOptions(role, options, ample) ==
    CASE role = "planner" -> PlannerOptions(options, ample)
      [] role = "worker" -> InternalOptions(options, ample)
      [] role \in {"summary", "verifier"} -> WithFloor(options, ample)
      [] role \in RootRoles \cup {"synthesis", "repair"} -> options

Roles == RootRoles \cup {"planner", "worker", "summary", "verifier", "synthesis", "repair"}

\* Only the root is offered tools; it is called for them if there is one.
RoleTools(r, role) == IF role \in RootRoles THEN AskedTools(r) ELSE {}
RoleChoice(r, role) ==
    IF role \in RootRoles THEN NormalChoice(r) ELSE Choice("none", NoName)

-----------------------------------------------------------------------------
(* What the adapters send.                                                 *)

Body(role, model, options, tools, choice, thinking) ==
    [role |-> role, model |-> model, extra |-> options.extra, reasoning |-> options.reasoning,
     metadata |-> options.metadata, tools |-> tools, choice |-> choice, thinking |-> thinking]

NoBody == Body("none", "none", [extra |-> NoOptions, reasoning |-> {}, metadata |-> {}], {},
               Choice("unsaid", NoName), NoOptions)

NoChoiceWithoutTools(tools, choice) == IF tools = {} THEN Choice("unsaid", NoName) ELSE choice

\* To a server of OpenAI's format the setting is written after the options, on or
\* off (the DashScope format has other names for it); to a Gemma model only that it
\* is on, as a token in the prompt.
OpenAiThinking(r) ==
    Over(CASE r.backend # "gemma" ->
                Setting("chat_template_kwargs.enable_thinking", OnOff(ThinkingEnabled(r)))
           [] r.backend = "gemma" /\ ThinkingEnabled(r) -> Setting("token", "on")
           [] r.backend = "gemma" /\ ~ThinkingEnabled(r) -> NoOptions,
         Only(r.thinking, OwnSettings(r)))

OpenAiBody(r, role, options) ==
    LET tools == OpenAiTools(r, RoleTools(r, role), RoleChoice(r, role))
    IN  Body(role, ProviderModel(r), [options EXCEPT !.extra = Without(@, OpenAiCore)],
             tools, NoChoiceWithoutTools(tools, OpenAiChoice(r, RoleChoice(r, role))),
             OpenAiThinking(r))

\* To Anthropic the options are written last: the object thinking of a Messages
\* client replaces the one that was made for it.
AnthropicThinking(r) ==
    LET own == Only(r.thinking, OwnSettings(r))
    IN  IF ThinkingEnabled(r) /\ DOMAIN own \cap {"thinking.type", "thinking.enabled"} = {}
        THEN Over(Setting("thinking.type", "on"), own) ELSE own

AnthropicBody(r, role, options) ==
    Body(role, ProviderModel(r), [options EXCEPT !.extra = Without(@, AnthropicCore)],
         RoleTools(r, role),
         NoChoiceWithoutTools(RoleTools(r, role),
                              AnthropicChoice(RoleChoice(r, role), ThinkingEnabled(r))),
         AnthropicThinking(r))

\* The direct path sends what it got, without what is the gateway's.
StripMetadata(options) == [options EXCEPT !.metadata = @ \ GatewayMetadata]
StripEffort(options) ==
    [options EXCEPT !.extra = Without(@, {"reasoning_effort"}), !.reasoning = @ \ {"effort"}]

StripPublicReasoning(options) ==
    [options EXCEPT !.extra = Without(@, GatewayExtra \ {"reasoning_effort"})]

DirectOptions(r) ==
    StripPublicReasoning(StripEffort(StripMetadata(
        [extra |-> IF r.api = "responses" THEN ResponsesOptions(r) ELSE Given(Extra(r)),
         reasoning |-> Reasoning(r), metadata |-> r.metadata])))

\* A named tool is forced by offering nothing else, whatever the server knows.
IsNamed(r) == ~r.older /\ AskedChoice(r).kind = "function"
DirectTools(r) == IF IsNamed(r) THEN AskedTools(r) \cap {AskedChoice(r).name} ELSE AskedTools(r)
DirectChoice(r) == IF IsNamed(r) THEN Choice("required", NoName) ELSE AskedChoice(r)

\* The settings of the client as they are, but for those in the metadata.
DirectSettings(r) == Only(r.thinking, DOMAIN r.thinking \ {"metadata.thinking_mode"})

\* A Gemma model gets the token that makes it think, whatever was asked for.
DirectThinking(r) ==
    IF r.backend = "gemma" THEN Over(Setting("token", "on"), DirectSettings(r))
    ELSE DirectSettings(r)

\* A chat of the Responses keeps the name of the model that it was given.
DirectModel(r) == IF r.api = "responses" THEN ModelAsGiven(r) ELSE ProviderModel(r)

DirectOpenAiBody(r) ==
    Body("direct", DirectModel(r), DirectOptions(r), DirectTools(r), DirectChoice(r), DirectThinking(r))

DirectAnthropicBody(r) ==
    Body("direct", DirectModel(r), DirectOptions(r), r.tools, r.choice, DirectSettings(r))

-----------------------------------------------------------------------------

OptionsInit == request \in Requests /\ stage = "received" /\ body = NoBody

\* A direct request needs a server of its own format.
CanBeDirect(r) == (r.api = "messages") = (r.backend = "anthropic")

\* Fields of the Responses that the gateway does not implement.
Implemented(r) == r.api = "responses" => r.extra \cap {"conversation", "prompt"} = {}

RefuseFields ==
    /\ stage = "received" /\ ~Implemented(request)
    /\ stage' = "refused" /\ UNCHANGED <<request, body>>

RefuseDirect ==
    /\ stage = "received" /\ Implemented(request) /\ IsDirect(request) /\ ~CanBeDirect(request)
    /\ stage' = "refused" /\ UNCHANGED <<request, body>>

SendDirect ==
    /\ stage = "received" /\ Implemented(request) /\ IsDirect(request) /\ CanBeDirect(request)
    /\ stage' = "direct" /\ UNCHANGED request
    /\ body' = IF request.backend = "anthropic" THEN DirectAnthropicBody(request)
               ELSE DirectOpenAiBody(request)

Accepted(r) == ValidChoice(NormalChoice(r), AskedTools(r))

RefuseChoice ==
    /\ stage = "received" /\ Implemented(request) /\ ~IsDirect(request) /\ ~Accepted(request)
    /\ stage' = "refused" /\ UNCHANGED <<request, body>>

StartKernel ==
    /\ stage = "received" /\ Implemented(request) /\ ~IsDirect(request) /\ Accepted(request)
    /\ stage' = "kernel" /\ UNCHANGED <<request, body>>

Call(role) ==
    LET options == [ProviderOptions(request) EXCEPT !.extra = RoleOptions(role, @, request.ample)]
    IN  /\ stage = "kernel"
        /\ body' = IF request.backend = "anthropic" THEN AnthropicBody(request, role, options)
                   ELSE OpenAiBody(request, role, options)
        /\ UNCHANGED <<request, stage>>

OptionsNext ==
    \/ RefuseFields \/ RefuseDirect \/ SendDirect \/ RefuseChoice \/ StartKernel
    \/ \E role \in Roles : Call(role)

OptionsSpec == OptionsInit /\ [][OptionsNext]_optionsVars

-----------------------------------------------------------------------------
(* Properties.                                                             *)

\* The calls whose answer the client may see.
Public == RootRoles \cup {"direct", "synthesis", "repair"}
Core(r) == IF r.backend = "anthropic" THEN AnthropicCore ELSE OpenAiCore
SentAs(r, n) == CASE r.api = "responses" /\ n = "max_output_tokens" -> "max_tokens"
                  [] r.api = "responses" /\ n = "text" -> "response_format"
                  [] OTHER -> n

Consumed(r) == GatewayExtra \cup (IF r.api = "responses" THEN ResponsesOnly \ {"text"} ELSE {})

\* What the client set for the model arrives in every call that the client sees,
\* with its value and under the name that the provider knows, and so do its own
\* metadata and reasoning settings (README.md:277, :345); the effort, the wish to
\* see reasoning and who is asking arrive in no call at all, and the model loses
\* its suffix.  Two exceptions: Messages pass nothing of reasoning through the
\* kernel, and a direct chat of the Responses keeps the suffix.
OptionsAsPromised ==
    /\ body.role \in Public =>
          /\ \A n \in request.extra \ (Consumed(request) \cup Core(request)) :
                SentAs(request, n) \in DOMAIN body.extra /\ body.extra[SentAs(request, n)] = "client"
          /\ {"user_id"} \cap request.metadata \subseteq body.metadata
          /\ request.api # "messages" => request.reasoning \subseteq body.reasoning
    /\ {"reasoning_effort", "include_reasoning", "truncation", "max_output_tokens"}
          \cap DOMAIN body.extra \subseteq IF request.api = "responses" THEN {}
                                           ELSE {"truncation", "max_output_tokens"}
    /\ body.reasoning \cap {"effort"} = {}
    /\ body.metadata \cap {"tenant_id", "session_id", "request_id"} = {}
    /\ body.role \notin {"none", "direct"} \/ request.api # "responses" => body.model # "suffixed"

\* A tool that the client forces is the only one that the provider may call, on
\* the direct path and in the calls of the root, however the format, the backend
\* and the narrowing of the list of tools say it.  Anthropic is not forced while
\* it thinks, its API refuses that.
ForcedToolIsForced ==
    LET c == request.choice
        thinks == body.role # "direct" /\ request.backend = "anthropic" /\ ThinkingEnabled(request)
    IN  body.role \in RootRoles \cup {"direct"} /\ ~thinks =>
          /\ c.kind \in {"function", "tool", "custom"} /\ c.name \in request.tools =>
                \/ /\ body.choice.kind \in {"named", c.kind} /\ body.choice.name = c.name
                   /\ c.name \in body.tools
                \/ body.choice.kind = "required" /\ body.tools = {c.name}
          /\ c.kind \in {"required", "any"} =>
                body.choice.kind \in {"required", c.kind} /\ body.tools = request.tools
          /\ c.kind = "none" => body.choice.kind = "none" \/ body.tools = {}

\* The settings that turn thinking off, as the API reads them.
Switches(r) == IF r.api = "messages" THEN MessagesOff ELSE OffSettings

\* A client turns thinking off by any setting.  A type of thinking that is
\* "disabled" alone counts only if no other setting and no Gemma model says
\* otherwise (lib.rs:10862, :11050 do not read it).
TurnedOff(r) ==
    \/ Says(r, Switches(r), "off")
    \/ Says(r, {"thinking.type"}, "off") /\ ~Says(r, Switches(r), "on") /\ r.backend # "gemma"

\* Where the client itself says "on" beside that, in a setting that goes to the
\* provider as it is, it is told both: the options of the client are passed on.
SaysOnItself(r, s, passed) == s \in passed \cap DOMAIN r.thinking /\ r.thinking[s] = "on"

\* Thinking that a client turns off is not turned on by the gateway: in no call of
\* the kernel does any setting say "on", whatever other settings were made and
\* whatever the model, unless it is a contradicting one of the client in an object
\* that is passed on.  The direct path also passes on the settings as they are,
\* and puts the token of the Gemma models into every request that has none.
ThinkingOffIsOff ==
    LET direct == body.role = "direct"
        passed == IF direct THEN DOMAIN request.thinking ELSE OwnSettings(request)
    IN  TurnedOff(request) =>
          \A s \in DOMAIN body.thinking : body.thinking[s] = "on" =>
             \/ SaysOnItself(request, s, passed)
             \/ direct /\ request.backend = "gemma" /\ s = "token"

\* No cap of the client and no stop cuts a plan or what a worker found, and no
\* format of the client replaces that of a plan (README.md:277): a cap is the
\* floor or ample.  One exception: the stops of Anthropic's format, which are
\* not among those that are taken away.
PlansAreUncut ==
    body.role \in {"planner", "worker"} =>
      /\ DOMAIN body.extra \cap {"stop", "stopping_strings", "stop_sequences"}
            \subseteq {"stop_sequences"} \cap request.extra
      /\ DOMAIN body.extra \cap LimitKeys # {}
      /\ \A n \in DOMAIN body.extra \cap LimitKeys : body.extra[n] = "floor" \/ n \in request.ample
      /\ body.role = "planner" => body.extra["response_format"] = "kernel"

\* Every option arrives where it belongs, and only there, with the exceptions named
\* above.
OptionsArrive == OptionsAsPromised /\ PlansAreUncut

=============================================================================
