------------------------------- MODULE Dialogue -------------------------------
(***************************************************************************)
(* What a conversation says, on its way from the format of the client      *)
(* through the normal form of the gateway to the body that the provider    *)
(* gets (crates/api-server/src/lib.rs, crates/provider-openai/src/lib.rs,  *)
(* crates/provider-anthropic/src/lib.rs), and what of the provider's       *)
(* answer becomes the next message.                                        *)
(*                                                                         *)
(* A part of a message is a text, an image, a file, a tool call or the     *)
(* result of one; what it says is an opaque body.  A call carries its tool *)
(* as its body, arguments are left out.  All formats are sequences of      *)
(* messages, the normal form of an image refers to a list of media and     *)
(* that of a result to a list of results.                                  *)
(***************************************************************************)
EXTENDS Naturals, Sequences, FiniteSets, SequencesExt

CONSTANT Tools       \* the tools that a client may declare, each by its name: <<name>>

ASSUME ToolsAssumption == \A tool \in Tools : Len(tool) = 1

NoId == <<>>
NoBody == <<"null">>
Part(kind, id, body) == [kind |-> kind, id |-> id, body |-> body]
Map(s, Op(_)) == [i \in 1..Len(s) |-> Op(s[i])]

\* SelectSeq, as a flat map (the provers have no definition of SelectSeq).
Chosen(s, Test(_)) == FlattenSeq(Map(s, LAMBDA x : IF Test(x) THEN <<x>> ELSE <<>>))
Those(parts, kinds) == Chosen(parts, LAMBDA x : x.kind \in kinds)
OfSystem(messages) == Chosen(messages, LAMBDA m : m.role = "system")
OfOthers(messages) == Chosen(messages, LAMBDA m : m.role # "system")

\* What is told of something in another format: its JSON, or that it was there.
Foreign(body) == <<"json", body>>
Attached == <<"attached">>

\* A message of OpenAI's or of Anthropic's format: who speaks, the content, the
\* calls (OpenAI only) and the call that a tool message answers.
Message(role, content, calls, answers) ==
    [role |-> role, content |-> content, calls |-> calls, answers |-> answers]

Plain(role, content) == Message(role, content, <<>>, NoId)

-----------------------------------------------------------------------------
(* Responses: input items and messages of the chat format.                 *)

\* The shell is declared as a tool of its own kind, the others are functions.
Shell == <<"local_shell">>
Kind(tool) == IF tool = Shell THEN "local_shell" ELSE "function"

Item(type, role, content, id, body) ==
    [type |-> type, role |-> role, content |-> content, id |-> id, body |-> body]

CallItem(call) ==
    IF Kind(call.body) = "local_shell" THEN Item("local_shell_call", "none", <<>>, call.id, NoBody)
    ELSE Item("function_call", "none", <<>>, call.id, call.body)

MessageItem(role, content) == Item("message", role, content, NoId, NoBody)

\* The content parts that are known, in their order.
ItemContent(content) == Those(content, {"text", "image", "file"})

\* A call item becomes a message of its own; the item of the shell has no name.
CallMessage(item) ==
    Message("assistant", <<>>,
            <<Part("call", item.id, IF item.type = "local_shell_call" THEN Shell ELSE item.body)>>,
            NoId)

ItemMessages(item) ==
    CASE item.type \in {"input_text", "input_image", "input_file"} ->
            <<Plain("user", ItemContent(item.content))>>
      [] item.type = "message" ->
            <<Plain(IF item.role = "developer" THEN "system" ELSE item.role, ItemContent(item.content))>>
      [] item.type \in {"function_call_output", "local_shell_call_output"} ->
            <<Message("tool", <<Part("text", NoId, item.body)>>, <<>>, item.id)>>
      [] item.type \in {"function_call", "local_shell_call"} -> <<CallMessage(item)>>
      [] item.type \in {"reasoning", "item_reference"} -> <<>>
      [] OTHER -> <<Plain("user", <<Part("text", NoId, Foreign(item.body))>>)>>

InputMessages(items) == FlattenSeq(Map(items, ItemMessages))

\* Instructions are a text, or items whose developer messages speak as system.
InstructionMessages(instructions) ==
    IF instructions = NoBody THEN <<>> ELSE <<Plain("system", <<Part("text", NoId, instructions)>>)>>

-----------------------------------------------------------------------------
(* The normal form: messages whose content may be calls, references to     *)
(* results and references to media; results and media in lists.            *)

Normal(messages, results, media, source) ==
    [messages |-> messages, results |-> results, media |-> media, source |-> source]

NormalRole(role) ==
    CASE role \in {"system", "developer"} -> "system"
      [] role = "assistant" -> "assistant"
      [] role = "tool" -> "tool"
      [] OTHER -> "user"

\* Mutant of ImagesBefore: media are numbered message by message.
ImagesBeforeHere(messages, i, j) ==
    Cardinality({k \in 1..(j - 1) : messages[i].content[k].kind = "image"})

\* Media are numbered over the whole request.
ImagesBefore(messages, i, j) ==
    Cardinality({at \in UNION {{m} \X (1..Len(messages[m].content)) : m \in 1..i} :
                    /\ at[1] < i \/ at[2] < j
                    /\ messages[at[1]].content[at[2]].kind = "image"})

\* All images of the request, in their order.
Media(messages) == Those(FlattenSeq(Map(messages, LAMBDA m : m.content)), {"image"})

NormalContent(messages, i) ==
    [j \in 1..Len(messages[i].content) |->
        LET x == messages[i].content[j]
        IN  CASE x.kind = "image" -> Part("image", <<ImagesBefore(messages, i, j)>>, NoBody)
              [] x.kind = "file" -> Part("provider", NoId, x.body)
              [] x.kind = "result" -> Part("result", x.id, NoBody)
              [] OTHER -> x]

\* The older function messages have no ids: a call is known by its name, and a
\* function message answers the last call before it, or the call of its name.
LegacyId(name) == <<"legacy", name>>
LegacyAnswers(messages, i) ==
    LET called == {m \in 1..(i - 1) : messages[m].role = "assistant" /\ messages[m].calls # <<>>}
    IN  IF called = {} THEN LegacyId(messages[i].answers)
        ELSE LET last == CHOOSE m \in called : \A n \in called : n <= m
             IN  messages[last].calls[1].id

AnswersOf(messages, i) ==
    IF messages[i].role = "function" THEN LegacyAnswers(messages, i) ELSE messages[i].answers

\* A tool message says one text; content parts are read as no result at all.
ToolValue(content) ==
    IF Len(content) = 1 /\ content[1].kind = "text" THEN content[1].body ELSE NoBody

\* Their content is read as a result only, as no part of what is said.
Answering == {"tool", "function"}

NormalChat(messages) ==
    LET spoken == [i \in 1..Len(messages) |->
                      IF messages[i].role \in Answering
                      THEN [messages[i] EXCEPT !.content = <<>>] ELSE messages[i]]
        One(i) ==
            IF messages[i].role \in Answering
            THEN [role |-> "tool", content |-> <<Part("result", AnswersOf(messages, i), NoBody)>>]
            ELSE [role |-> NormalRole(messages[i].role),
                  content |-> NormalContent(spoken, i)
                              \o (IF messages[i].role = "assistant" THEN messages[i].calls ELSE <<>>)]
        answers == Chosen([i \in 1..Len(messages) |-> i],
                          LAMBDA i : messages[i].role \in Answering)
    IN  Normal([i \in 1..Len(messages) |-> One(i)],
               Map(answers, LAMBDA i : Part("result", AnswersOf(messages, i),
                                            ToolValue(messages[i].content))),
               Media(spoken), "chat")

\* Anthropic: the system prompt comes first, calls and results are blocks.
NormalMessages(system, messages) ==
    LET all == (IF system = <<>> THEN <<>> ELSE <<Plain("system", system)>>) \o messages
    IN  Normal([i \in 1..Len(all) |->
                   [role |-> NormalRole(all[i].role), content |-> NormalContent(all, i)]],
               FlattenSeq(Map(messages, LAMBDA m : Those(m.content, {"result"}))),
               Media(all), "messages")

-----------------------------------------------------------------------------
(* The body for the provider.                                              *)

\* The texts of the system messages go into the system prompt.
SystemPrompt(normal) ==
    Map(Those(FlattenSeq(Map(OfSystem(normal.messages), LAMBDA m : m.content)),
              {"text", "provider"}),
        LAMBDA x : x.body)

\* The first result of that id.
ResultOf(normal, id) ==
    LET at == {i \in 1..Len(normal.results) : normal.results[i].id = id}
    IN  IF at = {} THEN NoBody ELSE normal.results[CHOOSE i \in at : \A k \in at : i <= k].body

Calls(normal) == Those(FlattenSeq(Map(normal.messages, LAMBDA m : m.content)), {"call"})

\* The texts of all messages, of a file only that there was one.
FlatText(normal) ==
    Map(Those(FlattenSeq(Map(normal.messages, LAMBDA m : m.content)), {"text", "provider"}),
        LAMBDA x : IF x.kind = "text" THEN x ELSE Part("text", NoId, Attached))

\* One user message that tells everything as text, and then shows all media; for
\* Anthropic without the calls.
WithToolContext(normal) == FlatText(normal) \o Calls(normal) \o normal.results
WithResults(normal) == FlatText(normal) \o normal.results
FallbackMessage(normal, text) == Plain("user", text \o normal.media)

\* Results whose calls the provider would not see cannot be told as messages.
TellsResultsAsText(normal) == normal.results # <<>> /\ Calls(normal) = <<>>

\* A file of the same format is passed on, of the other one its JSON is told.
PassedOn(normal, x, home) ==
    IF normal.source = home THEN Part("file", NoId, x.body) ELSE Part("text", NoId, Foreign(x.body))

\* A part of a user message.
Shown(normal, x, home) ==
    CASE x.kind = "image" -> <<normal.media[x.id[1] + 1]>>
      [] x.kind = "provider" -> <<PassedOn(normal, x, home)>>
      [] x.kind = "text" -> <<x>>
      [] OTHER -> <<>>

\* OpenAI.  A message with results becomes its results and nothing else; of an
\* assistant message, texts and calls are told.
ToolMessage(normal, id) == Message("tool", <<Part("text", NoId, ResultOf(normal, id))>>, <<>>, id)

AssistantMessage(normal, m) ==
    Message("assistant",
            Those(m.content, {"text"})
            \o (IF normal.source = "chat"
                THEN FlattenSeq(Map(Those(m.content, {"provider"}), LAMBDA x : Shown(normal, x, "chat")))
                ELSE <<>>),
            Those(m.content, {"call"}), NoId)

OpenAiMessage(normal, m) ==
    LET answered == Those(m.content, {"result"})
    IN  CASE answered # <<>> -> Map(answered, LAMBDA x : ToolMessage(normal, x.id))
          [] answered = <<>> /\ m.role = "assistant" -> <<AssistantMessage(normal, m)>>
          [] answered = <<>> /\ m.role = "tool" -> <<>>
          [] OTHER -> <<Plain(m.role, FlattenSeq(Map(m.content, LAMBDA x : Shown(normal, x, "chat"))))>>

Spoken(normal) == OfOthers(normal.messages)

\* Gemma gets a history with results as text.
OpenAiAsText(normal, gemma) == TellsResultsAsText(normal) \/ (gemma /\ normal.results # <<>>)

OpenAiMessages(normal, gemma) ==
    LET told == FlattenSeq(Map(Spoken(normal), LAMBDA m : OpenAiMessage(normal, m)))
    IN  IF OpenAiAsText(normal, gemma) \/ told = <<>>
        THEN <<FallbackMessage(normal, WithToolContext(normal))>> ELSE told

\* Anthropic.  Every part is a block of its message, tool messages speak as the user.
AnthropicBlock(normal, x) ==
    CASE x.kind = "call" -> <<x>>
      [] x.kind = "result" -> <<Part("result", x.id, ResultOf(normal, x.id))>>
      [] OTHER -> Shown(normal, x, "messages")

AnthropicRole(role) == IF role = "assistant" THEN "assistant" ELSE "user"

AnthropicBlocks(normal, m) == FlattenSeq(Map(m.content, LAMBDA x : AnthropicBlock(normal, x)))

AnthropicMessages(normal) ==
    LET told == Map(Chosen(Spoken(normal), LAMBDA m : AnthropicBlocks(normal, m) # <<>>),
                    LAMBDA m : Plain(AnthropicRole(m.role), AnthropicBlocks(normal, m)))
    IN  IF TellsResultsAsText(normal) \/ told = <<>>
        THEN <<FallbackMessage(normal, WithResults(normal))>> ELSE told

AsText(normal, backend) ==
    IF backend = "anthropic" THEN TellsResultsAsText(normal)
    ELSE OpenAiAsText(normal, backend = "gemma")

Rendered(normal, backend) ==
    IF backend = "anthropic" THEN AnthropicMessages(normal)
    ELSE OpenAiMessages(normal, backend = "gemma")

-----------------------------------------------------------------------------
(* The answer of the provider: a text, a text with the markup of a tool    *)
(* call, calls, or a text and calls.                                       *)

Answer(text, markup, calls) == [text |-> text, markup |-> markup, calls |-> calls]
NoText == NoBody

\* A call written as text counts if tools were offered.  A call of another tool
\* becomes a command of the shell, if that was offered, and is text otherwise.
WrittenCall(tool, offered) ==
    CASE tool \in offered -> {tool}
      [] tool \notin offered /\ Shell \in offered -> {Shell}
      [] OTHER -> {}

\* A call of a tool that was not offered and that only reads files becomes a
\* command of the shell.
ReadFile == <<"read_file">>
Adapted(call, offered) ==
    IF call.body \notin offered /\ Shell \in offered /\ call.body = ReadFile
    THEN [call EXCEPT !.body = Shell] ELSE call

\* A direct answer of OpenAI's format: a call that is written in a message
\* without calls is made a call of it.
DirectAnswer(a, offered, fresh) ==
    IF a.markup # NoBody /\ a.calls = <<>> /\ WrittenCall(a.markup, offered) # {}
    THEN Answer(NoText, NoBody,
                <<Part("call", fresh, CHOOSE t \in WrittenCall(a.markup, offered) : TRUE)>>)
    ELSE a

\* What the kernel returns is told as calls or as a text: a written call first,
\* if the answer has passed the verification, then the calls of the root.
Written(a, passed, offered) ==
    IF passed /\ a.markup # NoBody THEN WrittenCall(a.markup, offered) ELSE {}

KernelCalls(a, passed, offered, fresh) ==
    IF Written(a, passed, offered) # {}
    THEN <<Part("call", fresh, CHOOSE t \in Written(a, passed, offered) : TRUE)>>
    ELSE a.calls

-----------------------------------------------------------------------------
(* What somebody who reads messages takes from them: who said what, in     *)
(* which order, and which result belongs to which call.                    *)

Entry(who, x) == [who |-> who, kind |-> x.kind, id |-> x.id, body |-> x.body]

ReadMessage(m) ==
    CASE m.role = "tool" -> <<Entry("user", Part("result", m.answers, ToolValue(m.content)))>>
      [] m.role = "function" ->
            <<Entry("user", Part("result", LegacyId(m.answers), ToolValue(m.content)))>>
      [] m.role = "system" -> <<>>
      [] OTHER -> Map(m.content \o m.calls, LAMBDA x : Entry(m.role, x))

Read(messages) == FlattenSeq(Map(messages, ReadMessage))

=============================================================================
