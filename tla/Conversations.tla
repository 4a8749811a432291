----------------------------- MODULE Conversations -----------------------------
(***************************************************************************)
(* Conversations of several turns over one gateway (crates/api-server/src/ *)
(* lib.rs): clients say something, call the model and answer its tool      *)
(* calls, and what they say is translated to the format of the provider    *)
(* (Dialogue).  A client either sends the whole dialogue again or, with    *)
(* the Responses API, only what is new and the id of the response before,  *)
(* of which the gateway keeps the conversation in the ResponsesStore:      *)
(* first in SurrealKV, if there is one, then in memory.                    *)
(*                                                                         *)
(* A tenant has a name, and ':' is allowed in it: it is the sequence of    *)
(* what stands between the colons.  An id of a response has no colon, but  *)
(* a client may write one with others before it: an id is a pair of these  *)
(* and of what the gateway made.                                           *)
(*                                                                         *)
(* A restart loses memory and all requests in flight.                      *)
(***************************************************************************)
EXTENDS Dialogue

CONSTANTS Chats,         \* the conversations of the clients
          Tenants,       \* their names
          IdPrefixes,      \* what clients write before an id, up to its last colon
          MaxTurns,      \* a function: how often a client may ask
          MaxRestarts

ASSUME ChatsAssumption ==
    /\ MaxTurns \in [Chats -> Nat] /\ MaxRestarts \in Nat
    /\ Tenants \subseteq Seq(STRING) /\ IdPrefixes \subseteq Seq(STRING)

VARIABLES api, backend,  \* the API of the clients and the provider
          texting,       \* whether only texts are exchanged
          tenant,        \* whose conversation it is
          hasKv,         \* whether there is a SurrealKV store
          said,          \* what a client has said and been told, by turns
          parent,        \* the response that a client may continue
          call,          \* the request in flight
          kv, memory,    \* the ResponsesStore
          deleting,      \* the response whose deletion is under way
          gone,          \* history: those whose deletion has been confirmed
          restarts

setup == <<api, backend, texting, tenant, hasKv>>
clients == <<said, parent, call>>
store == <<kv, memory, deleting, gone>>
talkVars == <<setup, clients, store, restarts>>

Turn(who, parts) == [who |-> who, parts |-> parts]
Text(body) == Part("text", NoId, body)
Texts(body) == IF body = NoText THEN <<>> ELSE <<Text(body)>>

\* A client of the older functions knows a call by its name, and reads one call.
CallId(c, n, k, tool) == IF api = "legacy" THEN LegacyId(tool) ELSE <<"call", c, n, k>>

-----------------------------------------------------------------------------
(* What a client sends.                                                    *)

LastTurn(c) == said[c][Len(said[c])]
Open(c) == IF said[c] = <<>> THEN <<>> ELSE Those(LastTurn(c).parts, {"call"})

\* The parts of its next message: all results, perhaps with a text, or a text,
\* perhaps with an image or a file.
Inputs(c) ==
    LET n == Len(said[c]) + 1
        text == Text(<<"says", c, n>>)
        results == [k \in 1..Len(Open(c)) |-> Part("result", Open(c)[k].id, <<"result", c, n, k>>)]
    IN  CASE Open(c) # <<>> -> {results, Append(results, text)}
          [] Open(c) = <<>> /\ texting -> {<<text>>}
          [] OTHER -> {<<text>>, <<text, Part("image", NoId, <<"image", c, n>>)>>,
                       <<text, Part("file", NoId, <<"file", c, n>>)>>}

Rules(c) == <<"rules", c>>

\* Chat: results are messages of their own, before what else is said.
ToolName(turns, id) ==
    LET calls == Those(FlattenSeq(Map(turns, LAMBDA t : t.parts)), {"call"})
    IN  calls[CHOOSE k \in DOMAIN calls : calls[k].id = id].body

ResultMessage(turns, x) ==
    IF api = "legacy" THEN Message("function", <<Text(x.body)>>, <<>>, ToolName(turns, x.id))
    ELSE Message("tool", <<Text(x.body)>>, <<>>, x.id)

ChatTurn(turns, t) ==
    LET others == Those(t.parts, {"text", "image", "file"})
    IN  IF t.who = "assistant" THEN <<Message("assistant", others, Those(t.parts, {"call"}), NoId)>>
        ELSE Map(Those(t.parts, {"result"}), LAMBDA x : ResultMessage(turns, x))
             \o (IF others = <<>> THEN <<>> ELSE <<Plain("user", others)>>)

ChatTurns(turns) == FlattenSeq(Map(turns, LAMBDA t : ChatTurn(turns, t)))

\* Responses: an item for each result and each call.
OutputItem(turns, x) ==
    Item(IF ToolName(turns, x.id) = Shell THEN "local_shell_call_output" ELSE "function_call_output",
         "none", <<>>, x.id, x.body)

ItemTurn(turns, t) ==
    LET others == Those(t.parts, {"text", "image", "file"})
    IN  Map(Those(t.parts, {"result"}), LAMBDA x : OutputItem(turns, x))
        \o (IF others = <<>> THEN <<>> ELSE <<MessageItem(t.who, others)>>)
        \o Map(Those(t.parts, {"call"}), CallItem)

ItemTurns(turns, new) == FlattenSeq(Map(new, LAMBDA t : ItemTurn(turns, t)))

-----------------------------------------------------------------------------
(* The ResponsesStore.                                                     *)

\* What is stored: whose it is, the conversation for the provider and, as its
\* tenant can read it in the items of the response, for the client.
Response(t, messages, turns) == [tenant |-> t, messages |-> messages, turns |-> turns]
NoEntry == Response(<<>>, <<>>, <<>>)

\* SurrealKV encodes the name of the tenant and the id apart.
KvKey(t, id) == <<t, id>>

\* Mutant of MemoryKey: ids are looked up whoever asks.
MemoryKeyOfId(t, id) == <<<<>>, id[2]>>

\* In memory the two are joined with a colon, so whoever writes the rest of the
\* name of another tenant before an id has its key; it is not compared whose the
\* entry is.
MemoryKey(t, id) == <<t \o id[1], id[2]>>

Found(s, key) == IF key \in DOMAIN s THEN s[key] ELSE NoEntry
Put(s, key, r) == [k \in DOMAIN s \cup {key} |-> IF k = key THEN r ELSE s[k]]
Drop(s, key) == [k \in DOMAIN s \ {key} |-> s[k]]

Get(t, id) ==
    IF Found(kv, KvKey(t, id)) # NoEntry THEN Found(kv, KvKey(t, id))
    ELSE Found(memory, MemoryKey(t, id))

-----------------------------------------------------------------------------
(* A request: everything up to the call of the provider.                   *)

NoCall == [phase |-> "none", id |-> NoId, parts |-> <<>>, direct |-> FALSE, sent |-> <<>>,
           prompt |-> <<>>, asText |-> FALSE, conversation |-> <<>>, told |-> <<>>]

CanBeDirect == (api = "messages") = (backend = "anthropic")

\* What the provider gets: on the direct path the messages of the client.
SystemTexts(messages) ==
    Map(FlattenSeq(Map(OfSystem(messages), LAMBDA m : m.content)),
        LAMBDA x : x.body)

ToProvider(direct, messages, normal) ==
    IF direct
    THEN [sent |-> OfOthers(messages),
          prompt |-> SystemTexts(messages), asText |-> FALSE]
    ELSE [sent |-> Rendered(normal, backend), prompt |-> SystemPrompt(normal),
          asText |-> AsText(normal, backend)]

\* Chat and Messages send everything again.
WholeCall(c, parts, direct) ==
    LET turns == Append(said[c], Turn("user", parts))
        rules == <<Plain("system", <<Text(Rules(c))>>)>>
        messages == IF api = "messages" THEN Map(turns, LAMBDA t : Plain(t.who, t.parts))
                    ELSE ChatTurns(turns)
        normal == IF api = "messages" THEN NormalMessages(<<Text(Rules(c))>>, messages)
                  ELSE NormalChat(rules \o messages)
    IN  [conversation |-> <<>>, body |-> ToProvider(direct, rules \o messages, normal)]

\* Mutant of ResponsesCall: the instructions are kept with the conversation.
ResponsesCallKeepsRules(c, parts, direct, chained) ==
    LET turns == Append(said[c], Turn("user", parts))
        before == IF chained THEN Get(tenant[c], parent[c]).messages ELSE <<>>
        current == InputMessages(ItemTurns(turns, IF chained THEN <<Turn("user", parts)>> ELSE turns))
        messages == InstructionMessages(Rules(c)) \o before \o current
    IN  [conversation |-> messages, body |-> ToProvider(direct, messages, NormalChat(messages))]

\* Responses put the conversation before between the instructions and the input.
ResponsesCall(c, parts, direct, chained) ==
    LET turns == Append(said[c], Turn("user", parts))
        before == IF chained THEN Get(tenant[c], parent[c]).messages ELSE <<>>
        current == InputMessages(ItemTurns(turns, IF chained THEN <<Turn("user", parts)>> ELSE turns))
        messages == InstructionMessages(Rules(c)) \o before \o current
    IN  [conversation |-> before \o current, body |-> ToProvider(direct, messages, NormalChat(messages))]

Asks(c) == Cardinality({i \in DOMAIN said[c] : said[c][i].who = "user"})
FreshId(c) == <<<<>>, <<c, Len(said[c]) + 2, restarts>>>>

Ask(c) ==
    /\ call[c].phase = "none" /\ Asks(c) < MaxTurns[c]
    /\ \E parts \in Inputs(c), direct \in BOOLEAN, chained \in BOOLEAN :
          /\ direct => CanBeDirect
          /\ chained => api = "responses" /\ parent[c] # NoId
                        /\ Get(tenant[c], parent[c]) # NoEntry
          /\ LET asked == IF api = "responses" THEN ResponsesCall(c, parts, direct, chained)
                          ELSE WholeCall(c, parts, direct)
             IN  call' = [call EXCEPT ![c] =
                            [phase |-> "asked", id |-> FreshId(c), parts |-> parts, direct |-> direct,
                             sent |-> asked.body.sent, prompt |-> asked.body.prompt,
                             asText |-> asked.body.asText, conversation |-> asked.conversation,
                             told |-> <<>>]]
    /\ UNCHANGED <<setup, said, parent, store, restarts>>

\* Any error of the provider, the kernel or SurrealKV: the client is told nothing.
Fail(c) ==
    /\ call[c].phase \in {"asked", "kv"}
    /\ call' = [call EXCEPT ![c] = NoCall]
    /\ UNCHANGED <<setup, said, parent, store, restarts>>

-----------------------------------------------------------------------------
(* The answer.                                                             *)

Search == <<"search">>
Offered == Tools

\* What a provider may answer: a text, a text that holds the markup of a call,
\* calls, or a text and a call.
Answers(c) ==
    LET n == Len(said[c]) + 2
        text == <<"answer", c, n>>
        One(tool) == <<Part("call", CallId(c, n, 1, tool), tool)>>
        Two == <<Part("call", <<"call", c, n, 1>>, Search), Part("call", <<"call", c, n, 2>>, ReadFile)>>
    IN  IF texting THEN {Answer(text, NoBody, <<>>)}
        ELSE {Answer(text, NoBody, <<>>), Answer(text, NoBody, One(Search))}
             \cup (IF api = "legacy" THEN {Answer(NoText, NoBody, One(ReadFile))}
                   ELSE {Answer(NoText, NoBody, Two), Answer(text, Search, <<>>)})

\* What the client reads of an answer of the kernel, by API.
KernelParts(a, calls) == IF calls = <<>> THEN Texts(a.text) ELSE calls
ToldByKernel(c, a, passed) ==
    LET fresh == <<"told", c, Len(said[c]) + 2>>
        calls == IF api = "messages" THEN a.calls ELSE KernelCalls(a, passed, Offered, fresh)
    IN  KernelParts(a, IF api = "responses" THEN Map(calls, LAMBDA x : Adapted(x, Offered)) ELSE calls)

\* What is kept of it: the id of a written call is made up once more.
KeptParts(c, a, passed) ==
    KernelParts(a, Map(KernelCalls(a, passed, Offered, <<"kept", c, Len(said[c]) + 2>>),
                       LAMBDA x : Adapted(x, Offered)))

\* An answer on the direct path goes through, Responses tell no text with calls.
PassedThrough(c, a) ==
    IF api = "messages" THEN a ELSE DirectAnswer(a, Offered, <<"told", c, Len(said[c]) + 2>>)

DirectCalls(answer) == Map(answer.calls, LAMBDA x : Adapted(x, Offered))
DirectParts(answer) ==
    IF api = "responses" THEN KernelParts(answer, DirectCalls(answer))
    ELSE Texts(answer.text) \o answer.calls

\* What is kept of it.
KeptDirectly(answer) ==
    IF answer.calls = <<>> THEN Texts(answer.text) ELSE DirectCalls(answer)

AssistantTurn(parts) ==
    Message("assistant", Those(parts, {"text"}), Those(parts, {"call"}), NoId)

\* The dialogue with the request and its answer.
Talk(c, told) == said[c] \o <<Turn("user", call[c].parts), Turn("assistant", told)>>

Learn(c, told, id) ==
    /\ said' = [said EXCEPT ![c] = Talk(c, told)]
    /\ parent' = [parent EXCEPT ![c] = id]

ToPut(c) == Response(tenant[c], call[c].conversation, Talk(c, call[c].told))

\* The answer; with storing it is told once it has been stored.
AnswerCall(c) ==
    /\ call[c].phase = "asked"
    /\ \E a \in Answers(c), passed \in BOOLEAN, storing \in BOOLEAN :
          /\ passed => a.calls = <<>>
          /\ call[c].direct \/ a.calls # <<>> => ~passed
          /\ storing => api = "responses"
          /\ LET told == IF call[c].direct THEN DirectParts(PassedThrough(c, a))
                         ELSE ToldByKernel(c, a, passed)
                 kept == IF call[c].direct THEN KeptDirectly(PassedThrough(c, a))
                         ELSE KeptParts(c, a, passed)
             IN  IF storing
                 THEN /\ call' = [call EXCEPT ![c].phase = IF hasKv THEN "kv" ELSE "memory",
                                              ![c].told = told, ![c].sent = <<>>,
                                              ![c].conversation = Append(@, AssistantTurn(kept))]
                      /\ UNCHANGED <<said, parent>>
                 ELSE Learn(c, told, NoId) /\ call' = [call EXCEPT ![c] = NoCall]
    /\ UNCHANGED <<setup, store, restarts>>

PutKv(c) ==
    /\ call[c].phase = "kv"
    /\ kv' = Put(kv, KvKey(tenant[c], call[c].id), ToPut(c))
    /\ call' = [call EXCEPT ![c].phase = "memory"]
    /\ UNCHANGED <<setup, said, parent, memory, deleting, gone, restarts>>

PutMemory(c) ==
    /\ call[c].phase = "memory"
    /\ memory' = Put(memory, MemoryKey(tenant[c], call[c].id), ToPut(c))
    /\ Learn(c, call[c].told, call[c].id)
    /\ call' = [call EXCEPT ![c] = NoCall]
    /\ UNCHANGED <<setup, kv, deleting, gone, restarts>>

-----------------------------------------------------------------------------
(* Other calls of the clients, and restarts.                               *)

\* A client that has said nothing learns an id from another one, and writes what
\* it likes before it; what it finds there it also reads.
Adopt(c, d) ==
    /\ api = "responses" /\ c # d /\ said[c] = <<>> /\ call[c] = NoCall /\ parent[c] = NoId
    /\ parent[d] # NoId
    /\ \E p \in IdPrefixes :
          LET id == <<p, parent[d][2]>>
          IN  /\ parent' = [parent EXCEPT ![c] = id]
              /\ said' = [said EXCEPT ![c] = Get(tenant[c], id).turns]
    /\ UNCHANGED <<setup, call, store, restarts>>

\* Ids under which a tenant finds something.
Findable(t) ==
    {id \in IdPrefixes \X ({k[2][2] : k \in DOMAIN kv} \cup {k[2] : k \in DOMAIN memory}) :
        Get(t, id) # NoEntry}

\* A deletion goes by the key of SurrealKV, then by that of memory.
DeleteKv ==
    /\ deleting = <<>>
    /\ \E c \in Chats : \E id \in Findable(tenant[c]) :
          /\ kv' = Drop(kv, KvKey(tenant[c], id))
          /\ deleting' = <<tenant[c], id>>
    /\ UNCHANGED <<setup, clients, memory, gone, restarts>>

InMemory(asked) == MemoryKey(asked[1], asked[2])

\* Mutant of DeleteMemory: what is in SurrealKV is deleted there only.
DeleteMemoryLeft ==
    /\ deleting # <<>>
    /\ memory' = IF hasKv THEN memory ELSE Drop(memory, InMemory(deleting))
    /\ deleting' = <<>> /\ gone' = gone \cup {deleting}
    /\ UNCHANGED <<setup, clients, kv, restarts>>

\* A deletion that overlaps the request which is storing confirms nothing.
Storing(key) == \E c \in Chats : call[c].phase = "memory" /\ MemoryKey(tenant[c], call[c].id) = key

DeleteMemory ==
    /\ deleting # <<>>
    /\ memory' = Drop(memory, InMemory(deleting))
    /\ deleting' = <<>>
    /\ gone' = IF Storing(InMemory(deleting)) THEN gone ELSE gone \cup {deleting}
    /\ UNCHANGED <<setup, clients, kv, restarts>>

Restart ==
    /\ restarts < MaxRestarts /\ restarts' = restarts + 1
    /\ call' = [c \in Chats |-> NoCall]
    /\ memory' = <<>> /\ deleting' = <<>>
    /\ UNCHANGED <<setup, said, parent, kv, gone>>

-----------------------------------------------------------------------------

TalkInit ==
    /\ api \in {"responses", "chat", "legacy", "messages"}
    /\ backend \in {"openai", "gemma", "anthropic"}
    /\ texting \in BOOLEAN
    /\ tenant \in [Chats -> Tenants]
    /\ hasKv \in BOOLEAN
    /\ said = [c \in Chats |-> <<>>] /\ parent = [c \in Chats |-> NoId]
    /\ call = [c \in Chats |-> NoCall]
    /\ kv = <<>> /\ memory = <<>> /\ deleting = <<>> /\ gone = {} /\ restarts = 0

TalkNext ==
    \/ \E c \in Chats : Ask(c) \/ Fail(c) \/ AnswerCall(c) \/ PutKv(c) \/ PutMemory(c)
    \/ \E c, d \in Chats : Adopt(c, d)
    \/ DeleteKv \/ DeleteMemory \/ Restart

TalkSpec == TalkInit /\ [][TalkNext]_talkVars

-----------------------------------------------------------------------------
(* Properties.                                                             *)

Entries(turns) == FlattenSeq(Map(turns, LAMBDA t : Map(t.parts, LAMBDA x : Entry(t.who, x))))
Meant(c) == Entries(Append(said[c], Turn("user", call[c].parts)))
Bodies(messages) == {Read(messages)[i].body : i \in DOMAIN Read(messages)}

\* The provider is shown what the client has said and been told, no more and no
\* less, in that order and with every result at its call.
Shows(c) ==
    IF call[c].asText THEN \A i \in DOMAIN Meant(c) :
                              Meant(c)[i].kind = "file" \/ Meant(c)[i].body \in Bodies(call[c].sent)
    ELSE Read(call[c].sent) = Meant(c)

\* Where that is known not to hold: what stands beside results in a message of
\* the Messages API is lost on servers of OpenAI's format; files of the other
\* format are told as text; two calls of one older function share their id; and
\* the id of a written call differs in a conversation that was kept.
BesideResults(c) ==
    /\ api = "messages" /\ backend # "anthropic"
    /\ \E t \in {said[c][i] : i \in DOMAIN said[c]} \cup {Turn("user", call[c].parts)} :
          Those(t.parts, {"result"}) # <<>> /\ Those(t.parts, {"result"}) # t.parts

ForeignFile(c) ==
    /\ ~call[c].direct /\ (api = "messages") # (backend = "anthropic")
    /\ \E i \in DOMAIN Meant(c) : Meant(c)[i].kind = "file"

SharedIds(c) ==
    \E i, j \in DOMAIN Meant(c) : i # j /\ Meant(c)[i].kind = "call" /\ Meant(c)[j].kind = "call"
                                  /\ Meant(c)[i].id = Meant(c)[j].id

WrittenCallTold(c) == \E i \in DOMAIN Meant(c) : Meant(c)[i].kind = "call" /\ Meant(c)[i].id[1] = "told"

\* With those exceptions every request shows its provider the whole dialogue, in
\* any API, to any backend, on either path, sent again or continued by an id.
ShowsTheDialogue ==
    \A c \in Chats :
       call[c].phase = "asked" /\ ~BesideResults(c) /\ ~ForeignFile(c) /\ ~SharedIds(c)
       /\ ~WrittenCallTold(c) => Shows(c)

\* The instructions are in the prompt of every request, once (lines that the
\* gateway adds of its own are left out here), however the
\* conversation is continued.
RulesOnce == \A c \in Chats : call[c].phase = "asked" => call[c].prompt = <<Rules(c)>>

\* The conversation in which it has been said, as a text, a file or a result; the
\* name of a tool is anybody's.
SpokenBy(body) ==
    CASE Len(body) \in {3, 4} -> {body[2]}
      [] Len(body) = 2 /\ body[1] = "json" -> {body[2][2]}
      [] OTHER -> {}

\* Those whose words the provider of client c is shown.
HeardWith(c) ==
    UNION {SpokenBy(Read(call[c].sent)[i].body) : i \in DOMAIN Read(call[c].sent)}

\* No request shows the provider what a client of another tenant has said, not
\* even one that continues a response of the other tenant by its id.  One
\* exception: where the name of a tenant is that of the asking one, a colon and
\* more, the asking one can write the rest before an id and finds it in memory.
TenantsApart ==
    \A c \in Chats : \A d \in HeardWith(c) : IsPrefix(tenant[c], tenant[d])

\* What README.md:206 says: "previous_response_id reloads the stored conversation
\* messages for the same tenant only".
TenantsIsolated ==
    \A c \in Chats : \A d \in HeardWith(c) : tenant[d] = tenant[c]

\* A response whose deletion has been confirmed cannot be read or continued any
\* more by the tenant, from the store or from memory, before or after a restart.
DeletedStaysDeleted ==
    \A asked \in gone : /\ KvKey(asked[1], asked[2]) \notin DOMAIN kv
                        /\ InMemory(asked) \notin DOMAIN memory
=============================================================================
