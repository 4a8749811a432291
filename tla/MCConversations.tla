---------------------------- MODULE MCConversations ----------------------------
EXTENDS Conversations

MCTools == {Search, Shell}
MCMaxTurns == [c \in Chats |-> 2]

\* Two companies, and a part of the first.
Acme == <<"acme">>
MCTenants == {Acme, <<"other">>, <<"acme", "emea">>}
MCPrefixes == {<<>>, <<"emea">>}

\* What is translated and what is stored are looked at in turn: one conversation
\* of anything without restarts for all formats, two of texts for the store, which
\* only the Responses API uses.
MCInit ==
    /\ TalkInit
    /\ tenant["a"] = Acme
    /\ IF texting THEN api = "responses" /\ backend = "openai"
       ELSE ~hasKv /\ tenant["b"] = Acme
MCSpec == MCInit /\ [][TalkNext]_talkVars

\* At most two deletions; a restart that leaves nothing stored behind is left out.
MCBound ==
    /\ Cardinality(gone) < 2
    /\ ~texting => call["b"] = NoCall /\ parent["b"] = NoId /\ deleting = <<>>
    /\ ~texting \/ ~hasKv => restarts = 0
=============================================================================
