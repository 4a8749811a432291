--------------------------- MODULE MCContextStore ---------------------------
(* Three requests with small records, most of them of one context. *)
EXTENDS ContextStore

CONSTANTS c1, c2

Rec(name, size, about) == [name |-> name, size |-> size, about |-> about]

MCInbound == <<
    <<Rec("a", 1, {"x"})>>,
    <<Rec("b", 2, {}), Rec("blank", 0, {}), Rec("c", 1, {"x"})>>,
    <<Rec("d", 1, {})>> >>

MCReply == <<Rec("A", 1, {}), Rec("B", 2, {"x"}), Rec("D", 1, {"x"})>>

Plain == [context |-> c1, enabled |-> TRUE, cache |-> TRUE, append |-> TRUE, streamed |-> FALSE,
          rewind |-> Never, query |-> {"x"}, bytes |-> 7, chunks |-> 9, tail |-> 1,
          space |-> NoSpace, profile |-> "model"]

MCRecords == {MCReply[t] : t \in Turns} \cup UNION {Range(MCInbound[t]) : t \in Turns}

MCConfigs == {
    Plain,
    [Plain EXCEPT !.rewind = 3],
    [Plain EXCEPT !.query = {}, !.bytes = 4, !.tail = 2, !.streamed = TRUE],
    [Plain EXCEPT !.cache = FALSE, !.append = FALSE, !.chunks = 1, !.space = "mine"],
    [Plain EXCEPT !.context = c2, !.enabled = FALSE]}

\* The records above are told apart, as LogIsWhole needs.
ASSUME MCRecordsAreApart == RecordsTellTurns

=============================================================================
