---------------------------- MODULE ContextStore ----------------------------
(***************************************************************************)
(* Persistent contexts: a request that names a context is given text       *)
(* assembled from the context's chunks before it runs, and its messages    *)
(* and answer are appended when it has run.  The chunks, the head and the  *)
(* cached packs of assembled text live in a versioned key-value store; the *)
(* requests of one context interleave between its transactions.            *)
(*                                                                         *)
(* A text is a sequence of units, each the revision of the chunk it comes  *)
(* from; Gap is the blank line between two chunks.                         *)
(***************************************************************************)
EXTENDS Integers, Sequences, FiniteSets, FiniteSetsExt, SequencesExt

CONSTANTS
    Contexts,    \* the contexts, each of one tenant
    Turns,       \* the requests
    Configs,     \* the "metadata.context" a request may carry
    Records,     \* the records a context may hold
    Inbound,     \* Inbound[t]: the records made of the messages of t
    Reply,       \* Reply[t]: the record made of its answer
    ByteLimit,   \* DEFAULT_MAX_CONTEXT_BYTES, in units
    ChunkLimit,  \* DEFAULT_MAX_CHUNKS
    MaxCrashes   \* bound on restarts of the server

VARIABLES
    head,      \* head[c]: latest_revision of the stored head, 0 without one
    versions,  \* versions[c]: the revisions at which a head was stored
    chunks,    \* chunks[c]: the stored chunks, a function of the revision
    packs,     \* the stored packs
    conf,      \* conf[t]: the context options request t carries
    pc,        \* pc[t]: the step it takes next
    view,      \* view[t]: the assembly it holds
    records,   \* records[t]: what it is to append
    seen,      \* seen[t]: the latest revision its open append has read
    late,      \* the requests whose open transaction another commit overtook
    crashes

store == <<head, versions, chunks>>
append == <<records, seen>>
vars == <<store, packs, conf, pc, view, append, late, crashes>>

Gap == 0
Never == 0         \* no rewind revision
NoSpace == "none"  \* no cache namespace of its own

------------------------------------------------------------------------------
(* Records and options.  A record says how long it is (`size`) and which    *)
(* query terms it holds (`about`); a size of 0 is text that trims to        *)
(* nothing.                                                                 *)

Least(a, b) == IF a < b THEN a ELSE b

Kept(rs) == SelectSeq(rs, LAMBDA r : r.size > 0)

\* context_records_from_request leaves out the messages without text.
Messages(t) == Kept(Inbound[t])

ASSUME RecordsAssumption ==
    /\ \A t \in Turns : Messages(t) \in Seq(Records) /\ Reply[t] \in Records
    /\ \A r \in Records : r.size \in Nat /\ IsFiniteSet(r.about)

ASSUME ConfigsAssumption ==
    \A c \in Configs :
        /\ c.context \in Contexts
        /\ c.rewind \in Nat /\ c.bytes \in Nat /\ c.chunks \in Nat /\ c.tail \in Nat

ASSUME LimitsAssumption == ByteLimit \in Nat /\ ChunkLimit \in Nat

Clamp(n, limit) == IF n < 1 THEN 1 ELSE Least(n, limit)

\* ContextRuntimeConfig::from_metadata
Asked(t) ==
    [conf[t] EXCEPT !.bytes = Least(@, ByteLimit), !.chunks = Least(@, ChunkLimit), !.tail = Least(@, ChunkLimit)]

\* The namespace of the cache is the one asked for, or one for the model,
\* tools, thinking and system prompt of the request.
Space(t) == IF conf[t].space # NoSpace THEN conf[t].space ELSE conf[t].profile

\* Without a query of its own a request asks for the words of its last user message.
Query(t) == IF conf[t].query # {} \/ Messages(t) = <<>> THEN conf[t].query ELSE Last(Messages(t)).about

\* ContextAssemblyOptions::normalized
Options(t) ==
    LET maxChunks == Clamp(Asked(t).chunks, ChunkLimit)
    IN [bytes  |-> Clamp(Asked(t).bytes, ByteLimit),
        chunks |-> maxChunks,
        tail   |-> Least(Asked(t).tail, maxChunks),
        query  |-> Query(t),
        space  |-> Space(t)]

------------------------------------------------------------------------------
(* Choosing and rendering chunks.                                           *)

Score(chunk, query) == Cardinality(chunk.about \cap query)

IsRecent(i, to, o) == i > to - o.tail

\* The higher score first, then the recent tail, then the later revision.
Before(c, to, o, i, j) ==
    LET score(k)  == Score(c[k], o.query)
        recent(k) == IsRecent(k, to, o)
    IN \/ score(i) > score(j)
       \/ score(i) = score(j) /\ recent(i) /\ ~recent(j)
       \/ score(i) = score(j) /\ (recent(i) <=> recent(j)) /\ i > j

Candidates(c, from, to, o) ==
    {i \in from .. to : o.query = {} \/ Score(c[i], o.query) > 0 \/ IsRecent(i, to, o)}

\* The last of some candidates in the order in which they are taken.
LastTaken(c, to, o, s) == CHOOSE j \in s : \A i \in s \ {j} : Before(c, to, o, i, j)

Take(c, o, i, acc) ==
    IF \/ Cardinality(acc.taken) >= o.chunks
       \/ acc.taken # {} /\ acc.bytes + c[i].size > o.bytes
    THEN acc
    ELSE [taken |-> acc.taken \cup {i}, bytes |-> acc.bytes + c[i].size]

\* The revisions of from .. to that a text is made of.
Chosen(c, from, to, o) ==
    MapThenFoldSet(LAMBDA i, acc : Take(c, o, i, acc), [taken |-> {}, bytes |-> 0],
                   LAMBDA i : i, LAMBDA s : LastTaken(c, to, o, s), Candidates(c, from, to, o)).taken

\* The unit before the text of a chunk is its "[context revision=.. role=..]" line.
Part(c, i) == [n \in 1 .. c[i].size + 1 |-> i]

Joined(text, part) == IF text = <<>> \/ part = <<>> THEN text \o part ELSE text \o <<Gap>> \o part

WithPart(text, part, max) == IF Len(Joined(text, part)) <= max THEN Joined(text, part) ELSE text

\* The parts that fit, by their revisions.
Rendered(c, revisions, max) ==
    MapThenFoldSet(LAMBDA part, text : WithPart(text, part, max), <<>>,
                   LAMBDA i : Part(c, i), LAMBDA s : Max(s), revisions)

\* trim_to_char_boundary drops the beginning.
Trimmed(text, max) == IF Len(text) <= max THEN text ELSE SubSeq(text, Len(text) - max + 1, Len(text))

\* The text made of all chunks up to a revision, or of a pack and the chunks after it.
FromChunks(c, to, o) == Rendered(c, Chosen(c, 1, to, o), o.bytes)

FromPack(c, base, to, o) ==
    LET room == IF Len(base.text) > o.bytes THEN 0 ELSE o.bytes - Len(base.text)
        tail == Rendered(c, Chosen(c, base.revision + 1, to, o), room)
    IN Trimmed(Joined(base.text, tail), o.bytes)

------------------------------------------------------------------------------
(* The versioned store: a read at a revision finds the latest version that  *)
(* is not newer.                                                            *)

\* (a mistake: the newest head, cut at the rewind revision)
HeadAtCut(c, rewind) == IF rewind = Never THEN head[c] ELSE Least(rewind, head[c])

HeadAt(c, rewind) ==
    IF rewind = Never THEN head[c] ELSE Max({v \in versions[c] : v <= rewind} \cup {0})

\* The hash of the policy leaves out the rewind revision and the cache switch.
PackKey(t) == <<conf[t].context, Options(t)>>

PacksAt(key, revision) == {p \in packs : p.key = key /\ p.revision <= revision}

PackAt(key, revision) ==
    CHOOSE p \in PacksAt(key, revision) : \A q \in PacksAt(key, revision) : q.revision <= p.revision

NoPack == [revision |-> 0, text |-> <<>>, included |-> 0]

Context(t) == conf[t].context

At(t, step) == pc[t] = step

\* A commit makes every other open transaction that writes the same key too late.
Overtake(open, t) == late' = (late \cup open) \ {t}

------------------------------------------------------------------------------
NoView == [target |-> 0, base |-> NoPack, text |-> <<>>, included |-> 0]

Init ==
    /\ head = [c \in Contexts |-> 0]
    /\ versions = [c \in Contexts |-> {}]
    /\ chunks = [c \in Contexts |-> [i \in {} |-> NoPack]]
    /\ packs = {}
    /\ conf \in [Turns -> Configs]
    /\ pc = [t \in Turns |-> "prepare"]
    /\ view = [t \in Turns |-> NoView]
    /\ records = [t \in Turns |-> <<>>]
    /\ seen = [t \in Turns |-> 0]
    /\ late = {}
    /\ crashes = 0

Goto(t, step) == pc' = [pc EXCEPT ![t] = step]

\* The revision up to which a request is shown its context.
Target(t) == HeadAt(Context(t), conf[t].rewind)

\* prepare, and assemble up to its first read.
ReadHead(t) ==
    /\ At(t, "prepare")
    /\ IF ~conf[t].enabled \/ Target(t) = 0
       THEN Goto(t, "run") /\ UNCHANGED view
       ELSE /\ Goto(t, IF conf[t].cache THEN "pack" ELSE "load")
            /\ view' = [view EXCEPT ![t].target = Target(t)]
    /\ UNCHANGED <<store, packs, conf, append, late, crashes>>

\* read_pack_at: a pack of the revision is the text; an older one is its beginning.
ReadPack(t) ==
    LET found == PacksAt(PackKey(t), view[t].target)
        pack  == PackAt(PackKey(t), view[t].target)
    IN /\ At(t, "pack")
       /\ \/ /\ found # {} /\ pack.revision = view[t].target
             /\ Goto(t, "run")
             /\ view' = [view EXCEPT ![t].text = pack.text, ![t].included = pack.included]
          \/ /\ found # {} /\ pack.revision < view[t].target
             /\ Goto(t, "load")
             /\ view' = [view EXCEPT ![t].base =
                   [revision |-> pack.revision, text |-> pack.text, included |-> pack.included]]
          \/ found = {} /\ Goto(t, "load") /\ UNCHANGED view
       /\ UNCHANGED <<store, packs, conf, append, late, crashes>>

\* load_chunks, choose_chunks, render_chunks.
Load(t) ==
    LET c      == chunks[Context(t)]
        base   == view[t].base
        target == view[t].target
        loaded == {i \in DOMAIN c : base.revision < i /\ i <= target}
    IN /\ At(t, "load")
       /\ Goto(t, IF conf[t].cache THEN "write" ELSE "run")
       /\ view' = [view EXCEPT
              ![t].text = IF base = NoPack THEN FromChunks(c, target, Options(t))
                          ELSE FromPack(c, base, target, Options(t)),
              ![t].included = base.included + Cardinality(loaded)]
       /\ UNCHANGED <<store, packs, conf, append, late, crashes>>

\* write_pack opens its transaction ...
BeginPack(t) ==
    /\ At(t, "write") /\ Goto(t, "writing")
    /\ late' = late \ {t}
    /\ UNCHANGED <<store, packs, conf, view, append, crashes>>

\* ... and commits it; a conflict fails the request.
CommitPack(t) ==
    LET pack == [key |-> PackKey(t), revision |-> view[t].target,
                 text |-> view[t].text, included |-> view[t].included]
        same == {p \in packs : p.key = pack.key /\ p.revision = pack.revision}
    IN /\ At(t, "writing")
       /\ \/ /\ t \notin late
             /\ packs' = (packs \ same) \cup {pack}
             /\ Overtake({u \in Turns : At(u, "writing") /\ PackKey(u) = PackKey(t)}, t)
             /\ Goto(t, "run")
          \/ t \in late /\ Goto(t, "failed") /\ UNCHANGED <<packs, late>>
       /\ UNCHANGED <<store, conf, view, append, crashes>>

\* The kernel's answer, which may be blank; the records of the messages were
\* taken before the context was put in front of them.
Run(t) ==
    /\ At(t, "run") /\ ~conf[t].streamed
    /\ \E answer \in {<<>>, <<Reply[t]>>} :
         /\ records' = [records EXCEPT ![t] = Messages(t) \o answer]
         /\ Goto(t, IF conf[t].enabled /\ conf[t].append /\ records'[t] # <<>> THEN "append" ELSE "done")
    /\ UNCHANGED <<store, packs, conf, view, seen, late, crashes>>

RunFails(t) ==
    /\ At(t, "run") /\ Goto(t, "failed")
    /\ UNCHANGED <<store, packs, conf, view, append, late, crashes>>

\* A direct stream is handed to the client; nothing finalizes its context.
RunStreams(t) ==
    /\ At(t, "run") /\ conf[t].streamed /\ Goto(t, "done")
    /\ UNCHANGED <<store, packs, conf, view, append, late, crashes>>

\* append: one transaction reads the head and writes the chunks and the new head.
BeginAppend(t) ==
    /\ At(t, "append") /\ Goto(t, "appending")
    /\ seen' = [seen EXCEPT ![t] = head[Context(t)]]
    /\ late' = late \ {t}
    /\ UNCHANGED <<store, packs, conf, view, records, crashes>>

\* (a mistake: the records start at the head's own revision)
RevisionFromHead(latest, k) == latest + k - 1

\* The revision of the k-th record of an append that read `latest`.
Revision(latest, k) == latest + k

Appended(c, latest, rs) ==
    [i \in DOMAIN c \cup {Revision(latest, k) : k \in 1 .. Len(rs)} |->
        IF \E k \in 1 .. Len(rs) : Revision(latest, k) = i
        THEN rs[CHOOSE k \in 1 .. Len(rs) : Revision(latest, k) = i] ELSE c[i]]

\* (a mistake: the head is read before the transaction, which then conflicts with nothing)
CommitBlind(t) ==
    LET c == Context(t)
        latest == seen[t] + Len(records[t])
    IN /\ chunks' = [chunks EXCEPT ![c] = Appended(@, seen[t], records[t])]
       /\ head' = [head EXCEPT ![c] = latest]
       /\ versions' = [versions EXCEPT ![c] = @ \cup {latest}]
       /\ Goto(t, "done") /\ UNCHANGED late

Commit(t) ==
    LET c == Context(t)
        latest == seen[t] + Len(records[t])
    IN /\ t \notin late
       /\ chunks' = [chunks EXCEPT ![c] = Appended(@, seen[t], records[t])]
       /\ head' = [head EXCEPT ![c] = latest]
       /\ versions' = [versions EXCEPT ![c] = @ \cup {latest}]
       /\ Overtake({u \in Turns : At(u, "appending") /\ Context(u) = c}, t)
       /\ Goto(t, "done")

CommitAppend(t) ==
    /\ At(t, "appending")
    /\ \/ Commit(t)
       \/ t \in late /\ Goto(t, "failed") /\ UNCHANGED <<store, late>>
    /\ UNCHANGED <<packs, conf, view, append, crashes>>

\* A restart loses the requests and, of what was committed without
\* Durability::Immediate, any part: packs, never chunks or heads.
Crash ==
    /\ crashes < MaxCrashes
    /\ crashes' = crashes + 1
    /\ packs' \in SUBSET packs
    /\ pc' = [t \in Turns |-> IF At(t, "done") THEN "done" ELSE "failed"]
    /\ UNCHANGED <<store, conf, view, append, late>>

Step(t) ==
    \/ ReadHead(t) \/ ReadPack(t) \/ Load(t) \/ BeginPack(t) \/ CommitPack(t)
    \/ Run(t) \/ RunFails(t) \/ RunStreams(t) \/ BeginAppend(t) \/ CommitAppend(t)

Next == Crash \/ \E t \in Turns : Step(t)

Spec == Init /\ [][Next]_vars

------------------------------------------------------------------------------
(* Properties.                                                              *)

\* The records of a turn that is recorded with its answer.
WholeTurn(t) == Messages(t) \o <<Reply[t]>>

Exchanges == {Messages(t) : t \in Turns} \cup {WholeTurn(t) : t \in Turns}

LogOf(c) == [i \in 1 .. head[c] |-> chunks[c][i]]

\* A context is a log to which turns are appended whole: two requests that
\* read the same head never share a revision, and no chunk is lost or split
\* off its turn by another request or a restart.
Log == INSTANCE ContextLog WITH log <- [c \in Contexts |-> LogOf(c)]

\* The store, with all its transactions and restarts, implements that log (append).
ImplementsLog == Log!Spec

\* The head counts the chunks that are stored: none above it, none missing below.
ChunksAreCounted == \A c \in Contexts : DOMAIN chunks[c] = 1 .. head[c]

\* The places of the log where the records of t stand together, in order.
Places(t) ==
    {i \in 0 .. head[Context(t)] - Len(records[t]) :
        \A k \in 1 .. Len(records[t]) : LogOf(Context(t))[i + k] = records[t][k]}

\* A request answered with its context on left its records in the log once,
\* whatever the others appended before and after it.
AnsweredIsRecorded ==
    \A t \in Turns : At(t, "done") /\ conf[t].enabled /\ conf[t].append /\ records[t] # <<>>
        => Cardinality(Places(t)) = 1

\* No two records are alike, so a record found in a log tells its turn and its
\* place there.  Only then can "once" be seen: two clients may say the same.
RecordsTellTurns ==
    \A t, u \in Turns : \A i \in DOMAIN WholeTurn(t), j \in DOMAIN WholeTurn(u) :
        WholeTurn(t)[i] = WholeTurn(u)[j] => t = u /\ i = j

\* The log is whole: no chunk is lost or written twice, whichever appends,
\* packs and crashes overlap (append, assemble).
LogIsWhole == ChunksAreCounted /\ AnsweredIsRecorded

\* What a request is shown, fresh or from a pack, ends with a whole turn, is
\* not newer than the revision it rewinds to, counts every chunk up to there,
\* holds no chunk after it, keeps the order of the log and its byte limit.
ShowsWholeTurns ==
    \A t \in Turns :
        LET text  == view[t].text
            units == {n \in DOMAIN text : text[n] # Gap}
        IN text # <<>> =>
             /\ view[t].target \in versions[Context(t)]
             /\ conf[t].rewind # Never => view[t].target <= conf[t].rewind
             /\ view[t].included = view[t].target
             /\ Len(text) <= Options(t).bytes
             /\ \A n \in units : text[n] <= view[t].target
             /\ \A m, n \in units : m < n => text[m] <= text[n]
=============================================================================
