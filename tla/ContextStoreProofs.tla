------------------------- MODULE ContextStoreProofs -------------------------
(***************************************************************************)
(* For any number of requests, contexts, records and restarts: the head    *)
(* counts the stored chunks, the store implements ContextLog, the log is   *)
(* whole, and what a request is shown ends with a whole turn.              *)
(*                                                                         *)
(* A commit appends to the log it read only if that log is still the       *)
(* current one: an open append that no commit has overtaken has seen the   *)
(* current head.  What a request is shown holds because every pack holds   *)
(* it too, and no restart brings back a pack that was never true.          *)
(*                                                                         *)
(* Choosing and rendering are folds over sets.  Their lemmas say that the  *)
(* table of a fold exists, and then what is in it: a smallest wrong entry  *)
(* is made by one step of the fold from a right one.                       *)
(***************************************************************************)
EXTENDS ContextStore, SequenceTheorems, FiniteSetTheorems, TLAPS

ChunkMaps == UNION {[1 .. n -> Records] : n \in Nat}

Steps == {"prepare", "pack", "load", "write", "writing", "run", "append", "appending", "done", "failed"}

TypeInv ==
    /\ head \in [Contexts -> Nat]
    /\ chunks \in [Contexts -> ChunkMaps]
    /\ conf \in [Turns -> Configs]
    /\ pc \in [Turns -> Steps]
    /\ records \in [Turns -> Seq(Records)]
    /\ seen \in [Turns -> Nat]
    /\ late \subseteq Turns

TurnsAreExchanges ==
    \A t \in Turns : pc[t] \in {"append", "appending"} => records[t] \in Exchanges

OpenAppendsAreCurrent ==
    \A t \in Turns : pc[t] = "appending" /\ t \notin late => seen[t] = head[Context(t)]

\* A request holds the records of its own turn, and none before its run.
RecordsAreOwn ==
    \A t \in Turns :
        /\ records[t] \in {<<>>, Messages(t), WholeTurn(t)}
        /\ pc[t] \in {"prepare", "pack", "load", "write", "writing", "run"} => records[t] = <<>>

\* The records of an answered request stand together somewhere in its log.
AnsweredHavePlace ==
    \A t \in Turns : pc[t] = "done" /\ conf[t].enabled /\ conf[t].append /\ records[t] # <<>>
        => Places(t) # {}

\* What a log holds was left by a request that is done.
ChunksHaveTurns ==
    \A c \in Contexts : \A i \in 1 .. head[c] :
        \E u \in Turns : pc[u] = "done" /\ \E k \in DOMAIN WholeTurn(u) : chunks[c][i] = WholeTurn(u)[k]

NoChunkTwice ==
    \A c \in Contexts : \A i, j \in 1 .. head[c] : chunks[c][i] = chunks[c][j] => i = j

IInv == TypeInv /\ ChunksAreCounted /\ TurnsAreExchanges /\ OpenAppendsAreCurrent

\* Chunks stored after the last one are the records, in their order.
LEMMA AppendedConcatenates ==
    ASSUME NEW n \in Nat, NEW c \in [1 .. n -> Records], NEW rs \in Seq(Records)
    PROVE  /\ Appended(c, n, rs) \in [1 .. n + Len(rs) -> Records]
           /\ [i \in 1 .. n + Len(rs) |-> Appended(c, n, rs)[i]] = [i \in 1 .. n |-> c[i]] \o rs
           /\ \A i \in 1 .. n + Len(rs) : Appended(c, n, rs)[i] = IF i <= n THEN c[i] ELSE rs[i - n]
<1> DEFINE new == Appended(c, n, rs)
           old == [i \in 1 .. n |-> c[i]]
<1>1. Len(rs) \in Nat /\ \A k \in 1 .. Len(rs) : rs[k] \in Records
  BY ElementOfSeq, LenProperties
<1>2. {Revision(n, k) : k \in 1 .. Len(rs)} = n + 1 .. n + Len(rs)
  <2>1. ASSUME NEW i \in n + 1 .. n + Len(rs)
        PROVE  i \in {Revision(n, k) : k \in 1 .. Len(rs)}
    <3>1. i - n \in 1 .. Len(rs) /\ n + (i - n) = i
      BY <1>1
    <3>2. QED
      BY <3>1 DEF Revision
  <2>2. ASSUME NEW k \in 1 .. Len(rs)
        PROVE  Revision(n, k) \in n + 1 .. n + Len(rs)
    BY <1>1 DEF Revision
  <2>3. QED
    BY <2>1, <2>2
<1>3. DOMAIN new = 1 .. n + Len(rs)
  <2>1. DOMAIN c \cup (n + 1 .. n + Len(rs)) = 1 .. n + Len(rs)
    BY <1>1
  <2>2. QED
    BY <1>2, <2>1 DEF Appended
<1>4. ASSUME NEW i \in 1 .. n
      PROVE  new[i] = c[i]
  <2>1. ~ \E k \in 1 .. Len(rs) : Revision(n, k) = i
    BY <1>1 DEF Revision
  <2>2. QED
    BY <1>3, <1>1, <2>1 DEF Appended
<1>5. ASSUME NEW k \in 1 .. Len(rs)
      PROVE  new[n + k] = rs[k]
  <2>1. (CHOOSE j \in 1 .. Len(rs) : Revision(n, j) = n + k) = k
    <3>1. \A j \in 1 .. Len(rs) : Revision(n, j) = n + k <=> j = k
      BY <1>1 DEF Revision
    <3>2. QED
      BY <3>1
  <2>2. \E j \in 1 .. Len(rs) : Revision(n, j) = n + k
    BY DEF Revision
  <2>3. n + k \in DOMAIN new
    BY <1>1, <1>3
  <2>4. QED
    BY <2>1, <2>2, <2>3 DEF Appended
<1>6. ASSUME NEW i \in 1 .. n + Len(rs)
      PROVE  new[i] = IF i <= n THEN c[i] ELSE rs[i - n]
  <2>1. CASE i <= n
    <3>1. i \in 1 .. n
      BY <2>1
    <3>2. QED
      BY <2>1, <3>1, <1>4
  <2>2. CASE i > n
    <3>1. i - n \in 1 .. Len(rs) /\ n + (i - n) = i
      BY <1>1, <2>2
    <3>2. new[i] = rs[i - n]
      BY <3>1, <1>5
    <3>3. QED
      BY <2>2, <3>2, <1>1
  <2>3. QED
    BY <2>1, <2>2, <1>1
<1>7. new \in [1 .. n + Len(rs) -> Records]
  <2>1. ASSUME NEW i \in 1 .. n + Len(rs)
        PROVE  new[i] \in Records
    <3>1. CASE i <= n
      BY <3>1, <1>6
    <3>2. CASE i > n
      <4>1. i - n \in 1 .. Len(rs)
        BY <1>1, <3>2
      <4>2. QED
        BY <4>1, <3>2, <1>1, <1>6
    <3>3. QED
      BY <3>1, <3>2, <1>1
  <2>2. new = [i \in 1 .. n + Len(rs) |-> new[i]]
    BY <1>3 DEF Appended
  <2>3. QED
    BY <2>1, <2>2
<1>8. [i \in 1 .. n + Len(rs) |-> new[i]] = old \o rs
  <2>1. old \in Seq(Records) /\ Len(old) = n
    BY IsASeq
  <2>2. /\ Len(old \o rs) = n + Len(rs)
        /\ old \o rs \in Seq(Records)
        /\ \A i \in 1 .. n + Len(rs) : (old \o rs)[i] = IF i <= n THEN old[i] ELSE rs[i - n]
    BY <2>1, <1>1, ConcatProperties
  <2>3. [i \in 1 .. n + Len(rs) |-> new[i]] \in Seq(Records) /\ Len([i \in 1 .. n + Len(rs) |-> new[i]]) = n + Len(rs)
    BY <1>1, <1>7, IsASeq
  <2>4. ASSUME NEW i \in 1 .. n + Len(rs)
        PROVE  new[i] = (old \o rs)[i]
    <3>1. i <= n => old[i] = c[i]
      OBVIOUS
    <3>2. QED
      BY <3>1, <2>2, <1>6
  <2>5. QED
    BY <2>2, <2>3, <2>4, SeqEqual
<1>9. QED
  BY <1>6, <1>7, <1>8

\* What t is about to append when its run has answered.
LEMMA RunLeavesAnExchange ==
    ASSUME NEW t \in Turns, NEW answer \in {<<>>, <<Reply[t]>>}
    PROVE  Messages(t) \o answer \in Exchanges \cap Seq(Records)
<1>1. Messages(t) \in Seq(Records) /\ answer \in Seq(Records)
  <2>1. Messages(t) \in Seq(Records) /\ Reply[t] \in Records
    BY RecordsAssumption
  <2>2. <<>> \in Seq(Records) /\ <<Reply[t]>> \in Seq(Records)
    BY <2>1
  <2>3. QED
    BY <2>1, <2>2
<1>2. Messages(t) \o answer \in Seq(Records)
  BY <1>1, ConcatProperties
<1>3. Messages(t) \o answer \in Exchanges
  <2>1. CASE answer = <<>>
    <3>1. Messages(t) \o answer = Messages(t)
      BY <1>1, <2>1, ConcatEmptySeq
    <3>2. QED
      BY <3>1 DEF Exchanges
  <2>2. CASE answer = <<Reply[t]>>
    BY <2>2 DEF Exchanges, WholeTurn
  <2>3. QED
    BY <2>1, <2>2
<1>4. QED
  BY <1>2, <1>3

\* A commit puts the records of its turn behind the log, and only there.
LEMMA CommitAppends ==
    ASSUME IInv, NEW t \in Turns, CommitAppend(t), Commit(t)
    PROVE  /\ head' = [head EXCEPT ![Context(t)] = @ + Len(records[t])]
           /\ chunks' \in [Contexts -> ChunkMaps]
           /\ ChunksAreCounted'
           /\ \A c \in Contexts :
                LogOf(c)' = IF c = Context(t) THEN LogOf(c) \o records[t] ELSE LogOf(c)
<1> DEFINE c == Context(t)
           n == head[c]
           rs == records[t]
<1>1. c \in Contexts /\ n \in Nat /\ rs \in Seq(Records) /\ Len(rs) \in Nat /\ seen[t] = n
  BY ConfigsAssumption, LenProperties
     DEF IInv, TypeInv, OpenAppendsAreCurrent, CommitAppend, Commit, At, Context
<1>2. chunks[c] \in [1 .. n -> Records]
  BY <1>1 DEF IInv, TypeInv, ChunksAreCounted, ChunkMaps
<1>3. /\ Appended(chunks[c], n, rs) \in [1 .. n + Len(rs) -> Records]
      /\ [i \in 1 .. n + Len(rs) |-> Appended(chunks[c], n, rs)[i]] = [i \in 1 .. n |-> chunks[c][i]] \o rs
  BY <1>1, <1>2, AppendedConcatenates
<1>4. /\ chunks' = [chunks EXCEPT ![c] = Appended(chunks[c], n, rs)]
      /\ head' = [head EXCEPT ![c] = n + Len(rs)]
  BY <1>1 DEF Commit, IInv, TypeInv
<1>5. /\ chunks'[c] = Appended(chunks[c], n, rs) /\ head'[c] = n + Len(rs)
      /\ \A d \in Contexts \ {c} : chunks'[d] = chunks[d] /\ head'[d] = head[d]
  BY <1>1, <1>4 DEF IInv, TypeInv
<1>6. Appended(chunks[c], n, rs) \in ChunkMaps
  <2>1. n + Len(rs) \in Nat
    BY <1>1
  <2>2. QED
    BY <2>1, <1>3 DEF ChunkMaps
<1>7. chunks' \in [Contexts -> ChunkMaps]
  BY <1>4, <1>6 DEF IInv, TypeInv
<1>8. ChunksAreCounted'
  <2>1. ASSUME NEW d \in Contexts
        PROVE  DOMAIN chunks'[d] = 1 .. head'[d]
    <3>1. CASE d = c
      BY <3>1, <1>3, <1>5
    <3>2. CASE d # c
      BY <3>2, <1>5 DEF IInv, ChunksAreCounted
    <3>3. QED
      BY <3>1, <3>2
  <2>2. QED
    BY <2>1 DEF ChunksAreCounted
<1>9. ASSUME NEW d \in Contexts
      PROVE  LogOf(d)' = IF d = c THEN LogOf(d) \o rs ELSE LogOf(d)
  <2>1. LogOf(d)' = [i \in 1 .. head'[d] |-> chunks'[d][i]] /\ LogOf(d) = [i \in 1 .. head[d] |-> chunks[d][i]]
    BY DEF LogOf
  <2>2. CASE d = c
    BY <2>1, <2>2, <1>3, <1>5
  <2>3. CASE d # c
    BY <2>1, <2>3, <1>5
  <2>4. QED
    BY <2>2, <2>3
<1>10. QED
  BY <1>1, <1>4, <1>7, <1>8, <1>9

\* Every other step leaves the log alone.
LEMMA OthersKeepStore ==
    ASSUME [Next]_vars, \A t \in Turns : ~ (CommitAppend(t) /\ Commit(t))
    PROVE  UNCHANGED store
<1>1. CASE Crash
  BY <1>1 DEF Crash
<1>2. ASSUME NEW t \in Turns, Step(t)
      PROVE  UNCHANGED store
  BY <1>2 DEF Step, ReadHead, ReadPack, Load, BeginPack, CommitPack, Run, RunFails, RunStreams,
              BeginAppend, CommitAppend
<1>3. CASE UNCHANGED vars
  BY <1>3 DEF vars
<1>4. QED
  BY <1>1, <1>2, <1>3 DEF Next

\* The turns keep to the invariant in every step.
LEMMA TypeStep ==
    ASSUME IInv, [Next]_vars
    PROVE  TypeInv'
<1> USE DEF IInv, TypeInv, Goto, Steps
<1>1. ASSUME NEW t \in Turns, Step(t)
      PROVE  TypeInv'
  <2>1. CASE ReadHead(t)    BY <2>1 DEF ReadHead, store, append
  <2>2. CASE ReadPack(t)    BY <2>2 DEF ReadPack, store, append
  <2>3. CASE Load(t)        BY <2>3 DEF Load, store, append
  <2>4. CASE BeginPack(t)   BY <2>4 DEF BeginPack, store, append
  <2>5. CASE CommitPack(t)  BY <2>5 DEF CommitPack, Overtake, store, append
  <2>6. CASE Run(t)
    <3>1. PICK answer \in {<<>>, <<Reply[t]>>} :
             records' = [records EXCEPT ![t] = Messages(t) \o answer]
      BY <2>6 DEF Run
    <3>2. records' \in [Turns -> Seq(Records)]
      BY <3>1, RunLeavesAnExchange
    <3>3. QED
      BY <2>6, <3>2 DEF Run, store
  <2>7. CASE RunFails(t)    BY <2>7 DEF RunFails, store, append
  <2>8. CASE RunStreams(t)  BY <2>8 DEF RunStreams, store, append
  <2>9. CASE BeginAppend(t)
    <3>1. head[Context(t)] \in Nat
      BY ConfigsAssumption DEF Context
    <3>2. QED
      BY <2>9, <3>1 DEF BeginAppend, store
  <2>10. CASE CommitAppend(t)
    <3>1. CASE Commit(t)
      <4>1. chunks' \in [Contexts -> ChunkMaps]
        BY <2>10, <3>1, CommitAppends
      <4>2. head' \in [Contexts -> Nat]
        <5>1. head' = [head EXCEPT ![Context(t)] = @ + Len(records[t])]
          BY <2>10, <3>1, CommitAppends
        <5>2. Context(t) \in Contexts /\ Len(records[t]) \in Nat
          BY ConfigsAssumption, LenProperties DEF Context
        <5>3. QED
          BY <5>1, <5>2
      <4>3. late' \subseteq Turns
        BY <3>1 DEF Commit, Overtake
      <4>4. QED
        BY <2>10, <3>1, <4>1, <4>2, <4>3 DEF CommitAppend, Commit, append
    <3>2. CASE ~ Commit(t)
      BY <2>10, <3>2 DEF CommitAppend, store, append
    <3>3. QED
      BY <3>1, <3>2
  <2>11. QED
    BY <1>1, <2>1, <2>2, <2>3, <2>4, <2>5, <2>6, <2>7, <2>8, <2>9, <2>10 DEF Step
<1>2. CASE Crash
  BY <1>2 DEF Crash, store, append
<1>3. CASE UNCHANGED vars
  BY <1>3 DEF vars, store, append
<1>4. QED
  BY <1>1, <1>2, <1>3 DEF Next

\* A step keeps the head counting the chunks.
LEMMA CountStep ==
    ASSUME IInv, [Next]_vars
    PROVE  ChunksAreCounted'
<1>1. CASE \E t \in Turns : CommitAppend(t) /\ Commit(t)
  BY <1>1, CommitAppends
<1>2. CASE \A t \in Turns : ~ (CommitAppend(t) /\ Commit(t))
  BY <1>2, OthersKeepStore DEF IInv, ChunksAreCounted, store
<1>3. QED
  BY <1>1, <1>2

\* A request reaches its append with the records its run has left it.
LEMMA ExchangeStep ==
    ASSUME IInv, [Next]_vars
    PROVE  TurnsAreExchanges'
<1> USE DEF IInv, TypeInv, TurnsAreExchanges, Goto, At
<1>1. ASSUME NEW t \in Turns, Step(t)
      PROVE  TurnsAreExchanges'
  <2>1. CASE Run(t)
    <3>1. PICK answer \in {<<>>, <<Reply[t]>>} :
             records' = [records EXCEPT ![t] = Messages(t) \o answer]
      BY <2>1 DEF Run
    <3>2. records'[t] \in Exchanges
      BY <3>1, RunLeavesAnExchange
    <3>3. \A u \in Turns \ {t} : records'[u] = records[u] /\ pc'[u] = pc[u]
      BY <2>1, <3>1 DEF Run
    <3>4. QED
      BY <3>2, <3>3
  <2>2. CASE ReadHead(t)      BY <2>2 DEF ReadHead, append
  <2>3. CASE ReadPack(t)      BY <2>3 DEF ReadPack, append
  <2>4. CASE Load(t)          BY <2>4 DEF Load, append
  <2>5. CASE BeginPack(t)     BY <2>5 DEF BeginPack, append
  <2>6. CASE CommitPack(t)    BY <2>6 DEF CommitPack, append
  <2>7. CASE RunFails(t)      BY <2>7 DEF RunFails, append
  <2>8. CASE RunStreams(t)    BY <2>8 DEF RunStreams, append
  <2>9. CASE BeginAppend(t)   BY <2>9 DEF BeginAppend
  <2>10. CASE CommitAppend(t) BY <2>10 DEF CommitAppend, Commit, append
  <2>11. QED
    BY <1>1, <2>1, <2>2, <2>3, <2>4, <2>5, <2>6, <2>7, <2>8, <2>9, <2>10 DEF Step
<1>2. CASE Crash
  BY <1>2 DEF Crash, append
<1>3. CASE UNCHANGED vars
  BY <1>3 DEF vars, append
<1>4. QED
  BY <1>1, <1>2, <1>3 DEF Next

\* Only a commit moves a head, and it overtakes the other appends to that context.
LEMMA CurrentStep ==
    ASSUME IInv, [Next]_vars
    PROVE  OpenAppendsAreCurrent'
<1> USE DEF IInv, TypeInv, OpenAppendsAreCurrent, Goto, At, Context
<1>1. ASSUME NEW t \in Turns, Step(t)
      PROVE  OpenAppendsAreCurrent'
  <2>1. CASE BeginAppend(t)
    <3>1. pc'[t] = "appending" /\ seen'[t] = head'[Context(t)'] /\ Context(t)' = Context(t)
      BY <2>1 DEF BeginAppend, store
    <3>2. \A u \in Turns \ {t} : pc'[u] = pc[u] /\ seen'[u] = seen[u] /\ (u \in late' <=> u \in late)
      BY <2>1 DEF BeginAppend
    <3>3. head' = head /\ conf' = conf
      BY <2>1 DEF BeginAppend, store
    <3>4. QED
      BY <3>1, <3>2, <3>3
  <2>2. CASE CommitAppend(t)
    <3>1. CASE Commit(t)
      <4>1. \A d \in Contexts : d # Context(t) => head'[d] = head[d]
        BY <3>1 DEF Commit
      <4>2. /\ conf' = conf /\ seen' = seen
            /\ pc' = [pc EXCEPT ![t] = "done"]
            /\ late' = (late \cup {u \in Turns : pc[u] = "appending" /\ conf[u].context = conf[t].context}) \ {t}
        BY <2>2, <3>1 DEF CommitAppend, Commit, Overtake, append
      <4>3. \A u \in Turns : conf[u].context \in Contexts
        BY ConfigsAssumption
      <4>4. ASSUME NEW u \in Turns, pc'[u] = "appending", u \notin late'
            PROVE  seen'[u] = head'[Context(u)']
        <5>1. u # t /\ pc[u] = "appending"
          BY <4>2, <4>4
        <5>2. u \notin late /\ conf[u].context # conf[t].context
          BY <4>2, <4>4, <5>1
        <5>3. QED
          BY <4>1, <4>2, <4>3, <5>1, <5>2
      <4>5. QED
        BY <4>4
    <3>2. CASE ~ Commit(t)
      BY <2>2, <3>2 DEF CommitAppend, store, append
    <3>3. QED
      BY <3>1, <3>2
  <2>3. CASE CommitPack(t)
    <3>1. head' = head /\ conf' = conf /\ seen' = seen
      BY <2>3 DEF CommitPack, store, append
    <3>2. \A u \in Turns : pc'[u] = "appending" => pc[u] = "appending"
      BY <2>3 DEF CommitPack
    <3>3. \A u \in Turns : pc'[u] = "appending" /\ u \notin late' => u \notin late
      BY <2>3 DEF CommitPack, Overtake
    <3>4. QED
      BY <3>1, <3>2, <3>3
  <2>4. CASE BeginPack(t)
    <3>1. head' = head /\ conf' = conf /\ seen' = seen
      BY <2>4 DEF BeginPack, store, append
    <3>2. \A u \in Turns : pc'[u] = "appending" => pc[u] = "appending" /\ u # t
      BY <2>4 DEF BeginPack
    <3>3. QED
      BY <2>4, <3>1, <3>2 DEF BeginPack
  <2>5. CASE ReadHead(t)      BY <2>5 DEF ReadHead, store, append
  <2>6. CASE ReadPack(t)      BY <2>6 DEF ReadPack, store, append
  <2>7. CASE Load(t)          BY <2>7 DEF Load, store, append
  <2>8. CASE Run(t)           BY <2>8 DEF Run, store
  <2>9. CASE RunFails(t)      BY <2>9 DEF RunFails, store, append
  <2>10. CASE RunStreams(t)   BY <2>10 DEF RunStreams, store, append
  <2>11. QED
    BY <1>1, <2>1, <2>2, <2>3, <2>4, <2>5, <2>6, <2>7, <2>8, <2>9, <2>10 DEF Step
<1>2. CASE Crash
  <2>1. \A u \in Turns : pc'[u] # "appending"
    BY <1>2 DEF Crash
  <2>2. QED
    BY <2>1
<1>3. CASE UNCHANGED vars
  BY <1>3 DEF vars, store, append
<1>4. QED
  BY <1>1, <1>2, <1>3 DEF Next

\* The invariant holds in every reachable state.
LEMMA Invariance == Spec => []IInv
<1>1. Init => IInv
  <2>1. ASSUME Init
        PROVE  TypeInv
    <3>1. [i \in {} |-> NoPack] \in [1 .. 0 -> Records] /\ 0 \in Nat
      <4>1. 1 .. 0 = {}
        OBVIOUS
      <4>2. [i \in {} |-> NoPack] \in [{} -> Records]
        OBVIOUS
      <4>3. QED
        BY <4>1, <4>2
    <3>2. [i \in {} |-> NoPack] \in ChunkMaps
      BY <3>1 DEF ChunkMaps
    <3>3. \A t \in Turns : <<>> \in Seq(Records)
      OBVIOUS
    <3>4. QED
      BY <2>1, <3>2, <3>3 DEF Init, TypeInv, Steps
  <2>2. ASSUME Init
        PROVE  ChunksAreCounted /\ TurnsAreExchanges /\ OpenAppendsAreCurrent
    <3>1. ASSUME NEW c \in Contexts
          PROVE  DOMAIN chunks[c] = 1 .. head[c]
      <4>1. chunks[c] = [i \in {} |-> NoPack] /\ head[c] = 0
        BY <2>2 DEF Init
      <4>2. DOMAIN chunks[c] = {} /\ 1 .. 0 = {}
        BY <4>1
      <4>3. QED
        BY <4>1, <4>2
    <3>2. QED
      BY <2>2, <3>1 DEF Init, ChunksAreCounted, TurnsAreExchanges, OpenAppendsAreCurrent
  <2>3. QED
    BY <2>1, <2>2 DEF IInv
<1>2. IInv /\ [Next]_vars => IInv'
  BY TypeStep, CountStep, ExchangeStep, CurrentStep DEF IInv
<1>3. QED
  BY <1>1, <1>2, PTL DEF Spec

\* The head counts exactly the chunks that are stored.
THEOREM CountsChunks == Spec => []ChunksAreCounted
<1>1. IInv => ChunksAreCounted
  BY DEF IInv
<1>2. QED
  BY <1>1, Invariance, PTL

\* A step appends one whole turn to one log or changes no log.
LEMMA LogStep ==
    ASSUME IInv, [Next]_vars
    PROVE  [Log!Next]_([c \in Contexts |-> LogOf(c)])
<1>1. CASE \E t \in Turns : CommitAppend(t) /\ Commit(t)
  <2>1. PICK t \in Turns : CommitAppend(t) /\ Commit(t)
    BY <1>1
  <2>2. Context(t) \in Contexts /\ records[t] \in Exchanges
    BY <2>1, ConfigsAssumption DEF IInv, TypeInv, TurnsAreExchanges, CommitAppend, At, Context
  <2>3. \A c \in Contexts : LogOf(c)' = IF c = Context(t) THEN LogOf(c) \o records[t] ELSE LogOf(c)
    BY <2>1, CommitAppends
  <2>4. [c \in Contexts |-> LogOf(c)]' =
          [[c \in Contexts |-> LogOf(c)] EXCEPT ![Context(t)] = @ \o records[t]]
    BY <2>2, <2>3
  <2>5. Log!AppendTurn(Context(t))
    BY <2>2, <2>4 DEF Log!AppendTurn
  <2>6. QED
    BY <2>2, <2>5 DEF Log!Next
<1>2. CASE \A t \in Turns : ~ (CommitAppend(t) /\ Commit(t))
  BY <1>2, OthersKeepStore DEF LogOf, store
<1>3. QED
  BY <1>1, <1>2

\* Each context is a log that grows by whole turns.
THEOREM Refinement == Spec => ImplementsLog
<1>1. Init => Log!Init
  BY DEF Init, Log!Init, LogOf
<1>2. QED
  BY <1>1, LogStep, Invariance, PTL DEF Spec, ImplementsLog, Log!Spec

------------------------------------------------------------------------------
(* Nothing is lost or written twice.                                        *)

\* What a commit does to the chunks of its context, and to the others'.
LEMMA CommitChunks ==
    ASSUME IInv, NEW t \in Turns, CommitAppend(t), Commit(t)
    PROVE  LET c == Context(t)
           IN /\ c \in Contexts
              /\ head'[c] = head[c] + Len(records[t])
              /\ \A i \in 1 .. head'[c] :
                   chunks'[c][i] = IF i <= head[c] THEN chunks[c][i] ELSE records[t][i - head[c]]
              /\ \A d \in Contexts \ {c} : chunks'[d] = chunks[d] /\ head'[d] = head[d]
<1> DEFINE c == Context(t)
           n == head[c]
           rs == records[t]
<1>1. c \in Contexts /\ n \in Nat /\ rs \in Seq(Records) /\ seen[t] = n
  BY ConfigsAssumption
     DEF IInv, TypeInv, OpenAppendsAreCurrent, CommitAppend, Commit, At, Context
<1>2. chunks[c] \in [1 .. n -> Records]
  BY <1>1 DEF IInv, TypeInv, ChunksAreCounted, ChunkMaps
<1>3. \A i \in 1 .. n + Len(rs) : Appended(chunks[c], n, rs)[i] = IF i <= n THEN chunks[c][i] ELSE rs[i - n]
  BY <1>1, <1>2, AppendedConcatenates
<1>4. /\ chunks'[c] = Appended(chunks[c], n, rs) /\ head'[c] = n + Len(rs)
      /\ \A d \in Contexts \ {c} : chunks'[d] = chunks[d] /\ head'[d] = head[d]
  BY <1>1 DEF Commit, IInv, TypeInv
<1>5. QED
  BY <1>1, <1>3, <1>4

\* A request holds the beginning of its turn.
LEMMA OwnPart ==
    ASSUME NEW t \in Turns, records[t] \in {<<>>, Messages(t), WholeTurn(t)}
    PROVE  /\ Len(records[t]) \in Nat
           /\ \A k \in 1 .. Len(records[t]) :
                k \in DOMAIN WholeTurn(t) /\ records[t][k] = WholeTurn(t)[k]
<1>1. Messages(t) \in Seq(Records) /\ <<Reply[t]>> \in Seq(Records) /\ Len(<<Reply[t]>>) = 1
  <2>1. Messages(t) \in Seq(Records) /\ Reply[t] \in Records
    BY RecordsAssumption
  <2>2. QED
    BY <2>1
<1>2. /\ WholeTurn(t) \in Seq(Records)
      /\ Len(WholeTurn(t)) = Len(Messages(t)) + 1
      /\ \A k \in 1 .. Len(WholeTurn(t)) :
           WholeTurn(t)[k] = IF k <= Len(Messages(t)) THEN Messages(t)[k] ELSE <<Reply[t]>>[k - Len(Messages(t))]
  BY <1>1, ConcatProperties DEF WholeTurn
<1>3. Len(Messages(t)) \in Nat /\ DOMAIN WholeTurn(t) = 1 .. Len(WholeTurn(t))
  BY <1>1, <1>2, LenProperties
<1>4. CASE records[t] = <<>>
  BY <1>4
<1>5. CASE records[t] = Messages(t)
  BY <1>2, <1>3, <1>5
<1>6. CASE records[t] = WholeTurn(t)
  BY <1>2, <1>3, <1>6
<1>7. QED
  BY <1>4, <1>5, <1>6

\* A request fills its records when its run has answered, and never again.
LEMMA OwnStep ==
    ASSUME IInv, RecordsAreOwn, [Next]_vars
    PROVE  RecordsAreOwn'
<1> USE DEF IInv, TypeInv, RecordsAreOwn, Goto, At
<1>1. ASSUME NEW t \in Turns, Step(t)
      PROVE  RecordsAreOwn'
  <2>1. CASE Run(t)
    <3>1. PICK answer \in {<<>>, <<Reply[t]>>} :
             records' = [records EXCEPT ![t] = Messages(t) \o answer]
      BY <2>1 DEF Run
    <3>2. Messages(t) \o answer \in {Messages(t), WholeTurn(t)}
      <4>1. Messages(t) \o <<>> = Messages(t)
        BY RecordsAssumption, ConcatEmptySeq
      <4>2. QED
        BY <4>1 DEF WholeTurn
    <3>3. pc'[t] \in {"append", "done"}
      BY <2>1 DEF Run
    <3>4. \A u \in Turns \ {t} : records'[u] = records[u] /\ pc'[u] = pc[u]
      BY <2>1, <3>1 DEF Run
    <3>5. records'[t] \in {Messages(t), WholeTurn(t)}
      BY <3>1, <3>2
    <3>6. QED
      BY <3>3, <3>4, <3>5
  <2>2. CASE ReadHead(t)      BY <2>2 DEF ReadHead, append
  <2>3. CASE ReadPack(t)      BY <2>3 DEF ReadPack, append
  <2>4. CASE Load(t)          BY <2>4 DEF Load, append
  <2>5. CASE BeginPack(t)     BY <2>5 DEF BeginPack, append
  <2>6. CASE CommitPack(t)    BY <2>6 DEF CommitPack, append
  <2>7. CASE RunFails(t)      BY <2>7 DEF RunFails, append
  <2>8. CASE RunStreams(t)    BY <2>8 DEF RunStreams, append
  <2>9. CASE BeginAppend(t)   BY <2>9 DEF BeginAppend
  <2>10. CASE CommitAppend(t) BY <2>10 DEF CommitAppend, Commit, append
  <2>11. QED
    BY <1>1, <2>1, <2>2, <2>3, <2>4, <2>5, <2>6, <2>7, <2>8, <2>9, <2>10 DEF Step
<1>2. CASE Crash
  BY <1>2 DEF Crash, append
<1>3. CASE UNCHANGED vars
  BY <1>3 DEF vars, append
<1>4. QED
  BY <1>1, <1>2, <1>3 DEF Next

\* What is done stays done, with the same records; and a request that has
\* records for its log is done by a commit only.
LEMMA DoneStep ==
    ASSUME IInv, RecordsAreOwn, [Next]_vars, NEW t \in Turns
    PROVE  /\ conf' = conf
           /\ pc[t] = "done" => pc'[t] = "done" /\ records'[t] = records[t]
           /\ pc[t] # "done" /\ pc'[t] = "done" /\ conf[t].enabled /\ conf[t].append /\ records'[t] # <<>>
                => CommitAppend(t) /\ Commit(t)
<1> USE DEF IInv, TypeInv, RecordsAreOwn, Goto, At
<1>1. ASSUME NEW u \in Turns, Step(u)
      PROVE  /\ conf' = conf
             /\ pc[t] = "done" => pc'[t] = "done" /\ records'[t] = records[t]
             /\ pc[t] # "done" /\ pc'[t] = "done" /\ conf[t].enabled /\ conf[t].append /\ records'[t] # <<>>
                  => CommitAppend(t) /\ Commit(t)
  <2>1. CASE ReadHead(u)      BY <2>1 DEF ReadHead, append
  <2>2. CASE ReadPack(u)      BY <2>2 DEF ReadPack, append
  <2>3. CASE Load(u)          BY <2>3 DEF Load, append
  <2>4. CASE BeginPack(u)     BY <2>4 DEF BeginPack, append
  <2>5. CASE CommitPack(u)    BY <2>5 DEF CommitPack, append
  <2>6. CASE Run(u)
    <3>1. PICK answer \in {<<>>, <<Reply[u]>>} :
             /\ records' = [records EXCEPT ![u] = Messages(u) \o answer]
             /\ Goto(u, IF conf[u].enabled /\ conf[u].append /\ records'[u] # <<>> THEN "append" ELSE "done")
      BY <2>6 DEF Run
    <3>2. conf' = conf /\ pc[u] = "run"
      BY <2>6 DEF Run
    <3>3. CASE t = u
      BY <3>1, <3>2, <3>3
    <3>4. CASE t # u
      BY <3>1, <3>2, <3>4
    <3>5. QED
      BY <3>3, <3>4
  <2>7. CASE RunFails(u)      BY <2>7 DEF RunFails, append
  <2>8. CASE RunStreams(u)    BY <2>8 DEF RunStreams, append
  <2>9. CASE BeginAppend(u)   BY <2>9 DEF BeginAppend
  <2>10. CASE CommitAppend(u)
    <3>1. conf' = conf /\ records' = records /\ pc[u] = "appending"
      BY <2>10 DEF CommitAppend, append
    <3>2. CASE Commit(u)
      <4>1. pc' = [pc EXCEPT ![u] = "done"]
        BY <3>2 DEF Commit
      <4>2. QED
        BY <2>10, <3>1, <3>2, <4>1
    <3>3. CASE ~ Commit(u)
      <4>1. pc' = [pc EXCEPT ![u] = "failed"]
        BY <2>10, <3>3 DEF CommitAppend
      <4>2. QED
        BY <3>1, <4>1
    <3>4. QED
      BY <3>2, <3>3
  <2>11. QED
    BY <1>1, <2>1, <2>2, <2>3, <2>4, <2>5, <2>6, <2>7, <2>8, <2>9, <2>10 DEF Step
<1>2. CASE Crash
  BY <1>2 DEF Crash, append
<1>3. CASE UNCHANGED vars
  BY <1>3 DEF vars, append
<1>4. QED
  BY <1>1, <1>2, <1>3 DEF Next

\* The places of a turn, told by the chunks.
LEMMA PlacesByChunks ==
    ASSUME NEW t \in Turns, NEW n, NEW len \in Nat, n \in Nat,
           n = head[Context(t)], len = Len(records[t])
    PROVE  Places(t) = {i \in 0 .. n - len : \A k \in 1 .. len : chunks[Context(t)][i + k] = records[t][k]}
<1>1. ASSUME NEW i \in 0 .. n - len, NEW k \in 1 .. len
      PROVE  LogOf(Context(t))[i + k] = chunks[Context(t)][i + k]
  <2>1. i + k \in 1 .. n
    BY <1>1
  <2>2. QED
    BY <2>1 DEF LogOf
<1>2. QED
  BY <1>1 DEF Places

\* A turn is put where it can be found, and stays there.
LEMMA PlaceStep ==
    ASSUME IInv, RecordsAreOwn, AnsweredHavePlace, [Next]_vars
    PROVE  AnsweredHavePlace'
<1> SUFFICES ASSUME NEW u \in Turns, pc'[u] = "done", conf'[u].enabled, conf'[u].append, records'[u] # <<>>
             PROVE  Places(u)' # {}
  BY DEF AnsweredHavePlace
<1> DEFINE d == Context(u)
           n == head[d]
           len == Len(records[u])
<1>1. conf' = conf /\ Context(u)' = d
  BY DoneStep DEF Context
<1>2. d \in Contexts /\ n \in Nat /\ len \in Nat /\ records[u] \in Seq(Records)
  BY ConfigsAssumption, LenProperties DEF IInv, TypeInv, Context
<1>3. RecordsAreOwn' /\ TypeInv'
  BY OwnStep, TypeStep
<1>4. head'[d] \in Nat /\ Len(records'[u]) \in Nat
  BY <1>1, <1>2, <1>3, LenProperties DEF TypeInv
<1>5. Places(u)' = {i \in 0 .. head'[d] - Len(records'[u]) :
                      \A k \in 1 .. Len(records'[u]) : chunks'[d][i + k] = records'[u][k]}
  <2>1. ASSUME NEW i \in 0 .. head'[d] - Len(records'[u]), NEW k \in 1 .. Len(records'[u])
        PROVE  LogOf(d)'[i + k] = chunks'[d][i + k]
    <3>1. i + k \in 1 .. head'[d]
      BY <1>4, <2>1
    <3>2. LogOf(d)' = [j \in 1 .. head'[d] |-> chunks'[d][j]]
      BY <1>1 DEF LogOf
    <3>3. QED
      BY <3>1, <3>2
  <2>2. Places(u)' = {i \in 0 .. head'[d] - Len(records'[u]) :
                        \A k \in 1 .. Len(records'[u]) : LogOf(d)'[i + k] = records'[u][k]}
    BY <1>1 DEF Places, LogOf
  <2>3. QED
    BY <2>1, <2>2
<1>6. CASE pc[u] = "done"
  <2>1. records'[u] = records[u]
    BY <1>6, DoneStep
  <2>2. Places(u) # {}
    BY <1>1, <1>6, <2>1 DEF AnsweredHavePlace
  <2>3. PICK i \in 0 .. n - len : \A k \in 1 .. len : chunks[d][i + k] = records[u][k]
    BY <1>2, <2>2, PlacesByChunks
  <2>4. n <= head'[d] /\ \A j \in 1 .. n : chunks'[d][j] = chunks[d][j]
    <3>1. CASE \E t \in Turns : CommitAppend(t) /\ Commit(t)
      <4>1. PICK t \in Turns : CommitAppend(t) /\ Commit(t)
        BY <3>1
      <4>2. Len(records[t]) \in Nat
        BY LenProperties DEF IInv, TypeInv
      <4>3. CASE d = Context(t)
        <5>1. head'[d] = n + Len(records[t])
          BY <4>1, <4>3, CommitChunks
        <5>2. \A j \in 1 .. head'[d] : chunks'[d][j] = IF j <= n THEN chunks[d][j] ELSE records[t][j - n]
          BY <4>1, <4>3, CommitChunks
        <5>3. QED
          BY <1>2, <4>2, <5>1, <5>2
      <4>4. CASE d # Context(t)
        <5>1. chunks'[d] = chunks[d] /\ head'[d] = head[d]
          BY <1>2, <4>1, <4>4, CommitChunks
        <5>2. QED
          BY <1>2, <5>1
      <4>5. QED
        BY <4>3, <4>4
    <3>2. CASE \A t \in Turns : ~ (CommitAppend(t) /\ Commit(t))
      BY <1>2, <3>2, OthersKeepStore DEF store
    <3>3. QED
      BY <3>1, <3>2
  <2>5. ASSUME NEW k \in 1 .. len
        PROVE  chunks'[d][i + k] = records'[u][k]
    <3>1. i + k \in 1 .. n
      BY <1>2, <2>3
    <3>2. QED
      BY <2>1, <2>3, <2>4, <3>1
  <2>6. i \in 0 .. head'[d] - len
    BY <1>2, <1>4, <2>4
  <2>7. QED
    BY <1>5, <2>1, <2>5, <2>6
<1>7. CASE pc[u] # "done"
  <2>1. CommitAppend(u) /\ Commit(u)
    BY <1>1, <1>7, DoneStep
  <2>2. records' = records
    BY <2>1 DEF CommitAppend, append
  <2>3. head'[d] = n + len
    BY <2>1, CommitChunks
  <2>4. \A j \in 1 .. head'[d] : chunks'[d][j] = IF j <= n THEN chunks[d][j] ELSE records[u][j - n]
    BY <2>1, CommitChunks
  <2>5. ASSUME NEW k \in 1 .. len
        PROVE  chunks'[d][n + k] = records'[u][k]
    <3>1. n + k \in 1 .. head'[d] /\ ~ (n + k <= n) /\ (n + k) - n = k
      BY <1>2, <2>3
    <3>2. chunks'[d][n + k] = records[u][(n + k) - n]
      BY <2>4, <3>1
    <3>3. QED
      BY <2>2, <3>1, <3>2
  <2>6. n \in 0 .. head'[d] - len
    BY <1>2, <2>3
  <2>7. QED
    BY <1>5, <2>2, <2>5, <2>6
<1>8. QED
  BY <1>6, <1>7

\* A log holds what finished requests have left in it.
LEMMA HaveTurnsStep ==
    ASSUME IInv, RecordsAreOwn, ChunksHaveTurns, [Next]_vars
    PROVE  ChunksHaveTurns'
<1> SUFFICES ASSUME NEW c \in Contexts, NEW i \in 1 .. head'[c]
             PROVE  \E u \in Turns : pc'[u] = "done" /\ \E k \in DOMAIN WholeTurn(u) : chunks'[c][i] = WholeTurn(u)[k]
  BY DEF ChunksHaveTurns
<1>1. ASSUME i \in 1 .. head[c], chunks'[c][i] = chunks[c][i]
      PROVE  \E u \in Turns : pc'[u] = "done" /\ \E k \in DOMAIN WholeTurn(u) : chunks'[c][i] = WholeTurn(u)[k]
  BY <1>1, DoneStep DEF ChunksHaveTurns
<1>2. CASE \E t \in Turns : CommitAppend(t) /\ Commit(t)
  <2>1. PICK t \in Turns : CommitAppend(t) /\ Commit(t)
    BY <1>2
  <2>2. CASE c # Context(t)
    <3>1. chunks'[c] = chunks[c] /\ head'[c] = head[c]
      BY <2>1, <2>2, CommitChunks
    <3>2. QED
      BY <1>1, <3>1
  <2>3. CASE c = Context(t)
    <3>1. head[c] \in Nat
      BY DEF IInv, TypeInv
    <3>2. head'[c] = head[c] + Len(records[t])
      BY <2>1, <2>3, CommitChunks
    <3>3. chunks'[c][i] = IF i <= head[c] THEN chunks[c][i] ELSE records[t][i - head[c]]
      BY <2>1, <2>3, CommitChunks
    <3>4. CASE i <= head[c]
      BY <1>1, <3>1, <3>3, <3>4
    <3>5. CASE ~ (i <= head[c])
      <4>1. records[t] \in {<<>>, Messages(t), WholeTurn(t)}
        BY DEF RecordsAreOwn
      <4>2. Len(records[t]) \in Nat
        BY <4>1, OwnPart
      <4>3. i - head[c] \in 1 .. Len(records[t])
        BY <3>1, <3>2, <3>5, <4>2
      <4>4. i - head[c] \in DOMAIN WholeTurn(t) /\ chunks'[c][i] = WholeTurn(t)[i - head[c]]
        BY <3>3, <3>5, <4>1, <4>3, OwnPart
      <4>5. pc'[t] = "done"
        BY <2>1 DEF Commit, Goto, IInv, TypeInv
      <4>6. QED
        BY <4>4, <4>5
    <3>6. QED
      BY <3>4, <3>5
  <2>4. QED
    BY <2>2, <2>3
<1>3. CASE \A t \in Turns : ~ (CommitAppend(t) /\ Commit(t))
  <2>1. chunks' = chunks /\ head' = head
    BY <1>3, OthersKeepStore DEF store
  <2>2. QED
    BY <1>1, <2>1
<1>4. QED
  BY <1>2, <1>3

\* A commit brings records that its log does not hold: they are of a turn that
\* was not done.
LEMMA OnceStep ==
    ASSUME RecordsTellTurns, IInv, RecordsAreOwn, ChunksHaveTurns, NoChunkTwice, [Next]_vars
    PROVE  NoChunkTwice'
<1> SUFFICES ASSUME NEW c \in Contexts, NEW i \in 1 .. head'[c], NEW j \in 1 .. head'[c], i < j
             PROVE  chunks'[c][i] # chunks'[c][j]
  <2>1. \A c \in Contexts : head'[c] \in Nat
    BY TypeStep DEF TypeInv
  <2>2. QED
    BY <2>1 DEF NoChunkTwice
<1>1. ASSUME i \in 1 .. head[c], j \in 1 .. head[c],
             chunks'[c][i] = chunks[c][i], chunks'[c][j] = chunks[c][j]
      PROVE  chunks'[c][i] # chunks'[c][j]
  BY <1>1 DEF NoChunkTwice
<1>2. CASE \E t \in Turns : CommitAppend(t) /\ Commit(t)
  <2>1. PICK t \in Turns : CommitAppend(t) /\ Commit(t)
    BY <1>2
  <2>2. CASE c # Context(t)
    <3>1. chunks'[c] = chunks[c] /\ head'[c] = head[c]
      BY <2>1, <2>2, CommitChunks
    <3>2. QED
      BY <1>1, <3>1
  <2>3. CASE c = Context(t)
    <3>1. head[c] \in Nat
      BY DEF IInv, TypeInv
    <3>2. head'[c] = head[c] + Len(records[t])
      BY <2>1, <2>3, CommitChunks
    <3>3. \A k \in 1 .. head'[c] :
             chunks'[c][k] = IF k <= head[c] THEN chunks[c][k] ELSE records[t][k - head[c]]
      BY <2>1, <2>3, CommitChunks
    <3>4. records[t] \in {<<>>, Messages(t), WholeTurn(t)}
      BY DEF RecordsAreOwn
    <3>5. Len(records[t]) \in Nat
      BY <3>4, OwnPart
    <3>6. CASE j <= head[c]
      BY <1>1, <3>1, <3>3, <3>6
    <3>7. CASE ~ (j <= head[c])
      <4>1. j - head[c] \in 1 .. Len(records[t])
        BY <3>1, <3>2, <3>5, <3>7
      <4>2. j - head[c] \in DOMAIN WholeTurn(t) /\ chunks'[c][j] = WholeTurn(t)[j - head[c]]
        BY <3>3, <3>4, <3>7, <4>1, OwnPart
      <4>3. CASE i <= head[c]
        <5>1. chunks'[c][i] = chunks[c][i] /\ i \in 1 .. head[c]
          BY <3>1, <3>3, <4>3
        <5>2. PICK u \in Turns : pc[u] = "done" /\ \E k \in DOMAIN WholeTurn(u) : chunks[c][i] = WholeTurn(u)[k]
          BY <5>1 DEF ChunksHaveTurns
        <5>3. u # t
          BY <2>1, <5>2 DEF CommitAppend, At
        <5>4. QED
          BY <4>2, <5>1, <5>2, <5>3 DEF RecordsTellTurns
      <4>4. CASE ~ (i <= head[c])
        <5>1. i - head[c] \in 1 .. Len(records[t]) /\ i - head[c] # j - head[c]
          BY <3>1, <3>2, <3>5, <4>4
        <5>2. i - head[c] \in DOMAIN WholeTurn(t) /\ chunks'[c][i] = WholeTurn(t)[i - head[c]]
          BY <3>3, <3>4, <4>4, <5>1, OwnPart
        <5>3. QED
          BY <4>2, <5>1, <5>2 DEF RecordsTellTurns
      <4>5. QED
        BY <4>3, <4>4
    <3>8. QED
      BY <3>6, <3>7
  <2>4. QED
    BY <2>2, <2>3
<1>3. CASE \A t \in Turns : ~ (CommitAppend(t) /\ Commit(t))
  <2>1. chunks' = chunks /\ head' = head
    BY <1>3, OthersKeepStore DEF store
  <2>2. QED
    BY <1>1, <2>1
<1>4. QED
  BY <1>2, <1>3

\* A request that was answered with its context on finds its records in the
\* log, together and in their order, whatever else was appended, overtaken or
\* restarted (append, finalize_context).
THEOREM AnswersAreFound == Spec => []AnsweredHavePlace
<1>1. Init => RecordsAreOwn /\ AnsweredHavePlace
  BY DEF Init, RecordsAreOwn, AnsweredHavePlace
<1>2. IInv /\ RecordsAreOwn /\ AnsweredHavePlace /\ [Next]_vars => (RecordsAreOwn /\ AnsweredHavePlace)'
  BY OwnStep, PlaceStep
<1>3. QED
  BY <1>1, <1>2, Invariance, PTL DEF Spec

\* The log is whole, where its records can be told apart: no chunk is lost or
\* written twice, and each answered request is recorded once (append).
THEOREM LogAlwaysWhole == ASSUME RecordsTellTurns PROVE Spec => []LogIsWhole
<1> DEFINE Inv == RecordsAreOwn /\ AnsweredHavePlace /\ ChunksHaveTurns /\ NoChunkTwice
<1>1. Init => Inv
  <2>1. ASSUME NEW c \in Contexts, Init
        PROVE  1 .. head[c] = {}
    BY <2>1 DEF Init
  <2>2. QED
    BY <2>1 DEF Init, RecordsAreOwn, AnsweredHavePlace, ChunksHaveTurns, NoChunkTwice
<1>2. IInv /\ Inv /\ [Next]_vars => Inv'
  BY OwnStep, PlaceStep, HaveTurnsStep, OnceStep
<1>3. ASSUME IInv, Inv
      PROVE  LogIsWhole
  <2>1. ASSUME NEW t \in Turns, pc[t] = "done", conf[t].enabled, conf[t].append, records[t] # <<>>
        PROVE  Cardinality(Places(t)) = 1
    <3>1. PICK p : p \in Places(t)
      BY <1>3, <2>1 DEF AnsweredHavePlace
    <3>2. /\ Context(t) \in Contexts /\ head[Context(t)] \in Nat
          /\ records[t] \in Seq(Records) /\ Len(records[t]) \in Nat
      BY <1>3, ConfigsAssumption, LenProperties DEF IInv, TypeInv, Context
    <3>3. Len(records[t]) >= 1
      BY <2>1, <3>2, EmptySeq
    <3>4. Places(t) = {i \in 0 .. head[Context(t)] - Len(records[t]) :
                         \A k \in 1 .. Len(records[t]) : chunks[Context(t)][i + k] = records[t][k]}
      BY <3>2, PlacesByChunks
    <3>5. ASSUME NEW q \in Places(t)
          PROVE  q = p
      <4>1. chunks[Context(t)][p + 1] = records[t][1] /\ chunks[Context(t)][q + 1] = records[t][1]
        BY <3>1, <3>2, <3>3, <3>4, <3>5
      <4>2. p + 1 \in 1 .. head[Context(t)] /\ q + 1 \in 1 .. head[Context(t)]
        BY <3>1, <3>2, <3>3, <3>4, <3>5
      <4>3. p + 1 = q + 1
        BY <1>3, <3>2, <4>1, <4>2 DEF NoChunkTwice
      <4>4. p \in Int /\ q \in Int
        BY <3>1, <3>4, <3>5
      <4>5. QED
        BY <4>3, <4>4
    <3>6. Places(t) = {p}
      BY <3>1, <3>5
    <3>7. QED
      BY <3>6, FS_Singleton
  <2>2. AnsweredIsRecorded
    BY <2>1 DEF AnsweredIsRecorded, At
  <2>3. QED
    BY <1>3, <2>2 DEF LogIsWhole, IInv
<1>4. QED
  BY <1>1, <1>2, <1>3, Invariance, PTL DEF Spec

------------------------------------------------------------------------------
(* Folds over finite sets.  A fold is a recursive function on the subsets   *)
(* of its set; that there is one, and what holds of it, follows from the    *)
(* smallest subset for which it would fail.                                 *)

\* A set of natural numbers that is not empty has a least element.
LEMMA LeastExists ==
    ASSUME NEW T \in SUBSET Nat, T # {}
    PROVE  \E x \in T : \A y \in T : x <= y
<1>1. PICK x \in T : \A y \in T : <<y, x>> \notin OpToRel(<, Nat)
  BY NatLessThanWellFounded, WFMin
<1>2. \A i, j \in Nat : i < j => <<i, j>> \in OpToRel(<, Nat)
  BY DEF OpToRel
<1>3. ASSUME NEW y \in T
      PROVE  x <= y
  <2>1. x \in Nat /\ y \in Nat
    OBVIOUS
  <2>2. ~(y < x)
    BY <1>1, <1>2, <2>1
  <2>3. QED
    BY <2>1, <2>2
<1>4. QED
  BY <1>3

\* The same upwards, for a set of numbers that has a bound.
LEMMA MaxExists ==
    ASSUME NEW b \in Nat, NEW s \in SUBSET (0 .. b), s # {}
    PROVE  Max(s) \in s /\ \A i \in s : i <= Max(s)
<1> DEFINE T == {b - i : i \in s}
<1>1. T \in SUBSET Nat /\ T # {}
  <2>1. \A i \in s : b - i \in Nat
    OBVIOUS
  <2>2. QED
    BY <2>1
<1>2. PICK d \in T : \A e \in T : d <= e
  BY <1>1, LeastExists
<1>3. PICK x \in s : d = b - x
  BY <1>2
<1>4. ASSUME NEW i \in s
      PROVE  x >= i
  <2>1. b - i \in T
    OBVIOUS
  <2>2. b - x <= b - i
    BY <1>2, <1>3, <2>1
  <2>3. x \in 0 .. b /\ i \in 0 .. b
    OBVIOUS
  <2>4. QED
    BY <2>2, <2>3
<1>5. Max(s) \in s /\ \A i \in s : Max(s) >= i
  BY <1>3, <1>4 DEF Max
<1>6. \A i \in s : i \in Int
  OBVIOUS
<1>7. QED
  BY <1>5, <1>6

HasSmallest(C) == \E s \in C : \A t \in C : t \subseteq s => t = s

\* Among some subsets of a finite set there is one with none below it.
LEMMA Smallest ==
    ASSUME NEW S, IsFiniteSet(S), NEW C \in SUBSET (SUBSET S), C # {}
    PROVE  HasSmallest(C)
<1>1. \A s \in SUBSET S : IsFiniteSet(s) /\ Cardinality(s) \in Nat
  BY FS_Subset, FS_CardinalityType
<1> DEFINE Sizes == {Cardinality(s) : s \in C}
<1>2. PICK n \in Sizes : \A m \in Sizes : n <= m
  <2>1. Sizes \in SUBSET Nat /\ Sizes # {}
    BY <1>1
  <2>2. QED
    BY <2>1, LeastExists
<1>3. PICK s \in C : Cardinality(s) = n
  BY <1>2
<1>4. ASSUME NEW t \in C, t \subseteq s
      PROVE  t = s
  <2>1. IsFiniteSet(s) /\ Cardinality(s) \in Nat /\ Cardinality(t) \in Nat
    BY <1>1
  <2>2. Cardinality(s) <= Cardinality(t)
    BY <1>2, <1>3
  <2>3. Cardinality(t) <= Cardinality(s) /\ (Cardinality(s) = Cardinality(t) => s = t)
    BY <1>4, <2>1, FS_Subset
  <2>4. QED
    BY <2>1, <2>2, <2>3
<1>5. QED
  BY <1>3, <1>4 DEF HasSmallest

\* The values of a fold of S: C takes an element out of a set, F adds it to
\* the value for the rest.
FoldStep(S, base, F, C, h) ==
    [s \in SUBSET S |-> IF s = {} THEN base ELSE F[C[s], h[s \ {C[s]}]]]

HasFold(S, Y, base, F, C) == \E h \in [SUBSET S -> Y] : h = FoldStep(S, base, F, C, h)

\* Every fold over a finite set has its values.
LEMMA FoldExists ==
    ASSUME NEW S, IsFiniteSet(S), NEW Y, NEW base \in Y, NEW F \in [S \X Y -> Y],
           NEW C, \A s \in SUBSET S : s # {} => C[s] \in s
    PROVE  HasFold(S, Y, base, F, C)
<1> DEFINE Small(n) == {s \in SUBSET S : Cardinality(s) <= n}
           Value(h, s) == IF s = {} THEN base ELSE F[C[s], h[s \ {C[s]}]]
           Table(n, h) == h \in [Small(n) -> Y] /\ \A s \in Small(n) : h[s] = Value(h, s)
           Missing == {n \in Nat : ~ \E h : Table(n, h)}
<1>1. \A s \in SUBSET S : IsFiniteSet(s) /\ Cardinality(s) \in Nat
  BY FS_Subset, FS_CardinalityType
<1>2. \A s \in SUBSET S : s # {} => Cardinality(s \ {C[s]}) = Cardinality(s) - 1
  BY <1>1, FS_RemoveElement
<1>3. \A s \in SUBSET S : Cardinality(s) = 0 <=> s = {}
  BY <1>1, FS_EmptySet
<1>4. \E h : Table(0, h)
  <2> DEFINE h == [s \in Small(0) |-> base]
  <2>1. \A s \in Small(0) : s = {}
    BY <1>1, <1>3
  <2>2. Table(0, h)
    BY <2>1
  <2>3. QED
    BY <2>2
<1>5. ASSUME NEW n \in Nat, NEW h, Table(n, h)
      PROVE  \E g : Table(n + 1, g)
  <2> DEFINE g == [s \in Small(n + 1) |-> Value(h, s)]
  <2>1. Small(n) \subseteq Small(n + 1)
    BY <1>1
  <2>2. ASSUME NEW s \in Small(n + 1), s # {}
        PROVE  C[s] \in S /\ s \ {C[s]} \in Small(n)
    BY <1>1, <1>2, <2>2
  <2>3. g \in [Small(n + 1) -> Y]
    <3>1. ASSUME NEW s \in Small(n + 1), s # {}
          PROVE  F[C[s], h[s \ {C[s]}]] \in Y
      <4>1. C[s] \in S /\ h[s \ {C[s]}] \in Y
        BY <1>5, <2>2, <3>1
      <4>2. QED
        BY <4>1
    <3>2. QED
      BY <3>1
  <2>4. \A s \in Small(n) : g[s] = h[s]
    BY <1>5, <2>1
  <2>5. ASSUME NEW s \in Small(n + 1)
        PROVE  g[s] = Value(g, s)
    <3>1. g[s] = Value(h, s)
      OBVIOUS
    <3>2. CASE s = {}
      BY <3>1, <3>2
    <3>3. CASE s # {}
      <4>1. g[s \ {C[s]}] = h[s \ {C[s]}]
        BY <2>2, <2>4, <3>3
      <4>2. QED
        BY <3>1, <3>3, <4>1
    <3>4. QED
      BY <3>2, <3>3
  <2>6. Table(n + 1, g)
    BY <2>3, <2>5
  <2>7. QED
    BY <2>6
<1>6. Missing = {}
  <2>1. SUFFICES ASSUME Missing # {}
                 PROVE  FALSE
    OBVIOUS
  <2> HIDE DEF Table
  <2>2. PICK n \in Missing : \A m \in Missing : n <= m
    BY <2>1, LeastExists
  <2>3. n \in Nat /\ n # 0
    BY <1>4, <2>2
  <2>4. n - 1 \in Nat /\ n - 1 \notin Missing
    BY <2>2, <2>3
  <2>5. \E h : Table(n - 1, h)
    BY <2>4
  <2>6. \E g : Table((n - 1) + 1, g)
    BY <1>5, <2>4, <2>5
  <2>7. (n - 1) + 1 = n
    BY <2>3
  <2>8. QED
    BY <2>2, <2>6, <2>7
<1>7. PICK h : Table(Cardinality(S), h)
  <2> HIDE DEF Table
  <2>1. Cardinality(S) \in Nat
    BY <1>1
  <2>2. QED
    BY <1>6, <2>1
<1>8. Small(Cardinality(S)) = SUBSET S
  BY <1>1, FS_Subset
<1>9. h \in [SUBSET S -> Y] /\ h = FoldStep(S, base, F, C, h)
  BY <1>7, <1>8 DEF FoldStep
<1>10. QED
  BY <1>9 DEF HasFold

------------------------------------------------------------------------------
(* Which chunks are chosen.                                                 *)

\* Among some revisions there is one that is taken last: of the lowest score,
\* and of those the earliest.
LEMMA LastTakenIsThere ==
    ASSUME NEW c, NEW to \in Nat, NEW o, o.tail \in Nat, NEW s \in SUBSET Nat, s # {},
           \A i \in s : Score(c[i], o.query) \in Nat
    PROVE  LastTaken(c, to, o, s) \in s
<1> DEFINE score(i) == Score(c[i], o.query)
           Scores == {score(i) : i \in s}
<1>1. PICK n \in Scores : \A m \in Scores : n <= m
  <2>1. Scores \in SUBSET Nat /\ Scores # {}
    OBVIOUS
  <2>2. QED
    BY <2>1, LeastExists
<1> DEFINE Lowest == {i \in s : score(i) = n}
<1>2. PICK j \in Lowest : \A i \in Lowest : j <= i
  <2>1. Lowest \in SUBSET Nat /\ Lowest # {}
    BY <1>1
  <2>2. QED
    BY <2>1, LeastExists
<1>3. ASSUME NEW i \in s \ {j}
      PROVE  Before(c, to, o, i, j)
  <2>1. score(i) \in Nat /\ score(j) = n /\ n \in Nat /\ n <= score(i) /\ i \in Nat /\ j \in Nat
    BY <1>1, <1>2
  <2>2. score(i) = score(j) => i > j
    BY <1>2, <2>1
  <2>3. i > j /\ IsRecent(j, to, o) => IsRecent(i, to, o)
    BY <2>1 DEF IsRecent
  <2>4. score(i) > score(j) \/ score(i) = score(j)
    BY <2>1
  <2> HIDE DEF score
  <2>5. Before(c, to, o, i, j) <=>
          \/ score(i) > score(j)
          \/ score(i) = score(j) /\ IsRecent(i, to, o) /\ ~IsRecent(j, to, o)
          \/ score(i) = score(j) /\ (IsRecent(i, to, o) <=> IsRecent(j, to, o)) /\ i > j
    BY DEF Before, score
  <2>6. QED
    BY <2>2, <2>3, <2>4, <2>5
<1>4. j \in s /\ \A i \in s \ {j} : Before(c, to, o, i, j)
  BY <1>2, <1>3
<1>5. QED
  BY <1>4 DEF LastTaken

\* The values of the fold that chooses.
TakeStep(c, to, o, S, h) ==
    [s \in SUBSET S |->
        IF s = {} THEN [taken |-> {}, bytes |-> 0]
        ELSE LET x == LastTaken(c, to, o, s) IN Take(c, o, x, h[s \ {x}])]

\* Only chunks of the range that is asked for are chosen.
LEMMA ChosenWithin ==
    ASSUME NEW c, NEW from \in Nat, NEW to \in Nat, NEW o, o.tail \in Nat,
           \A i \in from .. to : c[i].size \in Nat /\ Score(c[i], o.query) \in Nat
    PROVE  Chosen(c, from, to, o) \in SUBSET (from .. to)
<1> DEFINE S == Candidates(c, from, to, o)
           Y == [taken : SUBSET S, bytes : Nat]
           base == [taken |-> {}, bytes |-> 0]
           F == [p \in S \X Y |-> Take(c, o, p[1], p[2])]
           C == [s \in SUBSET S |-> LastTaken(c, to, o, s)]
<1>1. S \in SUBSET (from .. to) /\ IsFiniteSet(S)
  <2>1. S \in SUBSET (from .. to)
    BY DEF Candidates
  <2>2. IsFiniteSet(from .. to)
    BY FS_Interval
  <2> HIDE DEF S
  <2>3. QED
    BY <2>1, <2>2, FS_Subset
<1> HIDE DEF S
<1>2. ASSUME NEW s \in SUBSET S, s # {}
      PROVE  LastTaken(c, to, o, s) \in s
  <2>1. s \in SUBSET Nat /\ \A i \in s : Score(c[i], o.query) \in Nat
    BY <1>1
  <2>2. QED
    BY <1>2, <2>1, LastTakenIsThere
<1>3. base \in Y
  OBVIOUS
<1>4. ASSUME NEW i \in S, NEW acc \in Y
      PROVE  Take(c, o, i, acc) \in Y
  <2>1. c[i].size \in Nat /\ acc.bytes \in Nat /\ acc.taken \in SUBSET S
    BY <1>1
  <2>2. [taken |-> acc.taken \cup {i}, bytes |-> acc.bytes + c[i].size] \in Y
    BY <2>1
  <2>3. QED
    BY <2>2 DEF Take
<1>5. F \in [S \X Y -> Y]
  BY <1>4
<1>6. \A s \in SUBSET S : s # {} => C[s] \in s
  BY <1>2
<1>7. PICK h \in [SUBSET S -> Y] : h = FoldStep(S, base, F, C, h)
  <2>1. IsFiniteSet(S)
    BY <1>1
  <2> HIDE DEF F, C, Y, base
  <2>2. HasFold(S, Y, base, F, C)
    BY ONLY <2>1, <1>3, <1>5, <1>6, FoldExists
  <2>3. QED
    BY <2>2 DEF HasFold
<1>8. h = TakeStep(c, to, o, S, h)
  <2>1. ASSUME NEW s \in SUBSET S
        PROVE  h[s] = IF s = {} THEN base
                      ELSE LET x == LastTaken(c, to, o, s) IN Take(c, o, x, h[s \ {x}])
    <3>1. CASE s = {}
      <4>1. h[s] = base
        BY <1>7, <3>1 DEF FoldStep
      <4>2. QED
        BY <3>1, <4>1
    <3>2. CASE s # {}
      <4> DEFINE x == LastTaken(c, to, o, s)
      <4>1. x \in S /\ s \ {x} \in SUBSET S /\ h[s \ {x}] \in Y /\ C[s] = x
        BY <1>2, <3>2
      <4>2. h[s] = F[C[s], h[s \ {C[s]}]]
        <5> HIDE DEF F, C
        <5>1. QED
          BY <1>7, <3>2 DEF FoldStep
      <4>3. F[x, h[s \ {x}]] = Take(c, o, x, h[s \ {x}])
        BY <4>1
      <4>4. QED
        BY <3>2, <4>1, <4>2, <4>3
    <3>3. QED
      BY <3>1, <3>2
  <2> HIDE DEF F, C, Y
  <2>2. h = [s \in SUBSET S |-> h[s]]
    BY <1>7
  <2>3. QED
    BY <2>1, <2>2 DEF TakeStep
<1> DEFINE g == CHOOSE g : g = TakeStep(c, to, o, S, g)
<1>9. Chosen(c, from, to, o) = g[S].taken
  BY DEF Chosen, MapThenFoldSet, TakeStep, S
<1>10. g = TakeStep(c, to, o, S, g)
  BY <1>8
<1> HIDE DEF g, F, C, Y
<1> DEFINE Wrong == {s \in SUBSET S : g[s] \notin Y}
<1>11. Wrong = {}
  <2>1. SUFFICES ASSUME Wrong # {}
                 PROVE  FALSE
    OBVIOUS
  <2>2. PICK s \in Wrong : \A t \in Wrong : t \subseteq s => t = s
    <3>1. Wrong \in SUBSET (SUBSET S) /\ IsFiniteSet(S)
      BY <1>1
    <3> HIDE DEF Wrong
    <3>2. HasSmallest(Wrong)
      BY ONLY <2>1, <3>1, Smallest
    <3>3. QED
      BY <3>2 DEF HasSmallest
  <2>3. g[s] = IF s = {} THEN base
               ELSE LET x == LastTaken(c, to, o, s) IN Take(c, o, x, g[s \ {x}])
    BY <1>10, <2>2 DEF TakeStep
  <2>4. s # {}
    BY <1>3, <2>2, <2>3
  <2> DEFINE x == LastTaken(c, to, o, s)
  <2>5. x \in s
    BY <1>2, <2>2, <2>4
  <2> HIDE DEF x
  <2>6. g[s \ {x}] \in Y
    <3>1. s \ {x} \in SUBSET S /\ s \ {x} # s
      BY <2>2, <2>5
    <3>2. QED
      BY <2>2, <3>1
  <2>7. g[s] = Take(c, o, x, g[s \ {x}])
    BY <2>3, <2>4 DEF x
  <2>8. QED
    BY <1>4, <2>2, <2>5, <2>6, <2>7
<1>12. g[S] \in Y
  BY <1>11
<1>13. Chosen(c, from, to, o) \in SUBSET S
  BY <1>9, <1>12 DEF Y
<1>14. QED
  BY <1>1, <1>13

------------------------------------------------------------------------------
(* What a text shows.                                                       *)

\* The units of a text are of some revisions, in the order of the log.
InOrder(text, s) ==
    /\ text \in Seq(Nat)
    /\ \A n \in 1 .. Len(text) : text[n] \in s \cup {Gap}
    /\ \A m, n \in 1 .. Len(text) : m < n /\ text[m] # Gap /\ text[n] # Gap => text[m] <= text[n]

\* A text of some revisions is one of more.
LEMMA OrderWidens ==
    ASSUME NEW s, NEW r, s \subseteq r, NEW text, InOrder(text, s)
    PROVE  InOrder(text, r)
BY DEF InOrder

\* Two texts one behind the other are in order if the second is not earlier.
LEMMA ConcatInOrder ==
    ASSUME NEW s \in SUBSET Nat, NEW r \in SUBSET Nat, \A i \in s, j \in r : i <= j,
           NEW text, InOrder(text, s), NEW part, InOrder(part, r)
    PROVE  InOrder(text \o part, s \cup r)
<1> DEFINE both == text \o part
           k == Len(text)
<1>1. text \in Seq(Nat) /\ part \in Seq(Nat) /\ k \in Nat /\ Len(part) \in Nat
  BY LenProperties DEF InOrder
<1>2. /\ both \in Seq(Nat) /\ Len(both) = k + Len(part)
      /\ \A n \in 1 .. Len(both) : both[n] = IF n <= k THEN text[n] ELSE part[n - k]
  BY <1>1, ConcatProperties
<1>3. ASSUME NEW n \in 1 .. Len(both)
      PROVE  \/ n \in 1 .. k /\ both[n] = text[n]
             \/ n > k /\ n - k \in 1 .. Len(part) /\ both[n] = part[n - k]
  BY <1>1, <1>2
<1> HIDE DEF both, k
<1>4. ASSUME NEW n \in 1 .. Len(both)
      PROVE  both[n] \in (s \cup r) \cup {Gap}
  <2>1. CASE n \in 1 .. k /\ both[n] = text[n]
    BY <2>1 DEF InOrder, k
  <2>2. CASE n - k \in 1 .. Len(part) /\ both[n] = part[n - k]
    BY <2>2 DEF InOrder
  <2>3. QED
    BY <1>3, <2>1, <2>2
<1>5. ASSUME NEW m \in 1 .. Len(both), NEW n \in 1 .. Len(both), m < n, both[m] # Gap, both[n] # Gap
      PROVE  both[m] <= both[n]
  <2>1. CASE n \in 1 .. k /\ both[n] = text[n]
    <3>1. m \in 1 .. k /\ both[m] = text[m]
      BY <1>1, <1>3, <1>5, <2>1
    <3>2. QED
      BY <1>5, <2>1, <3>1 DEF InOrder, k
  <2>2. CASE n > k /\ n - k \in 1 .. Len(part) /\ both[n] = part[n - k]
    <3>1. both[n] \in r
      BY <1>5, <2>2 DEF InOrder
    <3>2. CASE m \in 1 .. k /\ both[m] = text[m]
      <4>1. both[m] \in s
        BY <1>5, <3>2 DEF InOrder, k
      <4>2. QED
        BY <3>1, <4>1
    <3>3. CASE m > k /\ m - k \in 1 .. Len(part) /\ both[m] = part[m - k]
      <4>1. m - k < n - k
        BY <1>1, <1>5
      <4>2. QED
        BY <1>5, <2>2, <3>3, <4>1 DEF InOrder
    <3>4. QED
      BY <1>3, <3>2, <3>3
  <2>3. QED
    BY <1>3, <2>1, <2>2
<1>6. InOrder(both, s \cup r)
  BY <1>2, <1>4, <1>5 DEF InOrder
<1>7. QED
  BY <1>6 DEF both

\* The same with a blank line between them.
LEMMA JoinInOrder ==
    ASSUME NEW s \in SUBSET Nat, NEW r \in SUBSET Nat, \A i \in s, j \in r : i <= j,
           NEW text, InOrder(text, s), NEW part, InOrder(part, r)
    PROVE  InOrder(Joined(text, part), s \cup r)
<1>1. InOrder(text \o part, s \cup r)
  BY ConcatInOrder
<1>2. InOrder(text \o <<Gap>> \o part, s \cup r)
  <2>1. InOrder(<<Gap>>, {})
    BY DEF InOrder, Gap
  <2>2. InOrder(text \o <<Gap>>, s \cup {})
    <3>1. {} \in SUBSET Nat /\ \A i \in s, j \in {} : i <= j
      OBVIOUS
    <3>2. QED
      BY <2>1, <3>1, ConcatInOrder
  <2>3. s \cup {} = s
    OBVIOUS
  <2>4. InOrder(text \o <<Gap>>, s)
    BY <2>2, <2>3
  <2>5. QED
    BY <2>4, ConcatInOrder
<1>3. QED
  BY <1>1, <1>2 DEF Joined

\* A chunk's own part.
LEMMA PartInOrder ==
    ASSUME NEW c, NEW i \in Nat, c[i].size \in Nat
    PROVE  InOrder(Part(c, i), {i})
<1>1. c[i].size + 1 \in Nat
  OBVIOUS
<1>2. Part(c, i) \in Seq(Nat) /\ Len(Part(c, i)) = c[i].size + 1
  BY <1>1, IsASeq DEF Part
<1>3. \A n \in 1 .. Len(Part(c, i)) : Part(c, i)[n] = i
  BY <1>2 DEF Part
<1>4. QED
  BY <1>2, <1>3 DEF InOrder

\* The end of a text.
LEMMA TrimmedInOrder ==
    ASSUME NEW s, NEW text, InOrder(text, s), NEW max \in Nat
    PROVE  InOrder(Trimmed(text, max), s) /\ Len(Trimmed(text, max)) <= max
<1>1. text \in Seq(Nat) /\ Len(text) \in Nat
  BY LenProperties DEF InOrder
<1>2. CASE Len(text) <= max
  BY <1>2 DEF Trimmed
<1>3. CASE ~(Len(text) <= max)
  <2> DEFINE d == Len(text) - max
             cut == SubSeq(text, d + 1, Len(text))
  <2>1. d \in Nat /\ d <= Len(text)
    BY <1>1, <1>3
  <2>2. /\ cut \in Seq(Nat) /\ Len(cut) = max
        /\ \A n \in 1 .. max : d + n \in 1 .. Len(text) /\ cut[n] = text[d + n]
    <3>1. \A n \in (d + 1) .. Len(text) : text[n] \in Nat
      BY <1>1, <2>1, ElementOfSeq
    <3>2. /\ cut \in Seq(Nat)
          /\ Len(cut) = IF d + 1 <= Len(text) THEN Len(text) - (d + 1) + 1 ELSE 0
          /\ \A n \in 1 .. Len(text) - (d + 1) + 1 : cut[n] = text[(d + 1) + n - 1]
      BY <1>1, <2>1, <3>1, SubSeqProperties
    <3>3. Len(text) - (d + 1) + 1 = max
      BY <1>1
    <3>4. \A n \in 1 .. max : (d + 1) + n - 1 = d + n
      BY <2>1
    <3>5. QED
      BY <1>1, <2>1, <3>2, <3>3, <3>4
  <2>3. Trimmed(text, max) = cut
    BY <1>3 DEF Trimmed
  <2> HIDE DEF cut
  <2>4. InOrder(cut, s)
    <3>1. \A n \in 1 .. Len(cut) : cut[n] \in s \cup {Gap}
      BY <2>2 DEF InOrder
    <3>2. ASSUME NEW m \in 1 .. Len(cut), NEW n \in 1 .. Len(cut), m < n, cut[m] # Gap, cut[n] # Gap
          PROVE  cut[m] <= cut[n]
      <4>1. d + m < d + n
        BY <2>1, <2>2, <3>2
      <4>2. QED
        BY <2>2, <3>2, <4>1 DEF InOrder
    <3>3. QED
      BY <2>2, <3>1, <3>2 DEF InOrder
  <2>5. QED
    BY <2>2, <2>3, <2>4
<1>4. QED
  BY <1>2, <1>3

\* The values of the fold that renders.
RenderStep(c, max, S, h) ==
    [s \in SUBSET S |->
        IF s = {} THEN <<>>
        ELSE LET x == Max(s) IN WithPart(h[s \ {x}], Part(c, x), max)]

\* A text shows revisions that were chosen, in their order, within its limit.
LEMMA RenderedInOrder ==
    ASSUME NEW c, NEW to \in Nat, NEW S \in SUBSET (0 .. to), NEW max \in Nat,
           \A i \in S : c[i].size \in Nat
    PROVE  InOrder(Rendered(c, S, max), S) /\ Len(Rendered(c, S, max)) <= max
<1> DEFINE Y == Seq(Nat)
           F == [p \in S \X Y |-> WithPart(p[2], Part(c, p[1]), max)]
           C == [s \in SUBSET S |-> Max(s)]
<1>1. IsFiniteSet(S) /\ S \in SUBSET Nat
  <2>1. IsFiniteSet(0 .. to)
    BY FS_Interval
  <2>2. IsFiniteSet(S)
    BY <2>1, FS_Subset
  <2>3. \A i \in S : i \in Nat
    OBVIOUS
  <2>4. QED
    BY <2>2, <2>3
<1>2. ASSUME NEW s \in SUBSET S, s # {}
      PROVE  Max(s) \in s /\ \A i \in s : i <= Max(s)
  <2>1. s \in SUBSET (0 .. to)
    OBVIOUS
  <2>2. QED
    BY <1>2, <2>1, MaxExists
<1>3. <<>> \in Y
  OBVIOUS
<1>4. ASSUME NEW i \in S, NEW text \in Y
      PROVE  WithPart(text, Part(c, i), max) \in Y
  <2>1. Part(c, i) \in Y /\ <<Gap>> \in Y
    BY <1>1, PartInOrder DEF InOrder, Gap
  <2>2. Joined(text, Part(c, i)) \in Y
    <3>1. text \o Part(c, i) \in Y /\ text \o <<Gap>> \in Y
      BY <2>1, ConcatProperties
    <3>2. (text \o <<Gap>>) \o Part(c, i) \in Y
      BY <2>1, <3>1, ConcatProperties
    <3>3. QED
      BY <3>1, <3>2 DEF Joined
  <2>3. QED
    BY <2>2 DEF WithPart
<1>5. F \in [S \X Y -> Y]
  BY <1>4
<1>6. \A s \in SUBSET S : s # {} => C[s] \in s
  BY <1>2
<1>7. PICK h \in [SUBSET S -> Y] : h = FoldStep(S, <<>>, F, C, h)
  <2>1. IsFiniteSet(S)
    BY <1>1
  <2> HIDE DEF F, C, Y
  <2>2. HasFold(S, Y, <<>>, F, C)
    BY ONLY <2>1, <1>3, <1>5, <1>6, FoldExists
  <2>3. QED
    BY <2>2 DEF HasFold
<1>8. h = RenderStep(c, max, S, h)
  <2>1. ASSUME NEW s \in SUBSET S
        PROVE  h[s] = IF s = {} THEN <<>>
                      ELSE LET x == Max(s) IN WithPart(h[s \ {x}], Part(c, x), max)
    <3>1. CASE s = {}
      <4>1. h[s] = <<>>
        BY <1>7, <3>1 DEF FoldStep
      <4>2. QED
        BY <3>1, <4>1
    <3>2. CASE s # {}
      <4> DEFINE x == Max(s)
      <4>1. x \in S /\ s \ {x} \in SUBSET S /\ h[s \ {x}] \in Y /\ C[s] = x
        BY <1>2, <3>2
      <4>2. h[s] = F[C[s], h[s \ {C[s]}]]
        <5> HIDE DEF F, C
        <5>1. QED
          BY <1>7, <3>2 DEF FoldStep
      <4>3. F[x, h[s \ {x}]] = WithPart(h[s \ {x}], Part(c, x), max)
        BY <4>1
      <4>4. QED
        BY <3>2, <4>1, <4>2, <4>3
    <3>3. QED
      BY <3>1, <3>2
  <2> HIDE DEF F, C, Y
  <2>2. h = [s \in SUBSET S |-> h[s]]
    BY <1>7
  <2>3. QED
    BY <2>1, <2>2 DEF RenderStep
<1> DEFINE g == CHOOSE g : g = RenderStep(c, max, S, g)
<1>9. Rendered(c, S, max) = g[S]
  BY DEF Rendered, MapThenFoldSet, RenderStep
<1>10. g = RenderStep(c, max, S, g)
  BY <1>8
<1> HIDE DEF g, F, C, Y
<1> DEFINE Right(s) == InOrder(g[s], s) /\ Len(g[s]) <= max
           Wrong == {s \in SUBSET S : ~Right(s)}
<1>11. Wrong = {}
  <2>1. SUFFICES ASSUME Wrong # {}
                 PROVE  FALSE
    OBVIOUS
  <2>2. PICK s \in Wrong : \A t \in Wrong : t \subseteq s => t = s
    <3>1. Wrong \in SUBSET (SUBSET S) /\ IsFiniteSet(S)
      BY <1>1
    <3> HIDE DEF Wrong, Right
    <3>2. HasSmallest(Wrong)
      BY ONLY <2>1, <3>1, Smallest
    <3>3. QED
      BY <3>2 DEF HasSmallest
  <2>3. g[s] = IF s = {} THEN <<>>
               ELSE LET x == Max(s) IN WithPart(g[s \ {x}], Part(c, x), max)
    BY <1>10, <2>2 DEF RenderStep
  <2>4. s # {}
    <3>1. InOrder(<<>>, {}) /\ Len(<<>>) <= max
      BY DEF InOrder
    <3>2. QED
      BY <2>2, <2>3, <3>1
  <2> DEFINE x == Max(s)
  <2>5. x \in s /\ \A i \in s : i <= x
    BY <1>2, <2>2, <2>4
  <2> HIDE DEF x
  <2> DEFINE text == g[s \ {x}]
  <2>6. Right(s \ {x})
    <3>1. s \ {x} \in SUBSET S /\ s \ {x} # s
      BY <2>2, <2>5
    <3>2. QED
      BY <2>2, <3>1
  <2>7. g[s] = WithPart(text, Part(c, x), max)
    BY <2>3, <2>4 DEF x
  <2>8. InOrder(Joined(text, Part(c, x)), s)
    <3>1. x \in Nat /\ c[x].size \in Nat /\ s \ {x} \in SUBSET Nat /\ {x} \in SUBSET Nat
      BY <1>1, <2>2, <2>5
    <3>2. InOrder(Part(c, x), {x})
      BY <3>1, PartInOrder
    <3>3. InOrder(Joined(text, Part(c, x)), (s \ {x}) \cup {x})
      <4>1. \A i \in s \ {x}, j \in {x} : i <= j
        BY <2>5
      <4>2. InOrder(text, s \ {x})
        BY <2>6
      <4> HIDE DEF text
      <4>3. QED
        BY ONLY <3>1, <3>2, <4>1, <4>2, JoinInOrder
    <3>4. (s \ {x}) \cup {x} = s
      BY <2>5
    <3>5. QED
      BY <3>3, <3>4
  <2>9. InOrder(text, s)
    BY <2>6, OrderWidens
  <2>10. Right(s)
    BY <2>6, <2>7, <2>8, <2>9 DEF WithPart
  <2>11. QED
    BY <2>2, <2>10
<1>12. QED
  BY <1>9, <1>11

\* The chunks of a context and the options of a request are of their types.
LEMMA ChunkTypes ==
    ASSUME NEW n \in Nat, NEW c \in [1 .. n -> Records], NEW i \in 1 .. n, NEW query
    PROVE  c[i].size \in Nat /\ Score(c[i], query) \in Nat
<1>1. c[i].size \in Nat /\ IsFiniteSet(c[i].about)
  BY RecordsAssumption
<1>2. IsFiniteSet(c[i].about \cap query)
  BY <1>1, FS_Intersection
<1>3. QED
  BY <1>1, <1>2, FS_CardinalityType DEF Score

\* The limits of a request are numbers.
LEMMA OptionTypes ==
    ASSUME NEW t \in Turns, conf[t] \in Configs
    PROVE  Options(t).bytes \in Nat /\ Options(t).tail \in Nat
<1>1. /\ conf[t].bytes \in Nat /\ conf[t].chunks \in Nat /\ conf[t].tail \in Nat
      /\ Asked(t).bytes = Least(conf[t].bytes, ByteLimit)
      /\ Asked(t).chunks = Least(conf[t].chunks, ChunkLimit)
      /\ Asked(t).tail = Least(conf[t].tail, ChunkLimit)
  BY ConfigsAssumption DEF Asked
<1>2. QED
  BY <1>1, LimitsAssumption DEF Options, Clamp, Least

\* A text made of chunks only.
LEMMA FromChunksInOrder ==
    ASSUME NEW n \in Nat, NEW c \in [1 .. n -> Records], NEW to \in 0 .. n,
           NEW o, o.bytes \in Nat, o.tail \in Nat
    PROVE  InOrder(FromChunks(c, to, o), 1 .. to) /\ Len(FromChunks(c, to, o)) <= o.bytes
<1> DEFINE S == Chosen(c, 1, to, o)
<1>1. to \in Nat /\ \A i \in 1 .. to : c[i].size \in Nat /\ Score(c[i], o.query) \in Nat
  <2>1. \A i \in 1 .. to : i \in 1 .. n
    OBVIOUS
  <2>2. QED
    BY <2>1, ChunkTypes
<1>2. S \in SUBSET (1 .. to)
  BY <1>1, ChosenWithin
<1>3. S \in SUBSET (0 .. to) /\ \A i \in S : c[i].size \in Nat
  <2> HIDE DEF S
  <2>1. \A i \in S : i \in 1 .. to
    BY <1>2
  <2>2. \A i \in S : i \in 0 .. to
    BY <2>1
  <2>3. QED
    BY <1>1, <2>1, <2>2
<1>4. InOrder(Rendered(c, S, o.bytes), S) /\ Len(Rendered(c, S, o.bytes)) <= o.bytes
  <2> HIDE DEF S
  <2>1. QED
    BY <1>1, <1>3, RenderedInOrder
<1>5. QED
  <2>1. FromChunks(c, to, o) = Rendered(c, S, o.bytes)
    BY DEF FromChunks
  <2> HIDE DEF S
  <2>2. QED
    BY <1>2, <1>4, <2>1, OrderWidens

\* A text that begins with the one of an earlier revision.
LEMMA FromPackInOrder ==
    ASSUME NEW n \in Nat, NEW c \in [1 .. n -> Records], NEW to \in 0 .. n,
           NEW o, o.bytes \in Nat, o.tail \in Nat,
           NEW base, base.revision \in 0 .. to, InOrder(base.text, 1 .. base.revision)
    PROVE  InOrder(FromPack(c, base, to, o), 1 .. to) /\ Len(FromPack(c, base, to, o)) <= o.bytes
<1> DEFINE S == Chosen(c, base.revision + 1, to, o)
           room == IF Len(base.text) > o.bytes THEN 0 ELSE o.bytes - Len(base.text)
           tail == Rendered(c, S, room)
           text == Joined(base.text, tail)
<1>1. /\ to \in Nat /\ base.revision \in Nat /\ base.revision + 1 \in Nat
      /\ \A i \in base.revision + 1 .. to : i \in 1 .. to /\ i \in 1 .. n
  OBVIOUS
<1>2. \A i \in base.revision + 1 .. to : c[i].size \in Nat /\ Score(c[i], o.query) \in Nat
  BY <1>1, ChunkTypes
<1>3. S \in SUBSET (base.revision + 1 .. to)
  BY <1>1, <1>2, ChosenWithin
<1>4. FromPack(c, base, to, o) = Trimmed(text, o.bytes)
  BY DEF FromPack
<1> HIDE DEF S
<1>5. \A i \in S : i \in base.revision + 1 .. to
  BY <1>3
<1>6. S \in SUBSET (0 .. to) /\ \A i \in S : c[i].size \in Nat
  <2>1. \A i \in 1 .. to : i \in 0 .. to
    OBVIOUS
  <2>2. QED
    BY <1>1, <1>2, <1>5, <2>1
<1>7. room \in Nat
  BY LenProperties DEF InOrder
<1> HIDE DEF room
<1>8. InOrder(tail, S)
  BY <1>1, <1>6, <1>7, RenderedInOrder
<1> HIDE DEF tail
<1>9. InOrder(text, (1 .. base.revision) \cup S)
  <2>1. \A i \in 1 .. base.revision, j \in S : i <= j
    <3>1. \A i \in 1 .. base.revision, j \in base.revision + 1 .. to : i <= j
      BY <1>1
    <3>2. QED
      BY <1>5, <3>1
  <2>2. 1 .. base.revision \in SUBSET Nat /\ S \in SUBSET Nat
    <3>1. \A i \in 0 .. to : i \in Nat
      OBVIOUS
    <3>2. QED
      BY <1>6, <3>1
  <2>3. QED
    BY <1>8, <2>1, <2>2, JoinInOrder
<1>10. (1 .. base.revision) \cup S \subseteq 1 .. to
  <2>1. \A i \in 1 .. base.revision : i \in 1 .. to
    OBVIOUS
  <2>2. QED
    BY <1>1, <1>5, <2>1
<1> HIDE DEF text
<1>11. InOrder(text, 1 .. to)
  BY <1>9, <1>10, OrderWidens
<1>12. QED
  BY <1>4, <1>11, TrimmedInOrder

------------------------------------------------------------------------------
(* What the requests are shown, step by step.                               *)

Bases == [revision : Nat, text : Seq(Nat), included : Nat]
Views == [target : Nat, base : Bases, text : Seq(Nat), included : Nat]

\* Heads are stored at their own revisions, the current one among them.
VersionsAreHeads ==
    \A c \in Contexts :
        /\ versions[c] \subseteq 0 .. head[c]
        /\ head[c] # 0 => head[c] \in versions[c]

\* A pack is the text of a revision at which its context had a head.
PackIsTrue(p) ==
    /\ p.key[1] \in Contexts /\ p.revision \in versions[p.key[1]] /\ p.included = p.revision
    /\ Len(p.text) <= p.key[2].bytes /\ InOrder(p.text, 1 .. p.revision)

PacksAreTrue == \A p \in packs : PackIsTrue(p)

\* A request has its target since it read the head, and has counted the chunks
\* up to there when it has a text or is about to store one.  What it starts
\* from is nothing, or the text of an earlier revision.
ViewInStep(t) ==
    LET v == view[t]
    IN /\ pc[t] = "prepare" => v = NoView
       /\ pc[t] \in {"pack", "load", "write", "writing"} \/ v.text # <<>> =>
            /\ v.target \in versions[Context(t)]
            /\ conf[t].rewind # Never => v.target <= conf[t].rewind
       /\ pc[t] \in {"write", "writing"} \/ v.text # <<>> => v.included = v.target
       /\ Len(v.text) <= Options(t).bytes /\ InOrder(v.text, 1 .. v.target)
       /\ v.base.revision <= v.target /\ v.base.included = v.base.revision
       /\ InOrder(v.base.text, 1 .. v.base.revision)

ViewsInStep == \A t \in Turns : ViewInStep(t)

ViewInv ==
    /\ view \in [Turns -> Views] /\ versions \in [Contexts -> SUBSET Nat]
    /\ VersionsAreHeads /\ PacksAreTrue /\ ViewsInStep

Settled == {"run", "append", "appending", "done", "failed"}

\* A head at or before a rewind revision is one that was stored.
LEMMA TargetIsHead ==
    ASSUME TypeInv, VersionsAreHeads, NEW t \in Turns
    PROVE  /\ Target(t) \in Nat
           /\ Target(t) # 0 => Target(t) \in versions[Context(t)]
           /\ conf[t].rewind # Never => Target(t) <= conf[t].rewind
<1> DEFINE c == Context(t)
           r == conf[t].rewind
           s == {v \in versions[c] : v <= r} \cup {0}
<1>1. c \in Contexts /\ r \in Nat /\ head[c] \in Nat /\ versions[c] \subseteq 0 .. head[c]
  BY ConfigsAssumption DEF TypeInv, VersionsAreHeads, Context
<1>2. CASE r = Never
  BY <1>1, <1>2 DEF Target, HeadAt, VersionsAreHeads
<1>3. CASE r # Never
  <2>1. Target(t) = Max(s)
    BY <1>3 DEF Target, HeadAt
  <2>2. s \in SUBSET (0 .. head[c]) /\ s # {}
    BY <1>1
  <2>3. Max(s) \in s
    <3> HIDE DEF s
    <3>1. QED
      BY <1>1, <2>2, MaxExists
  <2>4. \A v \in s : v \in Nat /\ (v # 0 => v \in versions[c]) /\ v <= r
    BY <1>1
  <2> HIDE DEF s
  <2>5. QED
    BY <2>1, <2>3, <2>4
<1>4. QED
  BY <1>2, <1>3

\* The pack that is found is one of those looked for.
LEMMA PackIsFound ==
    ASSUME NEW key, NEW revision \in Nat, PacksAt(key, revision) # {},
           \A p \in packs : p.revision \in Nat
    PROVE  PackAt(key, revision) \in PacksAt(key, revision)
<1> DEFINE found == PacksAt(key, revision)
           R == {p.revision : p \in found}
<1>1. \A p \in found : p.revision \in 0 .. revision
  BY DEF PacksAt
<1>2. R \in SUBSET (0 .. revision) /\ R # {}
  BY <1>1
<1>3. Max(R) \in R /\ \A i \in R : i <= Max(R)
  <2> HIDE DEF R
  <2>1. QED
    BY <1>2, MaxExists
<1>4. PICK p \in found : p.revision = Max(R)
  BY <1>3
<1>5. \A q \in found : q.revision <= p.revision
  BY <1>3, <1>4
<1>6. QED
  BY <1>4, <1>5 DEF PackAt

\* The options of a request are what it asked for, and stay so.
LEMMA OptionsStay ==
    ASSUME conf' = conf, NEW t \in Turns
    PROVE  Options(t)' = Options(t) /\ Context(t)' = Context(t) /\ PackKey(t)' = PackKey(t)
<1>1. Asked(t)' = Asked(t) /\ Query(t)' = Query(t) /\ Space(t)' = Space(t) /\ Context(t)' = Context(t)
  BY DEF Asked, Query, Space, Context
<1>2. Options(t)' = Options(t)
  BY <1>1 DEF Options
<1>3. QED
  BY <1>1, <1>2 DEF PackKey, Context

\* A request that does nothing to its view keeps it in step, unless it goes on
\* to a step for which a view must be ready.
LEMMA ViewKept ==
    ASSUME NEW t \in Turns, ViewInStep(t), conf' = conf, view'[t] = view[t],
           versions[Context(t)] \subseteq versions'[Context(t)],
           \/ pc'[t] = pc[t]
           \/ pc[t] = "write" /\ pc'[t] = "writing"
           \/ pc'[t] \in Settled
    PROVE  ViewInStep(t)'
<1>1. Options(t)' = Options(t) /\ Context(t)' = Context(t)
  BY OptionsStay
<1>2. QED
  BY <1>1 DEF ViewInStep, Settled

\* What holds of a pack holds after more heads are stored.
LEMMA PackKept ==
    ASSUME NEW p, PackIsTrue(p), \A c \in Contexts : versions[c] \subseteq versions'[c]
    PROVE  PackIsTrue(p)'
BY DEF PackIsTrue

\* A pack of the revision is the text of the request; an older one is its beginning.
LEMMA ReadPackViews ==
    ASSUME TypeInv, ViewInv, NEW t \in Turns, ReadPack(t)
    PROVE  view' \in [Turns -> Views] /\ ViewInStep(t)'
<1> DEFINE v == view[t]
           pack == PackAt(PackKey(t), v.target)
<1>1. /\ pc[t] = "pack" /\ pc \in [Turns -> Steps] /\ conf' = conf /\ versions' = versions
      /\ Options(t)' = Options(t) /\ Context(t)' = Context(t)
  BY OptionsStay DEF ReadPack, At, TypeInv, store
<1>2. ViewInStep(t) /\ view \in [Turns -> Views] /\ v \in Views /\ v.target \in Nat /\ v.target \in versions[Context(t)]
  BY <1>1 DEF ViewInv, ViewsInStep, ViewInStep, Views
<1>3. ASSUME PacksAt(PackKey(t), v.target) # {}
      PROVE  /\ pack.revision \in Nat /\ pack.included = pack.revision /\ pack.revision <= v.target
             /\ Len(pack.text) <= Options(t).bytes /\ InOrder(pack.text, 1 .. pack.revision)
             /\ pack.text \in Seq(Nat)
  <2>1. \A p \in packs : p.revision \in Nat
    <3>1. \A c \in Contexts : head[c] \in Nat /\ versions[c] \subseteq 0 .. head[c]
      BY DEF TypeInv, ViewInv, VersionsAreHeads
    <3>2. \A c \in Contexts : \A r \in versions[c] : r \in Nat
      BY <3>1
    <3>3. QED
      BY <3>2 DEF ViewInv, PacksAreTrue, PackIsTrue
  <2>2. pack \in PacksAt(PackKey(t), v.target)
    BY <1>2, <1>3, <2>1, PackIsFound
  <2>3. pack \in packs /\ pack.key = PackKey(t) /\ pack.revision <= v.target
    BY <2>2 DEF PacksAt
  <2>4. pack.key[2] = Options(t)
    BY <2>3 DEF PackKey
  <2>5. PackIsTrue(pack)
    BY <2>3 DEF ViewInv, PacksAreTrue
  <2> HIDE DEF pack
  <2>6. QED
    BY <2>1, <2>3, <2>4, <2>5 DEF PackIsTrue, InOrder
<1> HIDE DEF pack
<1>4. CASE /\ PacksAt(PackKey(t), v.target) # {} /\ pack.revision = v.target
           /\ Goto(t, "run")
           /\ view' = [view EXCEPT ![t].text = pack.text, ![t].included = pack.included]
  <2>1. pc'[t] = "run"
    BY <1>1, <1>4 DEF Goto
  <2>2. view'[t] = [v EXCEPT !.text = pack.text, !.included = pack.included]
    BY <1>2, <1>4
  <2>3. /\ view'[t].text = pack.text /\ view'[t].included = v.target
        /\ view'[t].target = v.target /\ view'[t].base = v.base /\ view'[t] \in Views
    BY <1>2, <1>3, <1>4, <2>2 DEF Views
  <2>4. view' \in [Turns -> Views]
    BY <1>2, <1>4, <2>2, <2>3
  <2>5. QED
    BY <1>1, <1>2, <1>3, <1>4, <2>1, <2>3, <2>4 DEF ViewInStep
<1>5. CASE /\ PacksAt(PackKey(t), v.target) # {} /\ pack.revision < v.target
           /\ Goto(t, "load")
           /\ view' = [view EXCEPT ![t].base =
                [revision |-> pack.revision, text |-> pack.text, included |-> pack.included]]
  <2> DEFINE base == [revision |-> pack.revision, text |-> pack.text, included |-> pack.included]
  <2>1. pc'[t] = "load"
    BY <1>1, <1>5 DEF Goto
  <2>2. view'[t] = [v EXCEPT !.base = base]
    BY <1>2, <1>5
  <2>3. /\ view'[t].text = v.text /\ view'[t].included = v.included
        /\ view'[t].target = v.target /\ view'[t].base = base /\ view'[t] \in Views
    BY <1>2, <1>3, <1>5, <2>2 DEF Views, Bases
  <2>4. view' \in [Turns -> Views]
    BY <1>2, <1>5, <2>2, <2>3
  <2>5. QED
    BY <1>1, <1>2, <1>3, <1>5, <2>1, <2>3, <2>4 DEF ViewInStep
<1>6. CASE PacksAt(PackKey(t), v.target) = {} /\ Goto(t, "load") /\ UNCHANGED view
  <2>1. pc'[t] = "load"
    BY <1>1, <1>6 DEF Goto
  <2>2. QED
    BY <1>1, <1>2, <1>6, <2>1 DEF ViewInStep
<1>7. QED
  BY <1>4, <1>5, <1>6 DEF ReadPack, pack

\* A request sets out with the head that it is to be shown.
LEMMA ReadHeadViews ==
    ASSUME TypeInv, ViewInv, NEW t \in Turns, ReadHead(t)
    PROVE  view' \in [Turns -> Views] /\ ViewInStep(t)'
<1>1. /\ pc[t] = "prepare" /\ pc \in [Turns -> Steps] /\ conf' = conf /\ versions' = versions
      /\ Options(t)' = Options(t) /\ Context(t)' = Context(t)
  BY OptionsStay DEF ReadHead, At, TypeInv, store
<1>2. ViewInStep(t) /\ view \in [Turns -> Views] /\ view[t] = NoView
  BY <1>1 DEF ViewInv, ViewsInStep, ViewInStep
<1>3. CASE ~conf[t].enabled \/ Target(t) = 0
  <2>1. pc'[t] = "run" /\ view' = view
    BY <1>1, <1>3 DEF ReadHead, Goto
  <2>2. QED
    BY <1>1, <1>2, <2>1, ViewKept DEF Settled
<1>4. CASE ~(~conf[t].enabled \/ Target(t) = 0)
  <2>1. pc'[t] \in {"pack", "load"} /\ view' = [view EXCEPT ![t].target = Target(t)]
    BY <1>1, <1>4 DEF ReadHead, Goto
  <2>2. view'[t] = [NoView EXCEPT !.target = Target(t)]
    BY <1>2, <2>1
  <2>3. /\ Target(t) \in Nat /\ Target(t) \in versions[Context(t)]
        /\ conf[t].rewind # Never => Target(t) <= conf[t].rewind
    BY <1>4, TargetIsHead DEF ViewInv
  <2>4. /\ view'[t].text = <<>> /\ view'[t].included = 0 /\ view'[t].target = Target(t)
        /\ view'[t].base.revision = 0 /\ view'[t].base.included = 0 /\ view'[t].base.text = <<>>
    BY <2>2 DEF NoView, NoPack
  <2>5. view'[t] \in Views
    <3>1. NoPack \in Bases /\ <<>> \in Seq(Nat)
      BY DEF NoPack, Bases
    <3>2. view'[t] = [target |-> Target(t), base |-> NoPack, text |-> <<>>, included |-> 0]
      BY <2>2 DEF NoView
    <3>3. QED
      BY <2>3, <3>1, <3>2 DEF Views
  <2>6. view' \in [Turns -> Views]
    BY <1>2, <2>1, <2>2, <2>5
  <2>7. InOrder(<<>>, 1 .. Target(t)) /\ InOrder(<<>>, 1 .. 0)
    BY DEF InOrder
  <2>8. Options(t).bytes \in Nat
    BY OptionTypes DEF TypeInv
  <2>9. QED
    BY <1>1, <2>1, <2>3, <2>4, <2>6, <2>7, <2>8 DEF ViewInStep
<1>5. QED
  BY <1>3, <1>4

\* A text is made of the chunks up to the target, all of them counted.
LEMMA LoadViews ==
    ASSUME TypeInv, ChunksAreCounted, ViewInv, NEW t \in Turns, Load(t)
    PROVE  view' \in [Turns -> Views] /\ ViewInStep(t)'
<1> DEFINE v == view[t]
           c == chunks[Context(t)]
           n == head[Context(t)]
           base == v.base
           text == IF base = NoPack THEN FromChunks(c, v.target, Options(t))
                   ELSE FromPack(c, base, v.target, Options(t))
           loaded == {i \in DOMAIN c : base.revision < i /\ i <= v.target}
<1>1. /\ pc[t] = "load" /\ pc \in [Turns -> Steps] /\ conf' = conf /\ versions' = versions
      /\ Options(t)' = Options(t) /\ Context(t)' = Context(t)
  BY OptionsStay DEF Load, At, TypeInv, store
<1>2. /\ ViewInStep(t) /\ view \in [Turns -> Views] /\ v \in Views
      /\ v.target \in versions[Context(t)]
      /\ base.revision <= v.target /\ base.included = base.revision
      /\ InOrder(base.text, 1 .. base.revision)
  BY <1>1 DEF ViewInv, ViewsInStep, ViewInStep
<1>3. v.target \in Nat /\ base.revision \in Nat
  BY <1>2 DEF Views, Bases
<1>4. Context(t) \in Contexts /\ n \in Nat /\ c \in [1 .. n -> Records] /\ v.target \in 0 .. n
  <2>1. Context(t) \in Contexts
    BY ConfigsAssumption DEF TypeInv, Context
  <2>2. n \in Nat /\ c \in ChunkMaps /\ DOMAIN c = 1 .. n /\ versions[Context(t)] \subseteq 0 .. n
    BY <2>1 DEF TypeInv, ChunksAreCounted, ViewInv, VersionsAreHeads
  <2>3. c \in [1 .. n -> Records]
    BY <2>2 DEF ChunkMaps
  <2>4. QED
    BY <1>2, <2>1, <2>2, <2>3
<1>5. Options(t).bytes \in Nat /\ Options(t).tail \in Nat
  BY OptionTypes DEF TypeInv
<1>6. InOrder(text, 1 .. v.target) /\ Len(text) <= Options(t).bytes
  <2>1. base.revision \in 0 .. v.target
    BY <1>2, <1>3
  <2>2. CASE base = NoPack
    <3>1. text = FromChunks(c, v.target, Options(t))
      BY <2>2
    <3> HIDE DEF text, c, n, base, v
    <3>2. QED
      BY <1>4, <1>5, <3>1, FromChunksInOrder
  <2>3. CASE base # NoPack
    <3>1. text = FromPack(c, base, v.target, Options(t))
      BY <2>3
    <3> HIDE DEF text, c, n, base, v
    <3>2. QED
      BY <1>2, <1>4, <1>5, <2>1, <3>1, FromPackInOrder
  <2>4. QED
    BY <2>2, <2>3
<1>7. base.included + Cardinality(loaded) = v.target
  <2>1. loaded = base.revision + 1 .. v.target
    <3>1. DOMAIN c = 1 .. n
      BY <1>4
    <3> HIDE DEF c, n
    <3>2. \A i \in loaded : i \in base.revision + 1 .. v.target
      BY <1>3, <3>1
    <3>3. \A i \in base.revision + 1 .. v.target : i \in loaded
      BY <1>3, <1>4, <3>1
    <3>4. QED
      BY <3>2, <3>3
  <2>2. Cardinality(base.revision + 1 .. v.target) =
          IF base.revision + 1 > v.target THEN 0 ELSE v.target - (base.revision + 1) + 1
    <3>1. base.revision + 1 \in Int /\ v.target \in Int
      BY <1>3
    <3> HIDE DEF base, v
    <3>2. QED
      BY <3>1, FS_Interval
  <2> HIDE DEF loaded
  <2>3. QED
    BY <1>2, <1>3, <2>1, <2>2
<1>8. view' = [view EXCEPT ![t].text = text, ![t].included = v.target]
  BY <1>7 DEF Load
<1> HIDE DEF text, loaded, c, n
<1>9. view'[t] = [v EXCEPT !.text = text, !.included = v.target]
  BY <1>2, <1>8
<1>10. /\ view'[t].text = text /\ view'[t].included = v.target
       /\ view'[t].target = v.target /\ view'[t].base = v.base /\ view'[t] \in Views
  BY <1>2, <1>3, <1>6, <1>9 DEF Views, InOrder
<1>11. view' \in [Turns -> Views]
  BY <1>2, <1>8, <1>9, <1>10
<1>12. pc'[t] \in {"write", "run"}
  BY <1>1 DEF Load, Goto
<1>13. QED
  BY <1>1, <1>2, <1>6, <1>10, <1>11, <1>12 DEF ViewInStep

\* The pack that is stored is the text its request holds.
LEMMA CommitPackPacks ==
    ASSUME TypeInv, ViewInv, NEW t \in Turns, CommitPack(t)
    PROVE  PacksAreTrue'
<1> DEFINE pack == [key |-> PackKey(t), revision |-> view[t].target,
                    text |-> view[t].text, included |-> view[t].included]
<1>1. versions' = versions /\ pc[t] = "writing"
  BY DEF CommitPack, store, At
<1>2. PackIsTrue(pack)
  <2>1. /\ pack.key[1] = Context(t) /\ pack.key[2] = Options(t) /\ pack.revision = view[t].target
        /\ pack.text = view[t].text /\ pack.included = view[t].included
    BY DEF PackKey, Context
  <2>2. Context(t) \in Contexts
    BY ConfigsAssumption DEF TypeInv, Context
  <2>3. ViewInStep(t)
    BY DEF ViewInv, ViewsInStep
  <2> HIDE DEF pack
  <2>4. QED
    BY <1>1, <2>1, <2>2, <2>3 DEF PackIsTrue, ViewInStep
<1>3. packs' \subseteq packs \cup {pack}
  BY DEF CommitPack
<1> HIDE DEF pack
<1>4. ASSUME NEW p \in packs'
      PROVE  PackIsTrue(p)'
  <2>1. PackIsTrue(p)
    BY <1>2, <1>3, <1>4 DEF ViewInv, PacksAreTrue
  <2>2. QED
    BY <1>1, <2>1, PackKept
<1>5. QED
  BY <1>4 DEF PacksAreTrue

\* The head a commit stores is the newest.
LEMMA CommitVersions ==
    ASSUME IInv, ViewInv, NEW t \in Turns, CommitAppend(t), Commit(t)
    PROVE  VersionsAreHeads' /\ \A c \in Contexts : versions[c] \subseteq versions'[c]
<1> DEFINE d == Context(t)
           n == head[d]
           m == n + Len(records[t])
<1>1. d \in Contexts /\ n \in Nat /\ Len(records[t]) \in Nat /\ seen[t] = n /\ t \in Turns
  BY ConfigsAssumption, LenProperties
     DEF IInv, TypeInv, OpenAppendsAreCurrent, CommitAppend, Commit, At, Context
<1>2. /\ head' = [head EXCEPT ![d] = m] /\ versions' = [versions EXCEPT ![d] = @ \cup {m}]
      /\ head \in [Contexts -> Nat]
  BY <1>1 DEF Commit, IInv, TypeInv
<1>3. m \in Nat /\ n <= m
  BY <1>1
<1>4. versions \in [Contexts -> SUBSET Nat]
  BY DEF ViewInv
<1> HIDE DEF d, n, m
<1>5. ASSUME NEW c \in Contexts
      PROVE  /\ versions[c] \subseteq versions'[c] /\ versions'[c] \subseteq 0 .. head'[c]
             /\ head'[c] # 0 => head'[c] \in versions'[c]
  <2>1. versions[c] \subseteq 0 .. head[c] /\ (head[c] # 0 => head[c] \in versions[c])
    BY DEF ViewInv, VersionsAreHeads
  <2>2. CASE c = d
    <3>1. versions'[c] = versions[c] \cup {m} /\ head'[c] = m
      BY <1>2, <1>4, <2>2
    <3>2. head[c] = n
      BY <2>2 DEF n
    <3>3. \A v \in versions[c] : v \in 0 .. m
      BY <1>1, <1>3, <2>1, <3>2
    <3>4. QED
      BY <1>3, <3>1, <3>3
  <2>3. CASE c # d
    BY <1>2, <1>4, <2>1, <2>3
  <2>4. QED
    BY <2>2, <2>3
<1>6. QED
  BY <1>5 DEF VersionsAreHeads

\* Every step keeps the views in step.
LEMMA ViewStep ==
    ASSUME IInv, ViewInv, [Next]_vars
    PROVE  ViewInv'
<1> USE DEF ViewInv
<1>1. TypeInv /\ ChunksAreCounted
  BY DEF IInv
<1>2. ASSUME conf' = conf, view' = view, packs' \subseteq packs, VersionsAreHeads',
             versions' \in [Contexts -> SUBSET Nat],
             \A c \in Contexts : versions[c] \subseteq versions'[c],
             \A t \in Turns : \/ pc'[t] = pc[t]
                              \/ pc[t] = "write" /\ pc'[t] = "writing"
                              \/ pc'[t] \in Settled
      PROVE  ViewInv'
  <2>1. ASSUME NEW t \in Turns
        PROVE  ViewInStep(t)'
    <3>1. Context(t) \in Contexts
      BY <1>1, ConfigsAssumption DEF TypeInv, Context
    <3>2. QED
      BY <1>2, <3>1, ViewKept DEF ViewsInStep
  <2>2. ASSUME NEW p \in packs'
        PROVE  PackIsTrue(p)'
    <3>1. PackIsTrue(p)
      BY <1>2 DEF PacksAreTrue
    <3>2. QED
      BY <1>2, <3>1, PackKept
  <2>3. QED
    BY <1>2, <2>1, <2>2 DEF ViewsInStep, PacksAreTrue
<1>3. ASSUME NEW t \in Turns, view' \in [Turns -> Views], ViewInStep(t)', conf' = conf,
             versions' = versions, packs' = packs, head' = head,
             \A u \in Turns \ {t} : view'[u] = view[u] /\ pc'[u] = pc[u]
      PROVE  ViewInv'
  <2>1. ASSUME NEW u \in Turns
        PROVE  ViewInStep(u)'
    <3>1. CASE u = t
      BY <1>3, <3>1
    <3>2. CASE u # t
      BY <1>3, <3>2, ViewKept DEF ViewsInStep
    <3>3. QED
      BY <3>1, <3>2
  <2>2. VersionsAreHeads'
    BY <1>3 DEF VersionsAreHeads
  <2>3. PacksAreTrue'
    BY <1>3, PackKept DEF PacksAreTrue
  <2>4. QED
    BY <1>3, <2>1, <2>2, <2>3 DEF ViewsInStep
<1>4. UNCHANGED <<head, versions>> => VersionsAreHeads' /\ \A c \in Contexts : versions[c] \subseteq versions'[c]
  BY DEF VersionsAreHeads
<1>5. ASSUME NEW t \in Turns, Step(t)
      PROVE  ViewInv'
  <2>0. pc \in [Turns -> Steps]
    BY <1>1 DEF TypeInv
  <2>1. CASE ReadHead(t)
    <3>1. view' \in [Turns -> Views] /\ ViewInStep(t)'
      BY <1>1, <2>1, ReadHeadViews
    <3>2. UNCHANGED <<head, versions, packs, conf>> /\ \A u \in Turns \ {t} : view'[u] = view[u] /\ pc'[u] = pc[u]
      BY <2>0, <2>1 DEF ReadHead, Goto, store
    <3>3. QED
      BY <1>3, <3>1, <3>2
  <2>2. CASE ReadPack(t)
    <3>1. view' \in [Turns -> Views] /\ ViewInStep(t)'
      BY <1>1, <2>2, ReadPackViews
    <3>2. UNCHANGED <<head, versions, packs, conf>> /\ \A u \in Turns \ {t} : view'[u] = view[u] /\ pc'[u] = pc[u]
      BY <2>0, <2>2 DEF ReadPack, Goto, store
    <3>3. QED
      BY <1>3, <3>1, <3>2
  <2>3. CASE Load(t)
    <3>1. view' \in [Turns -> Views] /\ ViewInStep(t)'
      BY <1>1, <2>3, LoadViews
    <3>2. UNCHANGED <<head, versions, packs, conf>> /\ \A u \in Turns \ {t} : view'[u] = view[u] /\ pc'[u] = pc[u]
      BY <2>0, <2>3 DEF Load, Goto, store
    <3>3. QED
      BY <1>3, <3>1, <3>2
  <2>4. CASE CommitPack(t)
    <3>1. PacksAreTrue'
      BY <1>1, <2>4, CommitPackPacks
    <3>2. UNCHANGED <<head, versions, view, conf>>
      BY <2>4 DEF CommitPack, store
    <3>3. \A u \in Turns : pc'[u] = pc[u] \/ pc'[u] \in Settled
      BY <2>0, <2>4 DEF CommitPack, Goto, Settled
    <3>4. ASSUME NEW u \in Turns
          PROVE  ViewInStep(u)'
      BY <3>2, <3>3, ViewKept DEF ViewsInStep
    <3>5. QED
      BY <1>4, <3>1, <3>2, <3>4 DEF ViewsInStep
  <2>5. CASE BeginPack(t)
    <3>1. /\ UNCHANGED <<head, versions, packs, view, conf>>
          /\ \A u \in Turns : pc'[u] = pc[u] \/ (pc[u] = "write" /\ pc'[u] = "writing")
      BY <2>0, <2>5 DEF BeginPack, At, Goto, store
    <3>2. QED
      BY <1>2, <1>4, <3>1
  <2>6. CASE Run(t) \/ RunFails(t) \/ RunStreams(t) \/ BeginAppend(t)
    <3>1. /\ UNCHANGED <<head, versions, packs, view, conf>>
          /\ \A u \in Turns : pc'[u] = pc[u] \/ pc'[u] \in Settled
      BY <2>0, <2>6 DEF Run, RunFails, RunStreams, BeginAppend, Goto, store, Settled
    <3>2. QED
      BY <1>2, <1>4, <3>1
  <2>7. CASE CommitAppend(t)
    <3>1. /\ UNCHANGED <<packs, view, conf>>
          /\ \A u \in Turns : pc'[u] = pc[u] \/ pc'[u] \in Settled
      BY <2>0, <2>7 DEF CommitAppend, Commit, Goto, Settled
    <3>2. CASE Commit(t)
      <4>1. VersionsAreHeads' /\ \A c \in Contexts : versions[c] \subseteq versions'[c]
        BY <2>7, <3>2, CommitVersions
      <4>2. versions' \in [Contexts -> SUBSET Nat]
        <5>1. seen[t] + Len(records[t]) \in Nat
          BY <1>1, LenProperties DEF TypeInv
        <5>2. QED
          BY <3>2, <5>1 DEF Commit
      <4>3. QED
        BY <1>2, <3>1, <4>1, <4>2
    <3>3. CASE ~ Commit(t)
      <4>1. UNCHANGED <<head, versions>>
        BY <2>7, <3>3 DEF CommitAppend, store
      <4>2. QED
        BY <1>2, <1>4, <3>1, <4>1
    <3>4. QED
      BY <3>2, <3>3
  <2>8. QED
    BY <1>5, <2>1, <2>2, <2>3, <2>4, <2>5, <2>6, <2>7 DEF Step
<1>6. CASE Crash
  <2>1. /\ UNCHANGED <<head, versions, view, conf>> /\ packs' \subseteq packs
        /\ \A u \in Turns : pc'[u] \in Settled
    BY <1>6 DEF Crash, store, Settled
  <2>2. QED
    BY <1>2, <1>4, <2>1
<1>7. CASE UNCHANGED vars
  <2>1. UNCHANGED <<head, versions, packs, view, conf, pc>>
    BY <1>7 DEF vars, store
  <2>2. QED
    BY <1>2, <1>4, <2>1
<1>8. QED
  BY <1>5, <1>6, <1>7 DEF Next

\* Whatever a request is shown, fresh or from a pack that an earlier one or an
\* earlier start of the server has left, it ends with a whole turn, not newer
\* than its rewind revision, and keeps the order of the log and its own limit
\* (assemble, read_pack_at, choose_chunks, render_chunks).
THEOREM ShownInWholeTurns == Spec => []ShowsWholeTurns
<1>1. Init => ViewInv
  <2>1. SUFFICES ASSUME Init
                 PROVE  ViewInv
    OBVIOUS
  <2>2. NoView \in Views
    <3>1. NoPack \in Bases /\ <<>> \in Seq(Nat)
      BY DEF NoPack, Bases
    <3>2. QED
      BY <3>1 DEF NoView, Views
  <2>3. view \in [Turns -> Views] /\ versions \in [Contexts -> SUBSET Nat]
    BY <2>1, <2>2 DEF Init
  <2>4. VersionsAreHeads /\ PacksAreTrue
    BY <2>1 DEF Init, VersionsAreHeads, PacksAreTrue
  <2>5. ASSUME NEW t \in Turns
        PROVE  ViewInStep(t)
    <3>1. /\ view[t] = NoView /\ pc[t] = "prepare"
          /\ view[t].text = <<>> /\ view[t].included = 0 /\ view[t].target = 0
          /\ view[t].base.revision = 0 /\ view[t].base.included = 0 /\ view[t].base.text = <<>>
      BY <2>1 DEF Init, NoView, NoPack
    <3>2. InOrder(<<>>, 1 .. 0)
      BY DEF InOrder
    <3>3. Options(t).bytes \in Nat
      <4>1. conf[t] \in Configs
        BY <2>1 DEF Init
      <4>2. QED
        BY <4>1, OptionTypes
    <3>4. QED
      BY <3>1, <3>2, <3>3 DEF ViewInStep
  <2>6. QED
    BY <2>3, <2>4, <2>5 DEF ViewInv, ViewsInStep
<1>2. IInv /\ ViewInv /\ [Next]_vars => ViewInv'
  BY ViewStep
<1>3. ViewInv => ShowsWholeTurns
  <2>1. ASSUME ViewInv, NEW t \in Turns, view[t].text # <<>>
        PROVE  LET text  == view[t].text
                   units == {n \in DOMAIN text : text[n] # Gap}
               IN /\ view[t].target \in versions[Context(t)]
                  /\ conf[t].rewind # Never => view[t].target <= conf[t].rewind
                  /\ view[t].included = view[t].target
                  /\ Len(text) <= Options(t).bytes
                  /\ \A n \in units : text[n] <= view[t].target
                  /\ \A m, n \in units : m < n => text[m] <= text[n]
    <3>1. ViewInStep(t)
      BY <2>1 DEF ViewInv, ViewsInStep
    <3>2. InOrder(view[t].text, 1 .. view[t].target) /\ DOMAIN view[t].text = 1 .. Len(view[t].text)
      BY <3>1, LenProperties DEF ViewInStep, InOrder
    <3>3. \A n \in DOMAIN view[t].text : view[t].text[n] # Gap => view[t].text[n] <= view[t].target
      BY <3>2 DEF InOrder
    <3>4. QED
      BY <2>1, <3>1, <3>2, <3>3 DEF ViewInStep, InOrder
  <2>2. QED
    BY <2>1 DEF ShowsWholeTurns
<1>4. QED
  BY <1>1, <1>2, <1>3, Invariance, PTL DEF Spec

=============================================================================
