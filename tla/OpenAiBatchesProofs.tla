------------------------- MODULE OpenAiBatchesProofs -------------------------
(***************************************************************************)
(* The safety properties of OpenAiBatches for every number of batches,     *)
(* files, requests, calls, crashes, failing calls and disconnects.         *)
(*                                                                         *)
(* Records travel as copies: a canceller, a worker and the recovery each   *)
(* hold one and write it back later.  So the invariant is not only about   *)
(* the stores but about everything that may still be written to them: the  *)
(* files a copy names, the cancellation it reports, the status it has.     *)
(* The files are simpler: each has one life, and whoever is about to name  *)
(* a new one is the only one that knows it.                                *)
(***************************************************************************)
EXTENDS OpenAiBatches, FiniteSetTheorems, TLAPS

\* The files whose object exists or has existed.
Known == meta \cup removed

SaysCancelled(record) == record.status \in {"cancelling", "cancelled"} \/ record.cancel_requested

NamesKnown(record) == record.output \in Known \cup {None} /\ record.errors \in Known \cup {None}

\* Whoever says that a batch or one of its requests is cancelled has it from a
\* cancel.
CancelComesFromClient(b) ==
    \/ b \in asked
    \/ /\ ~SaysCancelled(rec[b]) /\ ~SaysCancelled(worker[b].snap)
       /\ ~SaysCancelled(worker[b].cur) /\ ~SaysCancelled(recovery.seen[b])
       /\ token[b] # "cancelled" /\ worker[b].outcome # "cancelled"
       /\ \A i \in Items : worker[b].item[i] # "cancelled"

CancelsComeFromClients == \A b \in Batches : CancelComesFromClient(b)

\* A cancel acts on the batch it was called for, and its put asks.
CancellersKnowWhom ==
    \A c \in Cancels :
        /\ canceller[c].pc # "new" => canceller[c].batch \in Batches
        /\ canceller[c].pc = "signal" => canceller[c].batch \in asked

\* A delete removes content only when the object is gone for good.
DeletersComeSecond ==
    \A d \in Deletes : deleter[d].pc = "blob" => deleter[d].file \in removed \ meta

\* An upload names its file once, after its content.
UploadsInOrder ==
    \A f \in InFiles :
        /\ uploader[f] # "done" => f \notin Known
        /\ uploader[f] = "meta" => f \in blob

\* Before the record is stored nobody knows of the batch.
UnknownUntilStored ==
    \A b \in Batches : creator[b].pc \in {"new", "put"} =>
        /\ rec[b].status = "none" /\ recovery.seen[b].status = "none" /\ worker[b].pc = "none"
        /\ \A c \in Cancels : canceller[c].pc # "new" => canceller[c].batch # b

\* All copies name files that exist or have existed.
NamedFilesExist ==
    /\ \A b \in Batches : /\ NamesKnown(rec[b]) /\ NamesKnown(recovery.seen[b])
                          /\ NamesKnown(worker[b].snap) /\ NamesKnown(worker[b].cur)
    /\ \A c \in Cancels : NamesKnown(canceller[c].copy)

Writing == {"write_blob", "write_meta"}

\* The files of a run are written one after the other, each once.
FilesOfRun(b) ==
    LET w == worker[b] IN
    /\ \A f \in Known : f \in OutFiles /\ f[1] = b => f[3] <= runs[b]
    /\ w.pc \in {"load_meta", "load_blob", "put_in_progress", "items", "put_finalizing"} =>
          \A k \in Kinds : <<b, k, runs[b]>> \notin Known
    /\ w.pc \in Writing => w.kind \in Kinds /\ FileOf(b) \notin Known
    /\ w.pc \in Writing /\ w.kind = "validation" => w.outcome = "failed"
    /\ w.pc \in Writing /\ w.kind = "output" => <<b, "errors", runs[b]>> \notin Known
    /\ w.pc \in Writing \cup {"put_final"} /\ w.outcome # "failed" =>
          <<b, "validation", runs[b]>> \notin Known
    /\ w.pc = "write_meta" => FileOf(b) \in blob

FilesOfRuns == \A b \in Batches : FilesOfRun(b)

\* A worker has an active record in its hands, and knows how it will end before
\* it writes files; a completed batch has an answer and a file with it.
AnswerInStep(b) ==
    LET w == worker[b] IN
    /\ w.pc # "none" => w.snap.status \in Active
    /\ w.pc \notin {"none", "spawned"} => w.cur.status \in Active
    /\ w.pc \in Writing \cup {"put_final"} => w.outcome \in Terminal
    /\ \A i \in Items : w.item[i] \in {"ok", "error"} => i \in answered[b]
    /\ \/ w.pc = "put_finalizing"
       \/ w.pc \in Writing \cup {"put_final"} /\ w.outcome = "completed"
       => \A i \in Items : w.item[i] \in {"ok", "error"}
    /\ w.pc = "put_final" /\ w.outcome = "completed" => w.cur.output # None \/ w.cur.errors # None
    /\ rec[b].status = "completed" =>
          answered[b] = Items /\ (rec[b].output # None \/ rec[b].errors # None)

AnswersInStep == \A b \in Batches : AnswerInStep(b)

IInv ==
    /\ TypeOK /\ FilesHaveContent
    /\ CancelsComeFromClients /\ CancellersKnowWhom /\ DeletersComeSecond /\ UploadsInOrder
    /\ UnknownUntilStored /\ NamedFilesExist /\ FilesOfRuns /\ AnswersInStep

\* A batch without a job has no worker.
NoJobNoWorker == \A b \in Batches : job[b] = "idle" => worker[b].pc = "none"

-----------------------------------------------------------------------------
(* Types *)

\* The constants of the model are of their types.
LEMMA ConstantTypes ==
    /\ NoRecord \in Record /\ \A f \in InFiles \cup {None} : NewRecord(f) \in Record
    /\ NoWorker \in Worker /\ BootRecovery \in Recovery
<1>1. NoRecord \in Record
  BY DEF NoRecord, Record
<1>2. ASSUME NEW f \in InFiles \cup {None}  PROVE NewRecord(f) \in Record
  BY DEF NewRecord, NoRecord, Record, Active
<1>3. NoWorker \in Worker /\ BootRecovery \in Recovery
  BY <1>1 DEF NoWorker, Worker, WorkerPcs, ItemStates, BootRecovery, Recovery
<1>4. QED BY <1>1, <1>2, <1>3

\* Requests are counted by numbers.
LEMMA ItemsCounted ==
    ASSUME NEW w, NEW state
    PROVE  Cardinality(Answered(w, state)) \in Nat
<1>1. Answered(w, state) \in SUBSET Items
  BY DEF Answered
<1>2. QED BY <1>1, ItemsAssumption, FS_Subset, FS_CardinalityType

\* A worker that starts to write its files, or fails, is of its type.
LEMMA WritingTypes ==
    ASSUME NEW w \in Worker
    PROVE  /\ WriteErrors(w) \in Worker /\ Fail(w) \in Worker
           /\ \A outcome \in Terminal : WriteFiles(w, outcome) \in Worker
<1>1. ASSUME NEW x \in Worker  PROVE WriteErrors(x) \in Worker
  BY DEF WriteErrors, Worker, WorkerPcs, Kinds
<1>2. Fail(w) \in Worker
  BY DEF Fail, Worker, WorkerPcs, Kinds, Terminal
<1>3. ASSUME NEW outcome \in Terminal  PROVE WriteFiles(w, outcome) \in Worker
  <2> DEFINE cur == [w.cur EXCEPT !.output = None, !.errors = None]
             x == [w EXCEPT !.outcome = outcome, !.cur = cur]
             decided == [w EXCEPT !.outcome = outcome, !.cur.output = None, !.cur.errors = None]
  <2>1. w.cur \in Record
    BY DEF Worker
  <2>2. cur \in Record
    BY <2>1 DEF Record
  <2>3. x \in Worker
    <3> HIDE DEF cur
    <3>1. QED BY <2>2 DEF Worker
  <2>4. decided = x
    BY <2>1 DEF Worker, Record
  <2>5. [x EXCEPT !.pc = "write_blob", !.kind = "output"] \in Worker
    <3> HIDE DEF x
    <3>1. QED BY <2>3 DEF Worker, WorkerPcs, Kinds
  <2>6. WriteErrors(x) \in Worker
    BY <2>3, <1>1
  <2> HIDE DEF x, decided
  <2>7. QED BY <2>4, <2>5, <2>6 DEF WriteFiles, decided
<1>4. QED BY <1>1, <1>2, <1>3

\* Spawning a job keeps the types of what it changes.
LEMMA SpawnTypes ==
    ASSUME TypeOK, NEW b \in Batches, NEW snapshot \in Record, Spawn(b, snapshot)
    PROVE  Jobs!JobTypeOK' /\ worker' \in [Batches -> Worker]
<1> USE DEF TypeOK, Jobs!JobTypeOK
<1>1. [NoWorker EXCEPT !.pc = "spawned", !.snap = snapshot] \in Worker
  BY ConstantTypes DEF Worker, WorkerPcs
<1>2. CASE Jobs!EnqueueJob(b) /\ worker' = [worker EXCEPT ![b] =
                                              [NoWorker EXCEPT !.pc = "spawned", !.snap = snapshot]]
  BY <1>1, <1>2 DEF Jobs!EnqueueJob
<1>3. CASE Jobs!RefuseJob(b) /\ UNCHANGED worker
  BY <1>3 DEF Jobs!RefuseJob, Jobs!jobVars
<1>4. QED BY <1>2, <1>3 DEF Spawn

UploadStep(f) == UploadBlob(f) \/ UploadMeta(f) \/ UploadUndo(f)

CreateStep(b) == CreatePut(b) \/ CreateSpawn(b) \/ \E f \in InFiles : CreateRead(b, f)

CancelStep(c) == CancelPut(c) \/ CancelSignal(c) \/ \E b \in Batches : CancelRead(c, b)

DeleteStep(d) == DeleteMeta(d) \/ DeleteBlob(d) \/ \E f \in meta : DeleteCheck(d, f)

\* Uploading a file keeps the types.
LEMMA UploadTypes ==
    ASSUME TypeOK, NEW f \in InFiles, UploadStep(f)
    PROVE  TypeOK'
BY DEF UploadStep, UploadBlob, UploadMeta, UploadUndo, TypeOK, Jobs!JobTypeOK, Files, budgets, history

\* Creating a batch keeps the types.
LEMMA CreateTypes ==
    ASSUME TypeOK, NEW b \in Batches, CreateStep(b)
    PROVE  TypeOK'
<1> USE DEF TypeOK, Jobs!JobTypeOK, durable, budgets, history
<1>c. creator[b] \in Creator
  OBVIOUS
<1>n. creator[b].input \in InFiles \cup {None} /\ NewRecord(creator[b].input) \in Record
  BY <1>c, ConstantTypes DEF Creator
<1>e. \A pc \in {"spawn", "done"} : [creator[b] EXCEPT !.pc = pc] \in Creator
  BY <1>c DEF Creator
<1>1. ASSUME NEW f \in InFiles, CreateRead(b, f)  PROVE TypeOK'
  <2>1. [pc |-> "put", input |-> f] \in Creator
    BY DEF Creator
  <2>2. QED BY <1>1, <2>1 DEF CreateRead
<1>2. CASE CreatePut(b)
  <2>1. creator' = [creator EXCEPT ![b] = [creator[b] EXCEPT !.pc = "spawn"]]
    BY <1>2 DEF CreatePut
  <2>2. creator' \in [Batches -> Creator]
    BY <2>1, <1>e
  <2>3. QED BY <1>2, <1>n, <2>2 DEF CreatePut
<1>3. CASE CreateSpawn(b)
  <2>1. creator' = [creator EXCEPT ![b] = [creator[b] EXCEPT !.pc = "done"]]
    BY <1>3 DEF CreateSpawn
  <2>2. creator' \in [Batches -> Creator]
    BY <2>1, <1>e
  <2>3. QED BY <1>3, <1>n, <2>2, SpawnTypes DEF CreateSpawn
<1>4. QED BY <1>1, <1>2, <1>3 DEF CreateStep

\* A cancel keeps the types.
LEMMA CancelTypes ==
    ASSUME TypeOK, CancellersKnowWhom, NEW c \in Cancels, CancelStep(c)
    PROVE  TypeOK'
<1> USE DEF TypeOK, Jobs!JobTypeOK, durable, budgets, history
<1>c. canceller[c] \in Canceller /\ (canceller[c].pc # "new" => canceller[c].batch \in Batches)
  BY DEF CancellersKnowWhom
<1>1. ASSUME NEW b \in Batches, CancelRead(c, b)  PROVE TypeOK'
  <2>1. [pc |-> "put", batch |-> b, copy |-> rec[b]] \in Canceller
    BY DEF Canceller
  <2>2. QED BY <1>1, <2>1 DEF CancelRead
<1>2. CASE CancelPut(c)
  <2>1. [canceller[c].copy EXCEPT !.status = "cancelling", !.cancel_requested = TRUE] \in Record
    BY <1>c DEF Canceller, Record, Active
  <2>2. [canceller[c] EXCEPT !.pc = "signal"] \in Canceller
    BY <1>c DEF Canceller
  <2>3. canceller' \in [Cancels -> Canceller]
    BY <1>2, <2>2 DEF CancelPut
  <2>4. QED BY <1>2, <1>c, <2>1, <2>3 DEF CancelPut
<1>3. CASE CancelSignal(c)
  <2>1. [canceller[c] EXCEPT !.pc = "done"] \in Canceller
    BY <1>c DEF Canceller
  <2>2. QED BY <1>3, <2>1 DEF CancelSignal, Jobs!CancelJob
<1>4. QED BY <1>1, <1>2, <1>3 DEF CancelStep

\* A delete keeps the types.
LEMMA DeleteTypes ==
    ASSUME TypeOK, NEW d \in Deletes, DeleteStep(d)
    PROVE  TypeOK'
<1> USE DEF TypeOK, Jobs!JobTypeOK, durable, budgets, history
<1>d. deleter[d] \in Deleter
  OBVIOUS
<1>e. \A pc \in {"blob", "done"} : [deleter[d] EXCEPT !.pc = pc] \in Deleter
  BY <1>d DEF Deleter
<1>1. ASSUME NEW f \in meta, DeleteCheck(d, f)  PROVE TypeOK'
  <2>1. [pc |-> "meta", file |-> f] \in Deleter
    BY DEF Deleter
  <2>2. QED BY <1>1, <2>1 DEF DeleteCheck
<1>2. CASE DeleteMeta(d)
  <2>1. \E pc \in {"blob", "done"} : deleter' = [deleter EXCEPT ![d] = [deleter[d] EXCEPT !.pc = pc]]
    BY <1>2 DEF DeleteMeta
  <2>2. deleter' \in [Deletes -> Deleter]
    BY <2>1, <1>e
  <2>3. QED BY <1>2, <2>2 DEF DeleteMeta
<1>3. CASE DeleteBlob(d)
  <2>1. deleter' = [deleter EXCEPT ![d] = [deleter[d] EXCEPT !.pc = "done"]]
    BY <1>3 DEF DeleteBlob
  <2>2. deleter' \in [Deletes -> Deleter]
    BY <2>1, <1>e
  <2>3. QED BY <1>3, <2>2 DEF DeleteBlob
<1>4. QED BY <1>1, <1>2, <1>3 DEF DeleteStep

\* A file that a worker writes is a file.
LEMMA FileTypes ==
    ASSUME TypeOK, NEW b \in Batches, FilesOfRun(b), worker[b].pc \in Writing
    PROVE  FileOf(b) \in OutFiles
<1>1. worker[b].kind \in Kinds /\ runs[b] \in Nat
  BY DEF FilesOfRun, TypeOK
<1>2. QED BY <1>1 DEF FileOf, OutFiles

\* A step of the worker keeps the types.
LEMMA WorkerTypes ==
    ASSUME TypeOK, NEW b \in Batches, FilesOfRun(b), AnswerInStep(b), WorkerStep(b)
    PROVE  TypeOK'
<1> USE DEF TypeOK, Jobs!JobTypeOK, handlers, durable, budgets, history
<1> DEFINE w == worker[b]
<1>w. w \in Worker /\ w.cur \in Record /\ w.snap \in Record
  BY DEF Worker
<1>s. ASSUME NEW x \in Worker, SetWorker(b, x)  PROVE worker' \in [Batches -> Worker]
  BY <1>s DEF SetWorker
<1>p. ASSUME NEW x \in Worker, NEW pc \in WorkerPcs  PROVE [x EXCEPT !.pc = pc] \in Worker
  BY DEF Worker
<1> HIDE DEF w
<1>1. CASE BeginRun(b)
  <2> DEFINE x == [w EXCEPT !.cur = w.snap]
  <2>1. x \in Worker
    BY <1>w DEF Worker
  <2>2. [x EXCEPT !.pc = "load_meta"] \in Worker /\ WriteFiles(x, "cancelled") \in Worker
    <3> HIDE DEF x
    <3>1. QED BY <1>p, <2>1, WritingTypes DEF WorkerPcs, Terminal
  <2>3. SetWorker(b, WriteFiles(x, "cancelled")) \/ SetWorker(b, [x EXCEPT !.pc = "load_meta"])
    BY <1>1 DEF BeginRun, w
  <2>4. worker' \in [Batches -> Worker]
    <3> HIDE DEF x
    <3>1. QED BY <2>2, <2>3, <1>s
  <2>5. runs' \in [Batches -> Nat] /\ Jobs!JobTypeOK'
    BY <1>1 DEF BeginRun, Jobs!StartJob
  <2>6. UNCHANGED <<durable, handlers, recovery, budgets, history>>
    BY <1>1 DEF BeginRun
  <2>7. QED BY <2>4, <2>5, <2>6
<1>2. CASE LoadMeta(b)
  <2>1. SetWorker(b, [w EXCEPT !.pc = "load_blob"]) \/ SetWorker(b, Fail(w))
    BY <1>2 DEF LoadMeta, w
  <2>2. worker' \in [Batches -> Worker]
    BY <2>1, <1>w, <1>s, <1>p, WritingTypes DEF WorkerPcs
  <2>3. QED BY <1>2, <2>2 DEF LoadMeta
<1>3. CASE LoadBlob(b)
  <2> DEFINE loaded == [w EXCEPT !.pc = "put_in_progress", !.cur.status = "in_progress",
                                 !.cur.total = Cardinality(Items)]
  <2>1. SetWorker(b, loaded) \/ SetWorker(b, Fail(w))
    BY <1>3 DEF LoadBlob, w
  <2>2. Cardinality(Items) \in Nat
    BY ItemsAssumption, FS_CardinalityType
  <2>3. loaded \in Worker
    BY <2>2, <1>w DEF Worker, Record, Active, WorkerPcs
  <2>4. worker' \in [Batches -> Worker]
    <3> HIDE DEF loaded
    <3>1. QED BY <2>1, <2>3, <1>w, <1>s, WritingTypes
  <2>5. QED BY <1>3, <2>4 DEF LoadBlob
<1>4. CASE PutInProgress(b)
  <2>1. SetWorker(b, [w EXCEPT !.pc = "items"]) /\ rec' = [rec EXCEPT ![b] = w.cur]
    BY <1>4 DEF PutInProgress, w
  <2>2. worker' \in [Batches -> Worker]
    BY <2>1, <1>w, <1>s, <1>p DEF WorkerPcs
  <2>3. QED BY <1>4, <1>w, <2>1, <2>2 DEF PutInProgress
<1>5. ASSUME NEW i \in Items, StartItem(b, i) \/ FinishItem(b, i) \/ CancelItem(b, i)  PROVE TypeOK'
  <2>1. \E s \in ItemStates : SetWorker(b, [w EXCEPT !.item[i] = s])
    BY <1>5 DEF StartItem, FinishItem, CancelItem, ItemStates, w
  <2>2. \A s \in ItemStates : [w EXCEPT !.item[i] = s] \in Worker
    BY <1>w DEF Worker
  <2>3. worker' \in [Batches -> Worker]
    BY <2>1, <2>2, <1>s
  <2>4. QED BY <1>5, <2>3 DEF StartItem, FinishItem, CancelItem
<1>6. CASE Collect(b)
  <2> DEFINE counted == [w EXCEPT
                !.cur.completed = @ + Cardinality(Answered(w, "ok")),
                !.cur.failed = @ + Cardinality(Answered(w, "error")) + Cardinality(Answered(w, "cancelled"))]
             final == [counted EXCEPT !.pc = "put_finalizing", !.cur.status = "finalizing"]
  <2>1. SetWorker(b, WriteFiles(counted, "cancelled")) \/ SetWorker(b, final)
    BY <1>6 DEF Collect, w
  <2>2. counted \in Worker
    <3>1. /\ Cardinality(Answered(w, "ok")) \in Nat /\ Cardinality(Answered(w, "error")) \in Nat
          /\ Cardinality(Answered(w, "cancelled")) \in Nat
      BY ItemsCounted
    <3>2. /\ w.cur.completed + Cardinality(Answered(w, "ok")) \in Nat
          /\ w.cur.failed + Cardinality(Answered(w, "error")) + Cardinality(Answered(w, "cancelled")) \in Nat
      BY <3>1, <1>w DEF Record
    <3>3. QED BY ONLY <3>2, <1>w DEF Worker, Record
  <2>3. final \in Worker
    <3> HIDE DEF counted
    <3>1. QED BY ONLY <2>2 DEF Worker, Record, WorkerPcs, Active
  <2>4. worker' \in [Batches -> Worker]
    <3> HIDE DEF counted, final
    <3>1. QED BY <2>1, <2>2, <2>3, <1>s, WritingTypes DEF Terminal
  <2>5. QED BY <1>6, <2>4 DEF Collect
<1>7. CASE PutFinalizing(b)
  <2>1. SetWorker(b, WriteFiles(w, "completed")) /\ rec' = [rec EXCEPT ![b] = w.cur]
    BY <1>7 DEF PutFinalizing, w
  <2>2. worker' \in [Batches -> Worker]
    BY <2>1, <1>w, <1>s, WritingTypes DEF Terminal
  <2>3. QED BY <1>7, <1>w, <2>1, <2>2 DEF PutFinalizing
<1>8. CASE WriteBlob(b)
  <2>1. SetWorker(b, [w EXCEPT !.pc = "write_meta"]) /\ FileOf(b) \in Files
    BY <1>8, FileTypes DEF WriteBlob, Writing, Files, w
  <2>2. worker' \in [Batches -> Worker]
    BY <2>1, <1>w, <1>s, <1>p DEF WorkerPcs
  <2>3. QED BY <1>8, <2>1, <2>2 DEF WriteBlob
<1>9. CASE WriteMeta(b)
  <2> DEFINE out == [w EXCEPT !.cur.output = FileOf(b)]
             err == [w EXCEPT !.cur.errors = FileOf(b), !.pc = "put_final", !.kind = "none"]
  <2>1. FileOf(b) \in OutFiles
    BY <1>9, FileTypes DEF WriteMeta, Writing
  <2>2. SetWorker(b, WriteErrors(out)) \/ SetWorker(b, err)
    BY <1>9 DEF WriteMeta, w
  <2>3. out \in Worker /\ err \in Worker
    BY <2>1, <1>w DEF Worker, Record, WorkerPcs
  <2>4. worker' \in [Batches -> Worker]
    <3> HIDE DEF out, err
    <3>1. QED BY <2>2, <2>3, <1>s, WritingTypes
  <2>5. QED BY <1>9, <2>1, <2>4 DEF WriteMeta, Files
<1>10. CASE PutFinal(b)
  <2>1. w.outcome \in Terminal
    BY <1>10 DEF PutFinal, AnswerInStep, w
  <2>2. [w.cur EXCEPT !.status = w.outcome] \in Record
    BY <2>1, <1>w DEF Record
  <2>3. rec' = [rec EXCEPT ![b] = [w.cur EXCEPT !.status = w.outcome]]
    BY <1>10 DEF PutFinal, w
  <2>4. worker' \in [Batches -> Worker]
    BY <1>10, <1>s, ConstantTypes DEF PutFinal
  <2>5. QED BY <1>10, <2>2, <2>3, <2>4 DEF PutFinal, Jobs!FinishJob
<1>11. QED
  BY <1>1, <1>2, <1>3, <1>4, <1>5, <1>6, <1>7, <1>8, <1>9, <1>10 DEF WorkerStep

\* A step of the recovery keeps the types.
LEMMA RecoveryTypes ==
    ASSUME TypeOK, RecoveryStep
    PROVE  TypeOK'
<1> USE DEF TypeOK, handlers, durable, budgets, history
<1>r. recovery \in Recovery /\ NoRecord \in Record
  BY ConstantTypes
<1>1. ASSUME NEW b \in Batches, RecoverRead(b)  PROVE TypeOK'
  <2>0. rec[b] \in Record
    OBVIOUS
  <2>1. recovery' = [recovery EXCEPT !.unread = @ \ {b}, !.seen[b] = rec[b],
                                     !.pc = IF recovery.unread = {b} THEN "spawn" ELSE "list"]
    BY <1>1 DEF RecoverRead
  <2>2. recovery' \in Recovery
    BY ONLY <1>r, <2>0, <2>1 DEF Recovery
  <2>3. QED BY <1>1, <2>2 DEF RecoverRead, Jobs!JobTypeOK
<1>2. ASSUME NEW b \in Batches, RecoverSpawn(b)  PROVE TypeOK'
  <2>1. recovery.seen[b] \in Record
    BY <1>r DEF Recovery
  <2>2. Jobs!JobTypeOK' /\ worker' \in [Batches -> Worker]
    BY <1>2, <2>1, SpawnTypes DEF RecoverSpawn
  <2>3. recovery' \in Recovery
    BY <1>2, <1>r DEF RecoverSpawn, Recovery
  <2>4. QED BY <1>2, <2>2, <2>3 DEF RecoverSpawn
<1>3. CASE RecoverDone
  <2>1. recovery' \in Recovery
    BY <1>3, <1>r DEF RecoverDone, Recovery
  <2>2. QED BY <1>3, <2>1 DEF RecoverDone, Jobs!JobTypeOK
<1>4. QED BY <1>1, <1>2, <1>3 DEF RecoveryStep

\* A failure, a disconnect or a crash keeps the types.
LEMMA TroubleTypes ==
    ASSUME TypeOK, Trouble
    PROVE  TypeOK'
<1> USE BoundsAssumption DEF TypeOK, Jobs!JobTypeOK, handlers, durable, budgets, history
<1>1. ASSUME NEW b \in Batches, WorkerFault(b)  PROVE TypeOK'
  <2>1. worker[b] \in Worker
    OBVIOUS
  <2>2. Fail(worker[b]) \in Worker /\ [worker[b] EXCEPT !.pc = "put_final", !.kind = "none"] \in Worker
    BY <2>1, WritingTypes DEF Worker, WorkerPcs
  <2>3. worker' \in [Batches -> Worker]
    BY <1>1, <2>2, ConstantTypes DEF WorkerFault, SetWorker
  <2>4. Jobs!JobTypeOK'
    BY <1>1 DEF WorkerFault, Jobs!FinishJob
  <2>5. QED BY <1>1, <2>3, <2>4 DEF WorkerFault
<1>b. ASSUME NEW b \in Batches  PROVE [creator[b] EXCEPT !.pc = "done"] \in Creator
  BY DEF Creator
<1>e. ASSUME NEW c \in Cancels  PROVE [canceller[c] EXCEPT !.pc = "done"] \in Canceller
  BY DEF Canceller
<1>d. ASSUME NEW d \in Deletes  PROVE [deleter[d] EXCEPT !.pc = "done"] \in Deleter
  BY DEF Deleter
<1> DEFINE HandlersTyped ==
             /\ uploader' \in [InFiles -> {"new", "meta", "undo", "done"}]
             /\ creator' \in [Batches -> Creator]
             /\ canceller' \in [Cancels -> Canceller] /\ deleter' \in [Deletes -> Deleter]
<1>f. ASSUME NEW f \in InFiles, NEW at, NEW then \in {"undo", "done"}, UploaderEnds(f, at, then)
      PROVE  HandlersTyped
  BY <1>f DEF UploaderEnds
<1>g. ASSUME NEW b \in Batches, NEW at, CreatorEnds(b, at)  PROVE HandlersTyped
  BY <1>g, <1>b DEF CreatorEnds
<1>h. ASSUME NEW c \in Cancels, NEW at, CancellerEnds(c, at)  PROVE HandlersTyped
  BY <1>h, <1>e DEF CancellerEnds
<1>j. ASSUME NEW d \in Deletes, NEW at, DeleterEnds(d, at)  PROVE HandlersTyped
  BY <1>j, <1>d DEF DeleterEnds
<1>2. CASE HandlerFault
  <2>1. HandlersTyped
    <3> HIDE DEF HandlersTyped
    <3>1. QED BY ONLY <1>2, <1>f, <1>g, <1>h, <1>j DEF HandlerFault
  <2>2. QED BY <1>2, <2>1 DEF HandlerFault
<1>3. CASE HandlerDropped
  <2>1. HandlersTyped
    <3> HIDE DEF HandlersTyped
    <3>1. QED BY ONLY <1>3, <1>f, <1>g, <1>h, <1>j DEF HandlerDropped
  <2>2. QED BY <1>3, <2>1 DEF HandlerDropped
<1>4. CASE RecoverFault
  <2>1. recovery' \in Recovery
    BY <1>4, ConstantTypes DEF RecoverFault, Recovery
  <2>2. QED BY <1>4, <2>1 DEF RecoverFault
<1>5. CASE Crash
  <2>1. HandlersTyped
    BY <1>5, <1>b, <1>e, <1>d DEF Crash
  <2>2. recovery' \in Recovery /\ worker' \in [Batches -> Worker]
    BY <1>5, ConstantTypes DEF Crash
  <2>3. Jobs!JobTypeOK'
    BY <1>5 DEF Crash, Jobs!StopAllJobs
  <2>4. crashes' \in 0..MaxCrashes
    <3>1. crashes < MaxCrashes /\ crashes' = crashes + 1 /\ crashes \in 0..MaxCrashes
      BY <1>5 DEF Crash
    <3>2. QED BY ONLY <3>1, BoundsAssumption
  <2>5. UNCHANGED <<rec, meta, blob, runs, faults, drops, answered, asked, removed>>
    BY <1>5 DEF Crash
  <2>6. QED BY <2>1, <2>2, <2>3, <2>4, <2>5
<1>6. QED BY <1>1, <1>2, <1>3, <1>4, <1>5 DEF Trouble

\* Every step keeps the types.
LEMMA TypeStep ==
    ASSUME IInv, [Next]_vars
    PROVE  TypeOK'
<1>i. TypeOK /\ CancellersKnowWhom
  BY DEF IInv
<1>1. CASE UNCHANGED vars
  BY <1>1, <1>i DEF vars, durable, handlers, budgets, history, TypeOK, Jobs!JobTypeOK
<1>2. ASSUME NEW b \in Batches, WorkerStep(b)  PROVE TypeOK'
  BY <1>2, <1>i, WorkerTypes DEF IInv, FilesOfRuns, AnswersInStep
<1>3. CASE HandlerStep
  BY <1>3, <1>i, UploadTypes, CreateTypes, CancelTypes, DeleteTypes
     DEF HandlerStep, UploadStep, CreateStep, CancelStep, DeleteStep
<1>4. QED BY <1>1, <1>2, <1>3, <1>i, RecoveryTypes, TroubleTypes DEF Next

-----------------------------------------------------------------------------
(* What a step does to one batch *)

\* What a step makes of the worker of q and of the copy in its hands.
Becomes(q, pc, item, outcome, kind) ==
    /\ worker'[q].pc = pc /\ worker'[q].snap = worker[q].snap /\ worker'[q].item = item
    /\ worker'[q].outcome = outcome /\ worker'[q].kind = kind

Copy(q, status, cancel_requested, output, errors) ==
    /\ worker'[q].cur.status = status /\ worker'[q].cur.cancel_requested = cancel_requested
    /\ worker'[q].cur.output = output /\ worker'[q].cur.errors = errors

\* The worker starts to write its files, as far as there are any.
Writes(q, item, outcome) ==
    \/ (\E i \in Items : item[i] = "ok") /\ Becomes(q, "write_blob", item, outcome, "output")
    \/ (\E i \in Items : item[i] = "error") /\ Becomes(q, "write_blob", item, outcome, "errors")
    \/ /\ \A i \in Items : item[i] \notin {"ok", "error"}
       /\ Becomes(q, "put_final", item, outcome, "none")

Fails(q) ==
    /\ Becomes(q, "write_blob", worker[q].item, "failed", "validation")
    /\ worker'[q].cur = worker[q].snap

Stops(q) == worker'[q] = NoWorker /\ token'[q] = "none" /\ job'[q] = "idle"

FilesKept == meta' = meta /\ blob' = blob
StoresKept(q) == rec'[q] = rec[q] /\ runs'[q] = runs[q] /\ FilesKept

\* The steps of the worker of q, by what they do to q.
WorkerMove(q) ==
    LET w == worker[q] IN
    \/ /\ w.pc = "spawned" /\ rec'[q] = rec[q] /\ runs'[q] = runs[q] + 1 /\ FilesKept
       /\ \/ /\ w.snap.cancel_requested \/ token[q] = "cancelled"
             /\ Writes(q, w.item, "cancelled")
             /\ Copy(q, w.snap.status, w.snap.cancel_requested, None, None)
          \/ Becomes(q, "load_meta", w.item, w.outcome, w.kind) /\ worker'[q].cur = w.snap
    \/ w.pc \in {"load_meta", "load_blob"} /\ StoresKept(q) /\ Fails(q)
    \/ /\ w.pc = "load_meta" /\ StoresKept(q)
       /\ Becomes(q, "load_blob", w.item, w.outcome, w.kind) /\ worker'[q].cur = w.cur
    \/ /\ w.pc = "load_blob" /\ StoresKept(q)
       /\ Becomes(q, "put_in_progress", w.item, w.outcome, w.kind)
       /\ Copy(q, "in_progress", w.cur.cancel_requested, w.cur.output, w.cur.errors)
    \/ /\ w.pc = "put_in_progress" /\ rec'[q] = w.cur /\ runs'[q] = runs[q] /\ FilesKept
       /\ Becomes(q, "items", w.item, w.outcome, w.kind) /\ worker'[q].cur = w.cur
    \/ /\ w.pc = "items" /\ StoresKept(q)
       /\ Becomes(q, "items", worker'[q].item, w.outcome, w.kind) /\ worker'[q].cur = w.cur
       /\ \A i \in Items : worker'[q].item[i] \in {"ok", "error"} =>
                              worker'[q].item[i] = w.item[i] \/ i \in answered'[q]
       /\ \/ token[q] = "cancelled"
          \/ \A i \in Items : worker'[q].item[i] = "cancelled" => w.item[i] = "cancelled"
    \/ /\ w.pc = "items" /\ StoresKept(q)
       /\ \/ token[q] = "cancelled" \/ w.cur.cancel_requested
          \/ \E i \in Items : w.item[i] = "cancelled"
       /\ Writes(q, w.item, "cancelled")
       /\ Copy(q, w.cur.status, w.cur.cancel_requested, None, None)
    \/ /\ w.pc = "items" /\ StoresKept(q)
       /\ \A i \in Items : w.item[i] \in {"ok", "error"}
       /\ Becomes(q, "put_finalizing", w.item, w.outcome, w.kind)
       /\ Copy(q, "finalizing", w.cur.cancel_requested, w.cur.output, w.cur.errors)
    \/ /\ w.pc = "put_finalizing" /\ rec'[q] = w.cur /\ runs'[q] = runs[q] /\ FilesKept
       /\ Writes(q, w.item, "completed")
       /\ Copy(q, w.cur.status, w.cur.cancel_requested, None, None)
    \/ /\ w.pc = "write_blob" /\ rec'[q] = rec[q] /\ runs'[q] = runs[q]
       /\ meta' = meta /\ blob' = blob \cup {FileOf(q)}
       /\ Becomes(q, "write_meta", w.item, w.outcome, w.kind) /\ worker'[q].cur = w.cur
    \/ /\ w.pc = "write_meta" /\ rec'[q] = rec[q] /\ runs'[q] = runs[q]
       /\ meta' = meta \cup {FileOf(q)} /\ blob' = blob
       /\ \/ /\ w.kind = "output"
             /\ Copy(q, w.cur.status, w.cur.cancel_requested, FileOf(q), w.cur.errors)
             /\ \/ Becomes(q, "write_blob", w.item, w.outcome, "errors")
                \/ Becomes(q, "put_final", w.item, w.outcome, "none")
          \/ /\ w.kind # "output"
             /\ Copy(q, w.cur.status, w.cur.cancel_requested, w.cur.output, FileOf(q))
             /\ Becomes(q, "put_final", w.item, w.outcome, "none")
    \/ /\ w.pc = "put_final" /\ runs'[q] = runs[q] /\ FilesKept /\ Stops(q)
       /\ rec'[q].status = w.outcome /\ rec'[q].cancel_requested = w.cur.cancel_requested
       /\ rec'[q].output = w.cur.output /\ rec'[q].errors = w.cur.errors

\* What WriteFiles makes of a worker.
LEMMA WriteFilesMoves ==
    ASSUME NEW q, NEW w \in Worker, NEW outcome, w.snap = worker[q].snap,
           worker'[q] = WriteFiles(w, outcome)
    PROVE  /\ Writes(q, w.item, outcome)
           /\ Copy(q, w.cur.status, w.cur.cancel_requested, None, None)
<1> DEFINE cur == [w.cur EXCEPT !.output = None, !.errors = None]
           x == [w EXCEPT !.outcome = outcome, !.cur = cur]
<1>0. w.cur \in Record
  BY DEF Worker
<1>1. /\ cur.status = w.cur.status /\ cur.cancel_requested = w.cur.cancel_requested
      /\ cur.output = None /\ cur.errors = None
  BY <1>0 DEF Record
<1>2. [w EXCEPT !.outcome = outcome, !.cur.output = None, !.cur.errors = None] = x
  BY <1>0 DEF Worker, Record
<1>3. HasOutput(w) <=> \E i \in Items : w.item[i] = "ok"
  BY DEF HasOutput, Answered
<1>4. HasErrors(x) <=> \E i \in Items : w.item[i] = "error"
  BY DEF HasErrors, Answered, Worker
<1> HIDE DEF cur
<1>5. \/ HasOutput(w) /\ worker'[q] = [x EXCEPT !.pc = "write_blob", !.kind = "output"]
      \/ HasErrors(x) /\ worker'[q] = [x EXCEPT !.pc = "write_blob", !.kind = "errors"]
      \/ ~HasOutput(w) /\ ~HasErrors(x) /\ worker'[q] = [x EXCEPT !.pc = "put_final", !.kind = "none"]
  <2> HIDE DEF x
  <2>1. worker'[q] = (IF HasOutput(w) THEN [x EXCEPT !.pc = "write_blob", !.kind = "output"]
                      ELSE WriteErrors(x))
    BY <1>2 DEF WriteFiles
  <2>2. QED BY <2>1 DEF WriteErrors
<1>6. worker'[q].cur = cur
  BY <1>5 DEF Worker
<1>7. Writes(q, w.item, outcome)
  <2>1. CASE HasOutput(w) /\ worker'[q] = [x EXCEPT !.pc = "write_blob", !.kind = "output"]
    <3>1. Becomes(q, "write_blob", w.item, outcome, "output")
      BY <2>1 DEF Becomes, Worker
    <3>2. QED BY <1>3, <2>1, <3>1 DEF Writes
  <2>2. CASE HasErrors(x) /\ worker'[q] = [x EXCEPT !.pc = "write_blob", !.kind = "errors"]
    <3>1. Becomes(q, "write_blob", w.item, outcome, "errors")
      BY <2>2 DEF Becomes, Worker
    <3>2. QED BY <1>4, <2>2, <3>1 DEF Writes
  <2>3. CASE /\ ~HasOutput(w) /\ ~HasErrors(x)
             /\ worker'[q] = [x EXCEPT !.pc = "put_final", !.kind = "none"]
    <3>1. Becomes(q, "put_final", w.item, outcome, "none")
      BY <2>3 DEF Becomes, Worker
    <3>2. QED BY <1>3, <1>4, <2>3, <3>1 DEF Writes
  <2>4. QED BY <1>5, <2>1, <2>2, <2>3
<1>8. QED BY <1>1, <1>6, <1>7 DEF Copy

\* Every step of a worker is one of these.
LEMMA WorkerMoves ==
    ASSUME TypeOK, NEW q \in Batches, WorkerStep(q)
    PROVE  /\ WorkerMove(q)
           /\ UNCHANGED <<uploader, creator, canceller, deleter, recovery, asked, removed>>
           /\ (token'[q] = token[q] \/ Stops(q))
           /\ job'[q] = "idle" => Stops(q) \/ job[q] = "idle"
           /\ answered[q] \subseteq answered'[q]
<1> DEFINE w == worker[q]
<1>w. w \in Worker /\ w.cur \in Record /\ w.snap \in Record
  BY DEF TypeOK, Worker
<1>s. ASSUME NEW x, SetWorker(q, x)  PROVE worker'[q] = x
  BY <1>s DEF SetWorker, TypeOK
<1>u. UNCHANGED <<uploader, creator, canceller, deleter, recovery, asked, removed>>
  BY DEF WorkerStep, BeginRun, LoadMeta, LoadBlob, PutInProgress, StartItem, FinishItem, CancelItem,
         Collect, PutFinalizing, WriteBlob, WriteMeta, PutFinal, durable, handlers, budgets, history
<1> DEFINE Rest == /\ (token'[q] = token[q] \/ Stops(q))
                   /\ job'[q] = "idle" => Stops(q) \/ job[q] = "idle"
                   /\ answered[q] \subseteq answered'[q]
<1>f. ASSUME worker'[q] = Fail(w)  PROVE Fails(q)
  <2>1. worker'[q] = [w EXCEPT !.pc = "write_blob", !.kind = "validation",
                               !.outcome = "failed", !.cur = w.snap]
    BY <1>f DEF Fail
  <2>2. QED BY ONLY <1>w, <2>1 DEF Worker, Fails, Becomes
<1>r. Rest
  <2>1. CASE PutFinal(q)
    <3>1. worker'[q] = NoWorker
      BY <2>1, <1>s DEF PutFinal
    <3>2. QED BY <2>1, <3>1 DEF PutFinal, Jobs!FinishJob, TypeOK, Jobs!JobTypeOK, Stops, history
  <2>2. CASE BeginRun(q)
    BY <2>2 DEF BeginRun, Jobs!StartJob, TypeOK, Jobs!JobTypeOK, history
  <2>3. CASE ~PutFinal(q) /\ ~BeginRun(q)
    BY <2>3 DEF WorkerStep, LoadMeta, LoadBlob, PutInProgress, StartItem, FinishItem, CancelItem,
         Collect, PutFinalizing, WriteBlob, WriteMeta, history, TypeOK
  <2>4. QED BY <2>1, <2>2, <2>3
<1> SUFFICES WorkerMove(q)
  BY <1>u, <1>r
<1> HIDE DEF w
<1> USE DEF durable, StoresKept, FilesKept
<1>1. CASE BeginRun(q)
  <2> DEFINE x == [w EXCEPT !.cur = w.snap]
  <2>x. x \in Worker /\ x.snap = w.snap /\ x.cur = w.snap /\ x.item = w.item
    BY <1>w DEF Worker
  <2>1. rec'[q] = rec[q] /\ runs'[q] = runs[q] + 1 /\ FilesKept /\ w.pc = "spawned"
    BY <1>1 DEF BeginRun, TypeOK, w
  <2>2. CASE w.snap.cancel_requested \/ token[q] = "cancelled"
    <3>1. worker'[q] = WriteFiles(x, "cancelled")
      BY <1>1, <1>s, <2>2, <2>x DEF BeginRun, w
    <3> HIDE DEF x
    <3>2. Writes(q, w.item, "cancelled") /\ Copy(q, w.snap.status, w.snap.cancel_requested, None, None)
      BY <2>x, <3>1, WriteFilesMoves DEF w
    <3>3. QED BY <2>1, <2>2, <3>2 DEF WorkerMove, w
  <2>3. CASE ~(w.snap.cancel_requested \/ token[q] = "cancelled")
    <3>1. worker'[q] = [x EXCEPT !.pc = "load_meta"]
      BY <1>1, <1>s, <2>3, <2>x DEF BeginRun, w
    <3>2. Becomes(q, "load_meta", w.item, w.outcome, w.kind) /\ worker'[q].cur = w.snap
      BY <1>w, <3>1 DEF Becomes, Worker, w
    <3>3. QED BY <2>1, <3>2 DEF WorkerMove, w
  <2>4. QED BY <2>2, <2>3
<1>2. CASE LoadMeta(q)
  <2>1. w.pc = "load_meta" /\ StoresKept(q)
    BY <1>2 DEF LoadMeta, w
  <2>2. CASE worker'[q] = [w EXCEPT !.pc = "load_blob"]
    <3>1. Becomes(q, "load_blob", w.item, w.outcome, w.kind) /\ worker'[q].cur = w.cur
      BY <1>w, <2>2 DEF Becomes, Worker, w
    <3>2. QED BY <2>1, <3>1 DEF WorkerMove, w
  <2>3. CASE worker'[q] = Fail(w)
    BY <2>1, <2>3, <1>f DEF WorkerMove, w
  <2>4. QED BY <1>2, <1>s, <2>2, <2>3 DEF LoadMeta, w
<1>3. CASE LoadBlob(q)
  <2>1. w.pc = "load_blob" /\ StoresKept(q)
    BY <1>3 DEF LoadBlob, w
  <2>2. CASE worker'[q] = [w EXCEPT !.pc = "put_in_progress", !.cur.status = "in_progress",
                                    !.cur.total = Cardinality(Items)]
    <3>1. /\ Becomes(q, "put_in_progress", w.item, w.outcome, w.kind)
          /\ Copy(q, "in_progress", w.cur.cancel_requested, w.cur.output, w.cur.errors)
      <4> DEFINE cur == [w.cur EXCEPT !.status = "in_progress", !.total = Cardinality(Items)]
      <4>1. worker'[q] = [w EXCEPT !.pc = "put_in_progress", !.cur = cur]
        BY ONLY <1>w, <2>2 DEF Worker, Record
      <4>2. worker'[q].cur = cur
        BY ONLY <1>w, <4>1 DEF Worker
      <4>3. Copy(q, "in_progress", w.cur.cancel_requested, w.cur.output, w.cur.errors)
        BY ONLY <1>w, <4>2 DEF Copy, Record
      <4> HIDE DEF cur
      <4>4. Becomes(q, "put_in_progress", w.item, w.outcome, w.kind)
        BY ONLY <1>w, <4>1 DEF Becomes, Worker, w
      <4>5. QED BY <4>3, <4>4
    <3>2. QED BY <2>1, <3>1 DEF WorkerMove, w
  <2>3. CASE worker'[q] = Fail(w)
    BY <2>1, <2>3, <1>f DEF WorkerMove, w
  <2>4. QED BY <1>3, <1>s, <2>2, <2>3 DEF LoadBlob, w
<1>4. CASE PutInProgress(q)
  <2>1. /\ w.pc = "put_in_progress" /\ rec'[q] = w.cur /\ runs'[q] = runs[q] /\ FilesKept
        /\ worker'[q] = [w EXCEPT !.pc = "items"]
    BY <1>4, <1>s DEF PutInProgress, TypeOK, w
  <2>2. Becomes(q, "items", w.item, w.outcome, w.kind) /\ worker'[q].cur = w.cur
    BY <1>w, <2>1 DEF Becomes, Worker, w
  <2>3. QED BY <2>1, <2>2 DEF WorkerMove, w
<1>5. ASSUME NEW i \in Items, StartItem(q, i) \/ FinishItem(q, i) \/ CancelItem(q, i)
      PROVE  WorkerMove(q)
  <2>1. StoresKept(q) /\ w.pc = "items"
    BY <1>5 DEF StartItem, FinishItem, CancelItem, w
  <2>2. PICK s \in ItemStates : /\ worker'[q] = [w EXCEPT !.item[i] = s]
                                /\ s = "cancelled" => token[q] = "cancelled"
                                /\ s \in {"ok", "error"} => i \in answered'[q]
    BY <1>5, <1>s DEF StartItem, FinishItem, CancelItem, ItemStates, TypeOK, w
  <2>3. Becomes(q, "items", worker'[q].item, w.outcome, w.kind) /\ worker'[q].cur = w.cur
    BY <1>w, <2>1, <2>2 DEF Worker, Becomes, w
  <2>4. \A j \in Items : worker'[q].item[j] = (IF j = i THEN s ELSE w.item[j])
    BY ONLY <1>w, <2>2 DEF Worker
  <2>5. \A j \in Items : worker'[q].item[j] \in {"ok", "error"} =>
                            worker'[q].item[j] = w.item[j] \/ j \in answered'[q]
    BY ONLY <2>2, <2>4
  <2>6. \/ token[q] = "cancelled"
        \/ \A j \in Items : worker'[q].item[j] = "cancelled" => w.item[j] = "cancelled"
    BY ONLY <2>2, <2>4
  <2>7. QED BY <2>1, <2>3, <2>5, <2>6 DEF WorkerMove, w
<1>6. CASE Collect(q)
  <2> DEFINE counted == [w EXCEPT
                !.cur.completed = @ + Cardinality(Answered(w, "ok")),
                !.cur.failed = @ + Cardinality(Answered(w, "error")) + Cardinality(Answered(w, "cancelled"))]
  <2>1. /\ w.pc = "items" /\ StoresKept(q)
        /\ Answered(w, "pending") = {} /\ Answered(w, "inflight") = {}
    BY <1>6 DEF Collect, w
  <2>2. CASE token[q] = "cancelled" \/ w.cur.cancel_requested \/ Answered(w, "cancelled") # {}
    <3>1. worker'[q] = WriteFiles(counted, "cancelled")
      BY <1>6, <1>s, <2>2 DEF Collect, w
    <3>2. /\ counted \in Worker /\ counted.snap = w.snap /\ counted.item = w.item
          /\ counted.cur.status = w.cur.status /\ counted.cur.cancel_requested = w.cur.cancel_requested
      <4>1. /\ Cardinality(Answered(w, "ok")) \in Nat /\ Cardinality(Answered(w, "error")) \in Nat
            /\ Cardinality(Answered(w, "cancelled")) \in Nat
        BY ItemsCounted
      <4>2. /\ w.cur.completed + Cardinality(Answered(w, "ok")) \in Nat
            /\ w.cur.failed + Cardinality(Answered(w, "error")) + Cardinality(Answered(w, "cancelled")) \in Nat
        BY <4>1, <1>w DEF Record
      <4>3. QED BY ONLY <4>2, <1>w DEF Worker, Record
    <3> HIDE DEF counted
    <3>3. /\ Writes(q, w.item, "cancelled")
          /\ Copy(q, w.cur.status, w.cur.cancel_requested, None, None)
      <4>1. counted.snap = worker[q].snap
        BY <3>2 DEF w
      <4>2. QED BY <3>1, <3>2, <4>1, WriteFilesMoves
    <3>4. \/ token[q] = "cancelled" \/ w.cur.cancel_requested
          \/ \E i \in Items : w.item[i] = "cancelled"
      BY <2>2 DEF Answered
    <3>5. QED BY <2>1, <3>3, <3>4 DEF WorkerMove, w
  <2>3. CASE ~(token[q] = "cancelled" \/ w.cur.cancel_requested \/ Answered(w, "cancelled") # {})
    <3>1. worker'[q] = [counted EXCEPT !.pc = "put_finalizing", !.cur.status = "finalizing"]
      BY <1>6, <1>s, <2>3 DEF Collect, w
    <3>2. /\ Becomes(q, "put_finalizing", w.item, w.outcome, w.kind)
          /\ Copy(q, "finalizing", w.cur.cancel_requested, w.cur.output, w.cur.errors)
      <4> DEFINE oks == w.cur.completed + Cardinality(Answered(w, "ok"))
                 others == w.cur.failed + Cardinality(Answered(w, "error"))
                                        + Cardinality(Answered(w, "cancelled"))
                 cur == [w.cur EXCEPT !.completed = oks, !.failed = others, !.status = "finalizing"]
      <4>1. counted = [w EXCEPT !.cur = [w.cur EXCEPT !.completed = oks, !.failed = others]]
        BY ONLY <1>w DEF Worker, Record
      <4> HIDE DEF oks, others, counted
      <4>2. worker'[q] = [w EXCEPT !.pc = "put_finalizing", !.cur = cur]
        BY ONLY <1>w, <3>1, <4>1 DEF Worker, Record
      <4>3. worker'[q].cur = cur
        BY ONLY <1>w, <4>2 DEF Worker
      <4>4. Copy(q, "finalizing", w.cur.cancel_requested, w.cur.output, w.cur.errors)
        BY ONLY <1>w, <4>3 DEF Copy, Record
      <4> HIDE DEF cur
      <4>5. Becomes(q, "put_finalizing", w.item, w.outcome, w.kind)
        BY ONLY <1>w, <4>2 DEF Becomes, Worker, w
      <4>6. QED BY <4>4, <4>5
    <3>3. \A i \in Items : w.item[i] \in {"ok", "error"}
      <4>1. \A i \in Items : /\ w.item[i] \in ItemStates
                             /\ w.item[i] \notin {"pending", "inflight", "cancelled"}
        BY <1>w, <2>1, <2>3 DEF Answered, Worker
      <4>2. QED BY ONLY <4>1 DEF ItemStates
    <3>4. QED BY <2>1, <3>2, <3>3 DEF WorkerMove, w
  <2>4. QED BY <2>2, <2>3
<1>7. CASE PutFinalizing(q)
  <2>1. /\ w.pc = "put_finalizing" /\ rec'[q] = w.cur /\ runs'[q] = runs[q] /\ FilesKept
        /\ worker'[q] = WriteFiles(w, "completed")
    BY <1>7, <1>s DEF PutFinalizing, TypeOK, w
  <2>2. /\ Writes(q, w.item, "completed")
        /\ Copy(q, w.cur.status, w.cur.cancel_requested, None, None)
    <3>1. w.snap = worker[q].snap
      BY DEF w
    <3>2. QED BY <1>w, <2>1, <3>1, WriteFilesMoves
  <2>3. QED BY <2>1, <2>2 DEF WorkerMove, w
<1>8. CASE WriteBlob(q)
  <2>1. /\ w.pc = "write_blob" /\ rec'[q] = rec[q] /\ runs'[q] = runs[q]
        /\ meta' = meta /\ blob' = blob \cup {FileOf(q)}
        /\ worker'[q] = [w EXCEPT !.pc = "write_meta"]
    BY <1>8, <1>s DEF WriteBlob, w
  <2>2. Becomes(q, "write_meta", w.item, w.outcome, w.kind) /\ worker'[q].cur = w.cur
    BY <1>w, <2>1 DEF Becomes, Worker, w
  <2>3. QED BY <2>1, <2>2 DEF WorkerMove, w
<1>9. CASE WriteMeta(q)
  <2>1. /\ w.pc = "write_meta" /\ rec'[q] = rec[q] /\ runs'[q] = runs[q]
        /\ meta' = meta \cup {FileOf(q)} /\ blob' = blob
    BY <1>9 DEF WriteMeta, w
  <2>2. CASE w.kind = "output"
    <3> DEFINE out == [w EXCEPT !.cur.output = FileOf(q)]
    <3>1. worker'[q] = WriteErrors(out)
      BY <1>9, <1>s, <2>2 DEF WriteMeta, w
    <3>2. \/ worker'[q] = [out EXCEPT !.pc = "write_blob", !.kind = "errors"]
          \/ worker'[q] = [out EXCEPT !.pc = "put_final", !.kind = "none"]
      <4> HIDE DEF out
      <4>1. QED BY <3>1 DEF WriteErrors
    <3>3. /\ Copy(q, w.cur.status, w.cur.cancel_requested, FileOf(q), w.cur.errors)
          /\ \/ Becomes(q, "write_blob", w.item, w.outcome, "errors")
             \/ Becomes(q, "put_final", w.item, w.outcome, "none")
      <4> DEFINE cur == [w.cur EXCEPT !.output = FileOf(q)]
      <4>1. out = [w EXCEPT !.cur = cur]
        BY ONLY <1>w DEF Worker, Record
      <4> HIDE DEF out
      <4>2. \/ worker'[q] = [w EXCEPT !.cur = cur, !.pc = "write_blob", !.kind = "errors"]
            \/ worker'[q] = [w EXCEPT !.cur = cur, !.pc = "put_final", !.kind = "none"]
        BY ONLY <1>w, <3>2, <4>1 DEF Worker
      <4>3. worker'[q].cur = cur
        BY ONLY <1>w, <4>2 DEF Worker
      <4>4. Copy(q, w.cur.status, w.cur.cancel_requested, FileOf(q), w.cur.errors)
        BY ONLY <1>w, <4>3 DEF Copy, Record
      <4> HIDE DEF cur
      <4>5. \/ Becomes(q, "write_blob", w.item, w.outcome, "errors")
            \/ Becomes(q, "put_final", w.item, w.outcome, "none")
        BY ONLY <1>w, <4>2 DEF Becomes, Worker, w
      <4>6. QED BY <4>4, <4>5
    <3>4. QED BY <2>1, <2>2, <3>3 DEF WorkerMove, w
  <2>3. CASE w.kind # "output"
    <3>1. worker'[q] = [w EXCEPT !.cur.errors = FileOf(q), !.pc = "put_final", !.kind = "none"]
      BY <1>9, <1>s, <2>3 DEF WriteMeta, w
    <3>2. /\ Copy(q, w.cur.status, w.cur.cancel_requested, w.cur.output, FileOf(q))
          /\ Becomes(q, "put_final", w.item, w.outcome, "none")
      BY <1>w, <3>1 DEF Becomes, Copy, Worker, Record, w
    <3>3. QED BY <2>1, <2>3, <3>2 DEF WorkerMove, w
  <2>4. QED BY <2>2, <2>3
<1>10. CASE PutFinal(q)
  <2>1. /\ w.pc = "put_final" /\ runs'[q] = runs[q] /\ FilesKept
        /\ rec'[q] = [w.cur EXCEPT !.status = w.outcome]
    BY <1>10 DEF PutFinal, TypeOK, w
  <2>2. worker'[q] = NoWorker /\ token'[q] = "none" /\ job'[q] = "idle"
    BY <1>10, <1>s DEF PutFinal, Jobs!FinishJob, TypeOK, Jobs!JobTypeOK
  <2>3. /\ rec'[q].status = w.outcome /\ rec'[q].cancel_requested = w.cur.cancel_requested
        /\ rec'[q].output = w.cur.output /\ rec'[q].errors = w.cur.errors
    BY <1>w, <2>1 DEF Record
  <2>4. QED BY <2>1, <2>2, <2>3 DEF WorkerMove, Stops, w
<1>11. QED
  BY <1>1, <1>2, <1>3, <1>4, <1>5, <1>6, <1>7, <1>8, <1>9, <1>10 DEF WorkerStep

Spawned(q, snapshot) ==
    \/ worker'[q] = worker[q] /\ token'[q] = token[q] /\ job'[q] = job[q] /\ job[q] # "idle"
    \/ /\ token'[q] = "live" /\ job'[q] = "queued"
       /\ worker'[q] = [NoWorker EXCEPT !.pc = "spawned", !.snap = snapshot]

\* A spawn is refused, or starts a new worker with its snapshot.
LEMMA SpawnMoves ==
    ASSUME TypeOK, NEW q \in Batches, NEW snapshot, Spawn(q, snapshot)
    PROVE  Spawned(q, snapshot)
<1>1. CASE /\ Jobs!EnqueueJob(q)
           /\ worker' = [worker EXCEPT ![q] = [NoWorker EXCEPT !.pc = "spawned", !.snap = snapshot]]
  BY <1>1 DEF Jobs!EnqueueJob, TypeOK, Jobs!JobTypeOK, Spawned
<1>2. CASE Jobs!RefuseJob(q) /\ UNCHANGED worker
  BY <1>2 DEF Jobs!RefuseJob, Jobs!jobVars, Spawned
<1>3. QED BY <1>1, <1>2 DEF Spawn

\* A spawn for another batch leaves q alone.
LEMMA SpawnElsewhere ==
    ASSUME TypeOK, NEW q \in Batches, NEW b \in Batches \ {q}, NEW snapshot, Spawn(b, snapshot)
    PROVE  worker'[q] = worker[q] /\ token'[q] = token[q] /\ job'[q] = job[q]
BY DEF Spawn, Jobs!EnqueueJob, Jobs!RefuseJob, Jobs!jobVars, TypeOK, Jobs!JobTypeOK

JobKept(q) == worker'[q] = worker[q] /\ token'[q] = token[q] /\ job'[q] = job[q]

\* The worker of an accepted spawn is new but for its snapshot.
LEMMA SpawnedWorker ==
    ASSUME NEW q, NEW snapshot, Spawned(q, snapshot)
    PROVE  \/ JobKept(q)
           \/ /\ worker'[q].pc = "spawned" /\ worker'[q].snap = snapshot
              /\ worker'[q].cur = NoRecord /\ worker'[q].outcome = "none"
              /\ \A i \in Items : worker'[q].item[i] = "pending"
              /\ token'[q] = "live" /\ job'[q] = "queued"
<1>1. CASE worker'[q] = [NoWorker EXCEPT !.pc = "spawned", !.snap = snapshot]
  <2>1. /\ worker'[q].pc = "spawned" /\ worker'[q].snap = snapshot
        /\ worker'[q].cur = NoRecord /\ worker'[q].outcome = "none"
        /\ worker'[q].item = [i \in Items |-> "pending"]
    BY ONLY <1>1 DEF NoWorker
  <2>2. \A i \in Items : worker'[q].item[i] = "pending"
    BY ONLY <2>1
  <2>3. QED BY <2>1, <2>2 DEF Spawned, JobKept
<1>2. QED BY <1>1 DEF Spawned, JobKept

CreateMove(q) ==
    \/ creator[q].pc = "new" /\ creator'[q].pc = "put" /\ rec'[q] = rec[q] /\ JobKept(q)
    \/ /\ creator[q].pc = "put" /\ creator'[q].pc = "spawn" /\ JobKept(q)
       /\ rec'[q] = NewRecord(creator[q].input)
    \/ /\ creator[q].pc = "spawn" /\ creator'[q].pc = "done" /\ rec'[q] = rec[q]
       /\ Spawned(q, NewRecord(creator[q].input))

\* Every step of create is one of these.
LEMMA CreateMoves ==
    ASSUME TypeOK, NEW q \in Batches, CreateStep(q)
    PROVE  /\ CreateMove(q)
           /\ UNCHANGED <<meta, blob, uploader, canceller, deleter, recovery, runs, answered, asked, removed>>
<1>u. UNCHANGED <<meta, blob, uploader, canceller, deleter, recovery, runs, answered, asked, removed>>
  BY DEF CreateStep, CreateRead, CreatePut, CreateSpawn, durable, budgets, history
<1> SUFFICES CreateMove(q)
  BY <1>u
<1>c. creator[q] \in Creator
  BY DEF TypeOK
<1>e. \A pc \in {"spawn", "done"} : [creator[q] EXCEPT !.pc = pc].pc = pc
  BY <1>c DEF Creator
<1> USE DEF TypeOK, CreateMove, JobKept, durable
<1>1. ASSUME NEW f \in InFiles, CreateRead(q, f)  PROVE CreateMove(q)
  BY <1>1 DEF CreateRead
<1>2. CASE CreatePut(q)
  <2>1. creator' = [creator EXCEPT ![q] = [creator[q] EXCEPT !.pc = "spawn"]]
    BY <1>2 DEF CreatePut
  <2>2. creator'[q].pc = "spawn"
    BY <2>1, <1>e
  <2>3. QED BY <1>2, <2>2 DEF CreatePut
<1>3. CASE CreateSpawn(q)
  <2>1. creator' = [creator EXCEPT ![q] = [creator[q] EXCEPT !.pc = "done"]]
    BY <1>3 DEF CreateSpawn
  <2>2. creator'[q].pc = "done"
    BY <2>1, <1>e
  <2>3. QED BY <1>3, <2>2, SpawnMoves DEF CreateSpawn
<1>4. QED BY <1>1, <1>2, <1>3 DEF CreateStep

\* A cancel leaves q alone, reads an active record, or writes its copy back as
\* asked for.
LEMMA CancelMoves ==
    ASSUME TypeOK, CancellersKnowWhom, NEW q \in Batches, NEW c \in Cancels, CancelStep(c)
    PROVE  /\ \/ rec'[q] = rec[q] /\ token'[q] = token[q]
              \/ /\ canceller[c].pc # "new" /\ canceller[c].batch = q /\ q \in asked'
                 /\ \/ rec'[q] = rec[q]
                    \/ /\ canceller[c].pc = "put" /\ rec'[q].status = "cancelling"
                       /\ rec'[q].output = canceller[c].copy.output
                       /\ rec'[q].errors = canceller[c].copy.errors
           /\ asked \subseteq asked'
           /\ UNCHANGED <<meta, blob, job, worker, uploader, creator, deleter, recovery, runs, answered, removed>>
           /\ \A e \in Cancels :
                 /\ canceller'[e].copy = canceller[e].copy \/ \E b \in Batches : canceller'[e].copy = rec[b]
                 /\ canceller'[e].pc # "new" /\ canceller'[e].batch = q =>
                       \/ canceller[e].pc # "new" /\ canceller[e].batch = q
                       \/ rec[q].status \in Active
                 /\ canceller'[e].pc = "put" /\ canceller'[e].batch = q =>
                       \/ canceller[e].pc = "put" /\ canceller[e].batch = q
                       \/ rec[q].status \in Active
           /\ CancellersKnowWhom'
<1>c. /\ canceller[c] \in Canceller /\ canceller[c].copy \in Record
      /\ canceller[c].pc # "new" => canceller[c].batch \in Batches
      /\ canceller[c].pc = "signal" => canceller[c].batch \in asked
  BY DEF TypeOK, CancellersKnowWhom, Canceller
<1> USE DEF TypeOK, durable, budgets, history
<1> DEFINE Kept == UNCHANGED <<meta, blob, job, worker, uploader, creator, deleter, recovery, runs,
                               answered, removed>>
<1>1. ASSUME NEW b \in Batches, CancelRead(c, b)
      PROVE  /\ Kept /\ UNCHANGED <<rec, token, asked>>
             /\ canceller[c].pc = "new" /\ rec[b].status \in Active
             /\ canceller' = [canceller EXCEPT ![c] = canceller'[c]]
             /\ canceller'[c].pc = "put" /\ canceller'[c].batch = b /\ canceller'[c].copy = rec[b]
  BY <1>1 DEF CancelRead
<1>2. ASSUME CancelPut(c)
      PROVE  /\ Kept /\ UNCHANGED token
             /\ canceller[c].pc = "put" /\ asked' = asked \cup {canceller[c].batch}
             /\ canceller' = [canceller EXCEPT ![c] = canceller'[c]]
             /\ canceller'[c].pc = "signal" /\ canceller'[c].batch = canceller[c].batch
             /\ canceller'[c].copy = canceller[c].copy
             /\ \/ rec'[q] = rec[q]
                \/ /\ canceller[c].batch = q /\ rec'[q].status = "cancelling"
                   /\ rec'[q].output = canceller[c].copy.output
                   /\ rec'[q].errors = canceller[c].copy.errors
  <2> DEFINE marked == [canceller[c].copy EXCEPT !.status = "cancelling", !.cancel_requested = TRUE]
  <2>1. rec' = [rec EXCEPT ![canceller[c].batch] = marked]
    BY <1>2 DEF CancelPut
  <2>2. /\ marked.status = "cancelling" /\ marked.output = canceller[c].copy.output
        /\ marked.errors = canceller[c].copy.errors
    BY ONLY <1>c DEF Record
  <2> HIDE DEF marked
  <2>3. rec'[q] = rec[q] \/ (canceller[c].batch = q /\ rec'[q] = marked)
    BY <2>1
  <2>4. canceller' = [canceller EXCEPT ![c] = [canceller[c] EXCEPT !.pc = "signal"]]
    BY <1>2 DEF CancelPut
  <2>5. /\ canceller'[c].pc = "signal" /\ canceller'[c].batch = canceller[c].batch
        /\ canceller'[c].copy = canceller[c].copy
    BY <1>c, <2>4 DEF Canceller
  <2>6. QED BY <1>2, <2>2, <2>3, <2>4, <2>5 DEF CancelPut
<1>3. ASSUME CancelSignal(c)
      PROVE  /\ Kept /\ UNCHANGED <<rec, asked>>
             /\ canceller[c].pc = "signal"
             /\ canceller' = [canceller EXCEPT ![c] = canceller'[c]]
             /\ canceller'[c].pc = "done" /\ canceller'[c].batch = canceller[c].batch
             /\ canceller'[c].copy = canceller[c].copy
             /\ token'[q] = token[q] \/ canceller[c].batch = q
  <2>1. canceller' = [canceller EXCEPT ![c] = [canceller[c] EXCEPT !.pc = "done"]]
    BY <1>3 DEF CancelSignal
  <2>2. /\ canceller'[c].pc = "done" /\ canceller'[c].batch = canceller[c].batch
        /\ canceller'[c].copy = canceller[c].copy
    BY <1>c, <2>1 DEF Canceller
  <2>3. token'[q] = token[q] \/ canceller[c].batch = q
    BY <1>3 DEF CancelSignal, Jobs!CancelJob, Jobs!JobTypeOK
  <2>4. QED BY <1>3, <2>1, <2>2, <2>3 DEF CancelSignal, Jobs!CancelJob
<1> DEFINE Rest == /\ asked \subseteq asked' /\ Kept
                   /\ \A e \in Cancels :
                         /\ canceller'[e].copy = canceller[e].copy \/ \E b \in Batches : canceller'[e].copy = rec[b]
                         /\ canceller'[e].pc # "new" /\ canceller'[e].batch = q =>
                               \/ canceller[e].pc # "new" /\ canceller[e].batch = q
                               \/ rec[q].status \in Active
                         /\ canceller'[e].pc = "put" /\ canceller'[e].batch = q =>
                               \/ canceller[e].pc = "put" /\ canceller[e].batch = q
                               \/ rec[q].status \in Active
                   /\ CancellersKnowWhom'
<1>4. Rest
  <2>1. ASSUME NEW b \in Batches, CancelRead(c, b)  PROVE Rest
    BY <1>1, <2>1 DEF CancellersKnowWhom
  <2>2. CASE CancelPut(c)
    BY <1>2, <1>c, <2>2 DEF CancellersKnowWhom
  <2>3. CASE CancelSignal(c)
    BY <1>3, <1>c, <2>3 DEF CancellersKnowWhom
  <2> HIDE DEF Rest
  <2>4. QED BY <2>1, <2>2, <2>3 DEF CancelStep
<1>5. \/ rec'[q] = rec[q] /\ token'[q] = token[q]
      \/ /\ canceller[c].pc # "new" /\ canceller[c].batch = q /\ q \in asked'
         /\ \/ rec'[q] = rec[q]
            \/ /\ canceller[c].pc = "put" /\ rec'[q].status = "cancelling"
               /\ rec'[q].output = canceller[c].copy.output
               /\ rec'[q].errors = canceller[c].copy.errors
  BY <1>1, <1>2, <1>3, <1>c DEF CancelStep
<1>6. QED BY <1>4, <1>5

\* Uploads and deletes touch files only.
LEMMA FileHandlersMove ==
    ASSUME (\E f \in InFiles : UploadStep(f)) \/ (\E d \in Deletes : DeleteStep(d))
    PROVE  UNCHANGED <<rec, job, token, worker, creator, canceller, recovery, runs, answered, asked>>
BY DEF UploadStep, DeleteStep, UploadBlob, UploadMeta, UploadUndo, DeleteCheck, DeleteMeta, DeleteBlob,
       durable, budgets, history

\* The recovery reads the record of q, forgets it, or starts the job with what it
\* has read.
LEMMA RecoveryMoves ==
    ASSUME TypeOK, NEW q \in Batches, RecoveryStep \/ RecoverFault
    PROVE  /\ \/ JobKept(q) /\ recovery'.seen[q] \in {recovery.seen[q], rec[q], NoRecord}
              \/ /\ recovery.seen[q].status \in Active
                 /\ Spawned(q, recovery.seen[q]) /\ recovery'.seen[q] = NoRecord
           /\ UNCHANGED <<rec, meta, blob, uploader, creator, canceller, deleter, runs, answered, asked, removed>>
<1>1. UNCHANGED <<rec, meta, blob, uploader, creator, canceller, deleter, runs, answered, asked, removed>>
  BY DEF RecoveryStep, RecoverRead, RecoverSpawn, RecoverDone, RecoverFault, durable, handlers, budgets, history
<1> DEFINE Reads == JobKept(q) /\ recovery'.seen[q] \in {recovery.seen[q], rec[q], NoRecord}
<1>2. ASSUME RecoverDone \/ RecoverFault  PROVE Reads
  <2>1. UNCHANGED <<worker, token, job>>
    BY <1>2 DEF RecoverDone, RecoverFault
  <2>2. recovery'.seen = [b \in Batches |-> NoRecord]
    BY <1>2 DEF RecoverDone, RecoverFault, Recovery, TypeOK
  <2>3. QED BY <2>1, <2>2 DEF JobKept
<1>3. ASSUME NEW b \in Batches, RecoverRead(b)  PROVE Reads
  <2>1. UNCHANGED <<worker, token, job>>
    BY <1>3 DEF RecoverRead
  <2>2. recovery'.seen = [recovery.seen EXCEPT ![b] = rec[b]]
    BY <1>3 DEF RecoverRead, Recovery, TypeOK
  <2>3. QED BY <2>1, <2>2 DEF Recovery, TypeOK, JobKept
<1>4. ASSUME NEW b \in Batches, RecoverSpawn(b), b # q  PROVE Reads
  <2>1. JobKept(q)
    BY <1>4, SpawnElsewhere DEF RecoverSpawn, JobKept
  <2>2. recovery'.seen[q] = recovery.seen[q]
    BY <1>4 DEF RecoverSpawn, Recovery, TypeOK
  <2>3. QED BY <2>1, <2>2
<1>5. ASSUME RecoverSpawn(q)
      PROVE  /\ recovery.seen[q].status \in Active
             /\ Spawned(q, recovery.seen[q]) /\ recovery'.seen[q] = NoRecord
  BY <1>5, SpawnMoves DEF RecoverSpawn, Recovery, TypeOK
<1>6. QED BY <1>1, <1>2, <1>3, <1>4, <1>5 DEF RecoveryStep

\* A failing store call turns the worker to its failure path, drops the file it
\* was about to write, or ends the job without the final record.
LEMMA FaultMoves ==
    ASSUME TypeOK, NEW q \in Batches, WorkerFault(q)
    PROVE  /\ UNCHANGED <<rec, meta, blob, uploader, creator, canceller, deleter, recovery, runs,
                          answered, asked, removed>>
           /\ worker[q].pc \notin {"none", "spawned"}
           /\ \/ Fails(q) /\ token'[q] = token[q] /\ job'[q] = job[q] /\ worker[q].outcome # "failed"
              \/ /\ token'[q] = token[q] /\ job'[q] = job[q] /\ worker[q].outcome = "failed"
                 /\ Becomes(q, "put_final", worker[q].item, "failed", "none")
                 /\ worker'[q].cur = worker[q].cur
              \/ Stops(q)
<1>w. worker[q] \in Worker
  BY DEF TypeOK
<1>s. ASSUME NEW w, SetWorker(q, w)  PROVE worker'[q] = w
  BY <1>s DEF SetWorker, TypeOK
<1>1. /\ UNCHANGED <<rec, meta, blob, uploader, creator, canceller, deleter, recovery, runs,
                     answered, asked, removed>>
      /\ worker[q].pc \notin {"none", "spawned"}
  BY DEF WorkerFault, durable, handlers, history
<1>2. CASE SetWorker(q, Fail(worker[q])) /\ worker[q].outcome # "failed" /\ UNCHANGED <<job, token>>
  <2>1. worker'[q] = [worker[q] EXCEPT !.pc = "write_blob", !.kind = "validation",
                                       !.outcome = "failed", !.cur = worker[q].snap]
    BY <1>2, <1>s DEF Fail
  <2>2. Fails(q)
    BY ONLY <1>w, <2>1 DEF Worker, Fails, Becomes
  <2>3. QED BY <1>1, <1>2, <2>2
<1>3. CASE /\ SetWorker(q, [worker[q] EXCEPT !.pc = "put_final", !.kind = "none"])
           /\ worker[q].outcome = "failed" /\ UNCHANGED <<job, token>>
  <2>1. worker'[q] = [worker[q] EXCEPT !.pc = "put_final", !.kind = "none"]
    BY <1>3, <1>s
  <2>2. /\ Becomes(q, "put_final", worker[q].item, worker[q].outcome, "none")
        /\ worker'[q].cur = worker[q].cur
    BY ONLY <1>w, <2>1 DEF Worker, Becomes
  <2>3. QED BY <1>1, <1>3, <2>2
<1>4. CASE SetWorker(q, NoWorker) /\ Jobs!FinishJob(q)
  <2>1. Stops(q)
    BY <1>4, <1>s DEF Stops, Jobs!FinishJob, TypeOK, Jobs!JobTypeOK
  <2>2. QED BY <1>1, <2>1
<1>5. QED BY <1>2, <1>3, <1>4 DEF WorkerFault

\* What a cancel whose handler may have ended still is.
CancellersEnd ==
    \A c \in Cancels : /\ canceller'[c].batch = canceller[c].batch
                       /\ canceller'[c].copy = canceller[c].copy
                       /\ canceller'[c].pc # canceller[c].pc =>
                             canceller[c].pc # "new" /\ canceller'[c].pc = "done"

CreatorsEnd ==
    \A b \in Batches : \/ creator'[b].pc = creator[b].pc
                       \/ creator[b].pc # "new" /\ creator'[b].pc = "done"

\* A failing or dropped handler stops, an upload after undoing what it has done.
LEMMA HandlerMoves ==
    ASSUME TypeOK, CancellersKnowWhom, HandlerFault \/ HandlerDropped
    PROVE  /\ UNCHANGED <<rec, meta, blob, job, token, worker, recovery, runs, answered, asked, removed>>
           /\ CreatorsEnd /\ CancellersEnd
           /\ \A d \in Deletes : deleter'[d].pc = "blob" => deleter'[d] = deleter[d]
           /\ \A f \in InFiles : /\ uploader'[f] # "done" => uploader[f] # "done"
                                 /\ uploader'[f] = "meta" => uploader[f] = "meta"
           /\ CancellersKnowWhom'
<1>1. UNCHANGED <<rec, meta, blob, job, token, worker, recovery, runs, answered, asked, removed>>
  BY DEF HandlerFault, HandlerDropped, durable, history
<1> DEFINE DeletersEnd == \A d \in Deletes : deleter'[d].pc = "blob" => deleter'[d] = deleter[d]
           UploadersEnd == \A f \in InFiles : /\ uploader'[f] # "done" => uploader[f] # "done"
                                              /\ uploader'[f] = "meta" => uploader[f] = "meta"
           Ends == CreatorsEnd /\ CancellersEnd /\ DeletersEnd /\ UploadersEnd
<1>2. ASSUME NEW f \in InFiles, NEW at, NEW then, UploaderEnds(f, at, then),
             then = "done" \/ (then = "undo" /\ at = {"meta"})
      PROVE  Ends
  BY <1>2 DEF UploaderEnds, TypeOK, CreatorsEnd, CancellersEnd
<1>3. ASSUME NEW at, "new" \notin at, NEW b \in Batches, CreatorEnds(b, at)
      PROVE  Ends
  <2>1. creator' = [creator EXCEPT ![b] = [creator[b] EXCEPT !.pc = "done"]] /\ creator[b].pc # "new"
        /\ UNCHANGED <<uploader, canceller, deleter>>
    BY <1>3 DEF CreatorEnds
  <2>2. [creator[b] EXCEPT !.pc = "done"].pc = "done"
    BY DEF TypeOK, Creator
  <2>3. CreatorsEnd
    BY <2>1, <2>2 DEF TypeOK, CreatorsEnd
  <2>4. QED BY <2>1, <2>3 DEF CancellersEnd
<1>4. ASSUME NEW at, "new" \notin at, NEW c \in Cancels, CancellerEnds(c, at)
      PROVE  Ends
  <2>1. canceller' = [canceller EXCEPT ![c] = [canceller[c] EXCEPT !.pc = "done"]] /\ canceller[c].pc # "new"
        /\ UNCHANGED <<uploader, creator, deleter>>
    BY <1>4 DEF CancellerEnds
  <2>2. /\ [canceller[c] EXCEPT !.pc = "done"].pc = "done"
        /\ [canceller[c] EXCEPT !.pc = "done"].batch = canceller[c].batch
        /\ [canceller[c] EXCEPT !.pc = "done"].copy = canceller[c].copy
    BY DEF TypeOK, Canceller
  <2>3. CancellersEnd
    BY <2>1, <2>2 DEF TypeOK, CancellersEnd
  <2>4. QED BY <2>1, <2>3 DEF CreatorsEnd
<1>5. ASSUME NEW at, NEW d \in Deletes, DeleterEnds(d, at)
      PROVE  Ends
  <2>1. deleter' = [deleter EXCEPT ![d] = [deleter[d] EXCEPT !.pc = "done"]]
        /\ UNCHANGED <<uploader, creator, canceller>>
    BY <1>5 DEF DeleterEnds
  <2>2. [deleter[d] EXCEPT !.pc = "done"].pc = "done"
    BY DEF TypeOK, Deleter
  <2>3. DeletersEnd
    BY <2>1, <2>2 DEF TypeOK
  <2>4. QED BY <2>1, <2>3 DEF CreatorsEnd, CancellersEnd
<1>6. Ends
  <2> HIDE DEF Ends
  <2>1. CASE HandlerFault
    BY <1>2, <1>3, <1>4, <1>5, <2>1 DEF HandlerFault
  <2>2. CASE HandlerDropped
    BY <1>2, <1>3, <1>4, <1>5, <2>2 DEF HandlerDropped
  <2>3. QED BY <2>1, <2>2
<1>7. CancellersKnowWhom'
  BY <1>1, <1>6 DEF CancellersKnowWhom, CancellersEnd
<1>8. QED BY <1>1, <1>6, <1>7

\* After a crash there is no worker, no token, no copy that anybody will write.
LEMMA CrashMoves ==
    ASSUME TypeOK, CancellersKnowWhom, NEW q \in Batches, Crash
    PROVE  /\ Stops(q) /\ recovery'.seen[q] = NoRecord
           /\ UNCHANGED <<rec, meta, blob, runs, answered, asked, removed>>
           /\ CreatorsEnd /\ CancellersEnd
           /\ CancellersKnowWhom'
<1>1. Stops(q) /\ recovery'.seen[q] = NoRecord
  BY DEF Crash, Stops, Jobs!StopAllJobs, BootRecovery
<1>2. UNCHANGED <<rec, meta, blob, runs, answered, asked, removed>>
  BY DEF Crash, durable, history
<1>3. CreatorsEnd
  <2> SUFFICES ASSUME NEW b \in Batches
               PROVE  creator'[b].pc = creator[b].pc \/ (creator[b].pc # "new" /\ creator'[b].pc = "done")
    BY DEF CreatorsEnd
  <2>1. [creator[b] EXCEPT !.pc = "done"].pc = "done"
    BY DEF TypeOK, Creator
  <2>2. QED BY <2>1 DEF Crash
<1>4. CancellersEnd
  <2> SUFFICES ASSUME NEW c \in Cancels
               PROVE  /\ canceller'[c].batch = canceller[c].batch
                      /\ canceller'[c].copy = canceller[c].copy
                      /\ canceller'[c].pc # canceller[c].pc =>
                            canceller[c].pc # "new" /\ canceller'[c].pc = "done"
    BY DEF CancellersEnd
  <2>1. /\ [canceller[c] EXCEPT !.pc = "done"].pc = "done"
        /\ [canceller[c] EXCEPT !.pc = "done"].batch = canceller[c].batch
        /\ [canceller[c] EXCEPT !.pc = "done"].copy = canceller[c].copy
    BY DEF TypeOK, Canceller
  <2>2. \/ canceller'[c] = canceller[c]
        \/ canceller[c].pc # "new" /\ canceller'[c] = [canceller[c] EXCEPT !.pc = "done"]
    BY DEF Crash
  <2>3. QED BY <2>1, <2>2
<1>5. CancellersKnowWhom'
  BY <1>2, <1>4 DEF CancellersKnowWhom, CancellersEnd
<1>6. QED BY <1>1, <1>2, <1>3, <1>4, <1>5

Untouched(q) ==
    /\ rec'[q] = rec[q] /\ runs'[q] = runs[q] /\ answered'[q] = answered[q] /\ JobKept(q)
    /\ creator'[q] = creator[q] /\ recovery'.seen[q] = recovery.seen[q]
    /\ UNCHANGED <<canceller, asked>>

\* A stutter, or a step that is for another batch or for a file.
LEMMA StepsElsewhere ==
    ASSUME TypeOK, NEW q \in Batches, [Next]_vars
    PROVE  \/ CreateStep(q) \/ WorkerStep(q) \/ WorkerFault(q) \/ RecoveryStep \/ RecoverFault
           \/ \E c \in Cancels : CancelStep(c)
           \/ HandlerFault \/ HandlerDropped \/ Crash
           \/ Untouched(q)
<1> USE DEF TypeOK, Jobs!JobTypeOK, Untouched, JobKept, handlers, durable, budgets, history
<1>1. CASE UNCHANGED vars
  BY <1>1 DEF vars
<1>2. ASSUME NEW b \in Batches \ {q}, CreateStep(b)  PROVE Untouched(q)
  BY <1>2 DEF CreateStep, CreateRead, CreatePut, CreateSpawn, Spawn,
              Jobs!EnqueueJob, Jobs!RefuseJob, Jobs!jobVars
<1>3. ASSUME NEW b \in Batches \ {q}, WorkerStep(b)  PROVE Untouched(q)
  <2>1. UNCHANGED <<creator, canceller, recovery, asked>>
    BY <1>3, WorkerMoves
  <2>2. /\ rec'[q] = rec[q] /\ worker'[q] = worker[q] /\ token'[q] = token[q] /\ job'[q] = job[q]
        /\ answered'[q] = answered[q] /\ runs'[q] = runs[q]
    BY <1>3 DEF WorkerStep, SetWorker, BeginRun, LoadMeta, LoadBlob, PutInProgress, StartItem, FinishItem,
                CancelItem, Collect, PutFinalizing, WriteBlob, WriteMeta, PutFinal, Jobs!StartJob, Jobs!FinishJob
  <2>3. QED BY <2>1, <2>2
<1>4. ASSUME NEW b \in Batches \ {q}, WorkerFault(b)  PROVE Untouched(q)
  BY <1>4 DEF WorkerFault, SetWorker, Jobs!FinishJob
<1>5. ASSUME (\E f \in InFiles : UploadStep(f)) \/ (\E d \in Deletes : DeleteStep(d))
      PROVE  Untouched(q)
  BY <1>5, FileHandlersMove
<1>6. QED
  <2> HIDE DEF Untouched
  <2>1. CASE UNCHANGED vars
    BY <1>1, <2>1
  <2>2. CASE HandlerStep
    BY <1>2, <1>5, <2>2 DEF HandlerStep, UploadStep, CreateStep, CancelStep, DeleteStep
  <2>3. CASE \E b \in Batches : WorkerStep(b)
    BY <1>3, <2>3
  <2>4. CASE Trouble
    BY <1>4, <2>4 DEF Trouble
  <2>5. QED BY <2>1, <2>2, <2>3, <2>4 DEF Next

-----------------------------------------------------------------------------
(* The files *)

\* Every object has its content exactly when no download finds it missing.
LEMMA ContentOfObjects == FilesHaveContent <=> meta \subseteq blob
BY DEF FilesHaveContent, Content

\* What a step of the worker of b does to the files.
LEMMA WorkerFiles ==
    ASSUME IInv, NEW b \in Batches, WorkerStep(b)
    PROVE  /\ UNCHANGED <<uploader, deleter, removed>>
           /\ \/ UNCHANGED <<meta, blob>>
              \/ /\ worker[b].pc \in Writing /\ FileOf(b) \in OutFiles /\ FileOf(b) \notin Known
                 /\ \/ meta' = meta /\ blob' = blob \cup {FileOf(b)}
                    \/ meta' = meta \cup {FileOf(b)} /\ blob' = blob /\ FileOf(b) \in blob
<1>1. TypeOK /\ FilesOfRun(b)
  BY DEF IInv, FilesOfRuns
<1>2. WorkerMove(b) /\ UNCHANGED <<uploader, deleter, removed>>
  BY <1>1, WorkerMoves
<1>3. worker[b].pc \in Writing => FileOf(b) \in OutFiles /\ FileOf(b) \notin Known
  BY <1>1, FileTypes DEF FilesOfRun
<1>4. worker[b].pc = "write_meta" => FileOf(b) \in blob
  BY <1>1 DEF FilesOfRun
<1>5. QED BY ONLY <1>2, <1>3, <1>4 DEF WorkerMove, StoresKept, FilesKept, Writing

\* Steps that are no upload, no delete and no step of a worker leave the files alone.
LEMMA OtherFiles ==
    ASSUME [Next]_vars
    PROVE  \/ \E f \in InFiles : UploadStep(f)
           \/ \E d \in Deletes : DeleteStep(d)
           \/ \E b \in Batches : WorkerStep(b)
           \/ /\ UNCHANGED <<meta, blob, removed>>
              /\ \/ UNCHANGED <<uploader, deleter>>
                 \/ HandlerFault \/ HandlerDropped \/ Crash
<1> DEFINE Kept == UNCHANGED <<meta, blob, removed, uploader, deleter>>
<1>1. CASE UNCHANGED vars
  BY <1>1 DEF vars, durable, handlers, history
<1>2. ASSUME NEW b \in Batches, CreateStep(b)  PROVE Kept
  BY <1>2 DEF CreateStep, CreateRead, CreatePut, CreateSpawn, durable, history
<1>3. ASSUME NEW c \in Cancels, CancelStep(c)  PROVE Kept
  BY <1>3 DEF CancelStep, CancelRead, CancelPut, CancelSignal, durable, history
<1>4. ASSUME RecoveryStep  PROVE Kept
  BY <1>4 DEF RecoveryStep, RecoverRead, RecoverSpawn, RecoverDone, durable, handlers, history
<1>5. ASSUME NEW b \in Batches, WorkerFault(b)  PROVE Kept
  BY <1>5 DEF WorkerFault, durable, handlers, history
<1>6. ASSUME RecoverFault  PROVE Kept
  BY <1>6 DEF RecoverFault, durable, handlers, history
<1>7. ASSUME HandlerFault \/ HandlerDropped \/ Crash  PROVE UNCHANGED <<meta, blob, removed>>
  BY <1>7 DEF HandlerFault, HandlerDropped, Crash, durable, history
<1>8. QED
  <2>1. CASE HandlerStep
    BY <1>2, <1>3, <2>1 DEF HandlerStep, UploadStep, CreateStep, CancelStep, DeleteStep
  <2>2. CASE Trouble
    BY <1>5, <1>6, <1>7, <2>2 DEF Trouble
  <2>3. QED BY <1>1, <1>4, <2>1, <2>2 DEF Next

\* What an upload does to the files.
LEMMA UploadMoves ==
    ASSUME TypeOK, NEW f \in InFiles, UploadStep(f)
    PROVE  /\ UNCHANGED <<removed, deleter>> /\ uploader[f] # "done"
           /\ \A g \in InFiles \ {f} : uploader'[g] = uploader[g]
           /\ \/ meta' = meta /\ blob' = blob \cup {f} /\ uploader'[f] = "meta"
              \/ uploader[f] = "meta" /\ meta' = meta \cup {f} /\ blob' = blob /\ uploader'[f] = "done"
              \/ meta' = meta /\ blob' = blob \ {f} /\ uploader'[f] = "done"
BY DEF UploadStep, UploadBlob, UploadMeta, UploadUndo, TypeOK, history

\* What a delete does to the files.
LEMMA DeleteMoves ==
    ASSUME TypeOK, NEW d \in Deletes, DeleteStep(d)
    PROVE  /\ UNCHANGED uploader
           /\ \A e \in Deletes \ {d} : deleter'[e] = deleter[e]
           /\ \/ UNCHANGED <<meta, blob, removed>> /\ deleter'[d].pc # "blob"
              \/ /\ blob' = blob /\ meta' = meta \ {deleter[d].file}
                 /\ removed' = removed \cup ({deleter[d].file} \cap meta)
                 /\ deleter'[d].pc = "blob" => deleter'[d].file = deleter[d].file /\ deleter[d].file \in meta
              \/ /\ deleter[d].pc = "blob" /\ UNCHANGED <<meta, removed>>
                 /\ blob' = blob \ {deleter[d].file} /\ deleter'[d].pc # "blob"
<1>d. deleter[d] \in Deleter
  BY DEF TypeOK
<1>e. \A pc \in {"blob", "done"} : /\ [deleter[d] EXCEPT !.pc = pc].pc = pc
                                   /\ [deleter[d] EXCEPT !.pc = pc].file = deleter[d].file
  BY <1>d DEF Deleter
<1> USE DEF TypeOK, durable, history
<1>1. ASSUME NEW f \in meta, DeleteCheck(d, f)
      PROVE  /\ UNCHANGED <<meta, blob, removed, uploader>> /\ deleter'[d].pc # "blob"
             /\ \A e \in Deletes \ {d} : deleter'[e] = deleter[e]
  BY <1>1 DEF DeleteCheck
<1>2. CASE DeleteMeta(d)
  <2>1. deleter' = [deleter EXCEPT ![d] =
                      [deleter[d] EXCEPT !.pc = IF deleter[d].file \in meta THEN "blob" ELSE "done"]]
    BY <1>2 DEF DeleteMeta
  <2>2. deleter'[d].pc = "blob" => deleter'[d].file = deleter[d].file /\ deleter[d].file \in meta
    BY <1>e, <2>1
  <2>3. QED BY <1>2, <2>1, <2>2 DEF DeleteMeta
<1>3. CASE DeleteBlob(d)
  <2>1. deleter' = [deleter EXCEPT ![d] = [deleter[d] EXCEPT !.pc = "done"]]
    BY <1>3 DEF DeleteBlob
  <2>2. deleter'[d].pc # "blob"
    BY <1>e, <2>1
  <2>3. QED BY <1>3, <2>1, <2>2 DEF DeleteBlob
<1>4. QED BY <1>1, <1>2, <1>3 DEF DeleteStep

\* No step leaves an object without content, whoever uploads, deletes or writes.
LEMMA FilesStep ==
    ASSUME IInv, [Next]_vars
    PROVE  FilesHaveContent' /\ DeletersComeSecond' /\ UploadsInOrder'
<1>i. TypeOK /\ CancellersKnowWhom /\ meta \subseteq blob
  BY ContentOfObjects DEF IInv
<1>d. \A d \in Deletes : deleter[d].pc = "blob" => deleter[d].file \in removed \ meta
  BY DEF IInv, DeletersComeSecond
<1>u. \A f \in InFiles : /\ uploader[f] # "done" => f \notin Known
                         /\ uploader[f] = "meta" => f \in blob
  BY DEF IInv, UploadsInOrder
<1>c. FilesHaveContent' <=> meta' \subseteq blob'
  BY DEF FilesHaveContent, Content
<1> DEFINE Goal == meta' \subseteq blob' /\ DeletersComeSecond' /\ UploadsInOrder'
<1> SUFFICES Goal
  BY <1>c
<1>1. ASSUME NEW f \in InFiles, UploadStep(f)  PROVE Goal
  BY <1>1, <1>i, <1>d, <1>u, UploadMoves DEF DeletersComeSecond, UploadsInOrder, Known
<1>2. ASSUME NEW d \in Deletes, DeleteStep(d)  PROVE Goal
  <2>1. meta' \subseteq blob' /\ DeletersComeSecond'
    BY <1>2, <1>i, <1>d, DeleteMoves DEF DeletersComeSecond
  <2>2. UploadsInOrder'
    BY <1>2, <1>i, <1>d, <1>u, DeleteMoves DEF UploadsInOrder, Known
  <2>3. QED BY <2>1, <2>2
<1>3. ASSUME NEW b \in Batches, WorkerStep(b)  PROVE Goal
  <2>1. \A f \in InFiles : f # FileOf(b) \/ FileOf(b) \notin OutFiles
    BY IdsAssumption
  <2>2. QED
    BY <1>3, <1>i, <1>d, <1>u, <2>1, WorkerFiles DEF DeletersComeSecond, UploadsInOrder, Known
<1>4. ASSUME UNCHANGED <<meta, blob, removed, uploader, deleter>>  PROVE Goal
  BY <1>4, <1>i, <1>d, <1>u DEF DeletersComeSecond, UploadsInOrder, Known
<1>5. ASSUME HandlerFault \/ HandlerDropped  PROVE Goal
  BY <1>5, <1>i, <1>d, <1>u, HandlerMoves DEF DeletersComeSecond, UploadsInOrder, Known
<1>6. ASSUME Crash  PROVE Goal
  <2>1. UNCHANGED <<meta, blob, removed>>
    BY <1>6 DEF Crash, durable, history
  <2>2. \A f \in InFiles : uploader'[f] \in {"new", "done"} /\ (uploader'[f] # "done" => uploader[f] # "done")
    BY <1>6 DEF Crash
  <2>3. ASSUME NEW d \in Deletes  PROVE deleter'[d].pc # "blob"
    <3>1. [deleter[d] EXCEPT !.pc = "done"].pc = "done"
      BY <1>i DEF TypeOK, Deleter
    <3>2. QED BY <1>6, <3>1 DEF Crash
  <2>4. QED BY <1>i, <1>u, <2>1, <2>2, <2>3 DEF DeletersComeSecond, UploadsInOrder, Known
<1>7. QED
  <2> HIDE DEF Goal
  <2>1. QED BY <1>1, <1>2, <1>3, <1>4, <1>5, <1>6, OtherFiles

\* What a step may do to the files of the runs of q when it is not a step of
\* its worker: nothing that is known gets lost, and nothing new gets known.
KeepsFiles(q) ==
    \A f \in OutFiles : f[1] = q => /\ f \in Known' <=> f \in Known
                                    /\ f \in blob /\ f \notin Known => f \in blob'

\* Only the worker of q adds to the files of q, and no file is ever forgotten.
LEMMA FilesKnown ==
    ASSUME IInv, NEW q \in Batches, [Next]_vars
    PROVE  Known \subseteq Known' /\ (WorkerStep(q) \/ KeepsFiles(q))
<1>i. TypeOK
  BY DEF IInv
<1>d. \A d \in Deletes : deleter[d].pc = "blob" => deleter[d].file \in removed \ meta
  BY DEF IInv, DeletersComeSecond
<1>1. ASSUME NEW f \in InFiles, UploadStep(f)  PROVE Known \subseteq Known' /\ KeepsFiles(q)
  <2>1. f \notin OutFiles
    BY IdsAssumption
  <2>2. QED BY <1>1, <1>i, <2>1, UploadMoves DEF KeepsFiles, Known
<1>2. ASSUME NEW d \in Deletes, DeleteStep(d)  PROVE Known \subseteq Known' /\ KeepsFiles(q)
  BY <1>2, <1>i, <1>d, DeleteMoves DEF KeepsFiles, Known
<1>3. ASSUME NEW b \in Batches, WorkerStep(b)  PROVE Known \subseteq Known' /\ (b # q => KeepsFiles(q))
  <2>1. FileOf(b)[1] = b
    BY DEF FileOf
  <2>2. QED BY <1>3, <2>1, WorkerFiles DEF KeepsFiles, Known
<1>4. ASSUME UNCHANGED <<meta, blob, removed>>  PROVE Known \subseteq Known' /\ KeepsFiles(q)
  BY <1>4 DEF KeepsFiles, Known
<1>5. QED BY <1>1, <1>2, <1>3, <1>4, OtherFiles

-----------------------------------------------------------------------------
(* The invariant, part by part *)

\* Cancels know their batch after every step.
LEMMA HandlersStep ==
    ASSUME IInv, [Next]_vars
    PROVE  CancellersKnowWhom'
<1>i. TypeOK /\ CancellersKnowWhom
  BY DEF IInv
<1>1. CASE Batches = {}
  <2>1. \A c \in Cancels : canceller[c].pc = "new"
    BY <1>1, <1>i DEF CancellersKnowWhom
  <2>2. \A c \in Cancels : ~CancelStep(c)
    BY <1>1, <2>1 DEF CancelStep, CancelPut, CancelSignal
  <2>3. CASE HandlerStep
    BY <1>i, <1>1, <2>2, <2>3, FileHandlersMove
       DEF HandlerStep, CancelStep, UploadStep, DeleteStep, CancellersKnowWhom
  <2>4. CASE HandlerFault \/ HandlerDropped
    BY <1>i, <2>4, HandlerMoves
  <2>5. CASE Crash
    BY <2>1, <2>5 DEF Crash, CancellersKnowWhom
  <2>6. CASE RecoveryStep \/ RecoverFault \/ UNCHANGED vars
    BY <1>1, <1>i, <2>1, <2>6
       DEF RecoveryStep, RecoverDone, RecoverFault, vars, handlers, CancellersKnowWhom
  <2>7. QED BY <1>1, <2>3, <2>4, <2>5, <2>6 DEF Next, Trouble
<1>2. ASSUME NEW q \in Batches  PROVE CancellersKnowWhom'
  <2>1. ASSUME UNCHANGED <<canceller, asked>>  PROVE CancellersKnowWhom'
    BY <2>1, <1>i DEF CancellersKnowWhom
  <2>2. CASE CreateStep(q) \/ WorkerStep(q) \/ WorkerFault(q) \/ RecoveryStep \/ RecoverFault
    BY <1>i, <2>1, <2>2, CreateMoves, WorkerMoves, FaultMoves, RecoveryMoves
  <2>3. ASSUME NEW c \in Cancels, CancelStep(c)  PROVE CancellersKnowWhom'
    BY <1>i, <2>3, CancelMoves
  <2>4. CASE HandlerFault \/ HandlerDropped \/ Crash
    BY <1>i, <2>4, HandlerMoves, CrashMoves
  <2>5. QED BY <1>i, <2>1, <2>2, <2>3, <2>4, StepsElsewhere DEF Untouched
<1>3. QED BY <1>1, <1>2

\* Whatever happens, a cancellation comes from a client.
LEMMA CancelsStep ==
    ASSUME IInv, [Next]_vars
    PROVE  CancelsComeFromClients'
<1> SUFFICES ASSUME NEW q \in Batches  PROVE CancelComesFromClient(q)'
  BY DEF CancelsComeFromClients
<1>q. CancelComesFromClient(q)
  BY DEF IInv, CancelsComeFromClients
<1>i. TypeOK /\ CancellersKnowWhom
  BY DEF IInv
<1>n. ~SaysCancelled(NoRecord) /\ \A f : ~SaysCancelled(NewRecord(f))
  <2>1. NoRecord.status = "none" /\ NoRecord.cancel_requested = FALSE
    BY DEF NoRecord
  <2>2. \A f : NewRecord(f).status = "validating" /\ NewRecord(f).cancel_requested = FALSE
    BY DEF NewRecord, NoRecord
  <2>3. QED BY <2>1, <2>2 DEF SaysCancelled
<1>w. /\ NoWorker.snap = NoRecord /\ NoWorker.cur = NoRecord /\ NoWorker.outcome = "none"
      /\ \A i \in Items : NoWorker.item[i] = "pending"
  BY DEF NoWorker
<1>m. ASSUME NEW snapshot, Spawned(q, snapshot)
      PROVE  \/ worker'[q] = worker[q] /\ token'[q] = token[q]
             \/ /\ worker'[q].snap = snapshot /\ worker'[q].cur = NoRecord /\ worker'[q].outcome = "none"
                /\ \A i \in Items : worker'[q].item[i] = "pending"
                /\ token'[q] = "live"
  BY <1>m, SpawnedWorker DEF JobKept
<1>0. CASE Untouched(q)
  BY <1>0, <1>q DEF Untouched, JobKept, CancelComesFromClient
<1>1. CASE CreateStep(q)
  <2>1. CreateMove(q) /\ UNCHANGED <<recovery, asked>>
    BY <1>1, <1>i, CreateMoves
  <2>2. QED
    BY ONLY <2>1, <1>q, <1>n, <1>m DEF CreateMove, JobKept, CancelComesFromClient
<1>2. CASE WorkerStep(q)
  <2>1. /\ WorkerMove(q) /\ UNCHANGED <<recovery, asked>>
        /\ token'[q] = token[q] \/ token'[q] = "none"
    BY <1>2, <1>i, WorkerMoves DEF Stops
  <2>2. CASE q \in asked
    BY <2>1, <2>2 DEF CancelComesFromClient
  <2>3. CASE q \notin asked
    <3>1. worker[q].outcome # "cancelling"
      BY <1>i DEF TypeOK, Worker, Terminal
    <3>2. QED
      BY ONLY <2>1, <2>3, <1>q, <1>n, <1>w, <3>1
         DEF WorkerMove, Becomes, Copy, Writes, Fails, Stops, StoresKept, SaysCancelled, CancelComesFromClient
  <2>4. QED BY <2>2, <2>3
<1>3. ASSUME NEW c \in Cancels, CancelStep(c)  PROVE CancelComesFromClient(q)'
  <2>1. /\ q \in asked' \/ (rec'[q] = rec[q] /\ token'[q] = token[q])
        /\ asked \subseteq asked' /\ UNCHANGED <<worker, recovery>>
    BY <1>3, <1>i, CancelMoves
  <2>2. QED BY ONLY <2>1, <1>q DEF CancelComesFromClient
<1>5. CASE RecoveryStep \/ RecoverFault
  <2>1. /\ UNCHANGED <<rec, asked>>
        /\ \/ JobKept(q) /\ recovery'.seen[q] \in {recovery.seen[q], rec[q], NoRecord}
           \/ Spawned(q, recovery.seen[q]) /\ recovery'.seen[q] = NoRecord
    BY <1>5, <1>i, RecoveryMoves
  <2>2. QED
    BY ONLY <2>1, <1>q, <1>n, <1>m DEF JobKept, CancelComesFromClient
<1>6. CASE WorkerFault(q)
  <2>1. /\ UNCHANGED <<rec, recovery, asked>>
        /\ \/ Fails(q) /\ token'[q] = token[q]
           \/ /\ Becomes(q, "put_final", worker[q].item, "failed", "none")
              /\ worker'[q].cur = worker[q].cur /\ token'[q] = token[q]
           \/ Stops(q)
    BY <1>6, <1>i, FaultMoves
  <2>2. QED
    BY ONLY <2>1, <1>q, <1>n, <1>w DEF Stops, Fails, Becomes, CancelComesFromClient
<1>7. CASE HandlerFault \/ HandlerDropped
  BY <1>7, <1>i, <1>q, HandlerMoves DEF CancelComesFromClient
<1>8. CASE Crash
  <2>1. Stops(q) /\ recovery'.seen[q] = NoRecord /\ UNCHANGED <<rec, asked>>
    BY <1>8, <1>i, CrashMoves
  <2>2. QED
    BY ONLY <2>1, <1>q, <1>n, <1>w DEF Stops, CancelComesFromClient
<1>9. QED
  BY <1>0, <1>1, <1>2, <1>3, <1>5, <1>6, <1>7, <1>8, <1>i, StepsElsewhere

\* Nobody comes to know of a batch whose record is not stored.
LEMMA UnknownStep ==
    ASSUME IInv, [Next]_vars
    PROVE  UnknownUntilStored'
<1> DEFINE Early(b) == creator[b].pc \in {"new", "put"} =>
        /\ rec[b].status = "none" /\ recovery.seen[b].status = "none" /\ worker[b].pc = "none"
        /\ \A c \in Cancels : canceller[c].pc # "new" => canceller[c].batch # b
<1> SUFFICES ASSUME NEW q \in Batches  PROVE Early(q)'
  BY DEF UnknownUntilStored
<1>q. Early(q)
  BY DEF IInv, UnknownUntilStored
<1>i. TypeOK /\ CancellersKnowWhom
  BY DEF IInv
<1>n. NoRecord.status = "none" /\ NoWorker.pc = "none" /\ "none" \notin Active
  BY DEF NoRecord, NoWorker, Active
<1> HIDE DEF Early
<1>s. ASSUME creator'[q].pc = creator[q].pc \/ creator'[q].pc = "done",
             rec'[q] = rec[q], recovery'.seen[q] \in {recovery.seen[q], rec[q], NoRecord},
             worker'[q] = worker[q] \/ worker'[q].pc = "none",
             \A c \in Cancels : canceller'[c].batch = q /\ canceller'[c].pc # "new" =>
                                   canceller[c].batch = q /\ canceller[c].pc # "new"
      PROVE  Early(q)'
  BY ONLY <1>s, <1>q, <1>n DEF Early
<1>0. CASE Untouched(q)
  BY <1>0, <1>s DEF Untouched, JobKept
<1>1. CASE CreateStep(q)
  <2>1. CreateMove(q) /\ UNCHANGED <<canceller, recovery>>
    BY <1>1, <1>i, CreateMoves
  <2>2. QED BY ONLY <2>1, <1>q, <1>n DEF CreateMove, JobKept, Early
<1>2. CASE WorkerStep(q)
  <2>1. WorkerMove(q) /\ UNCHANGED creator
    BY <1>2, <1>i, WorkerMoves
  <2>2. QED BY ONLY <2>1, <1>q DEF WorkerMove, Early
<1>3. ASSUME NEW c \in Cancels, CancelStep(c)  PROVE Early(q)'
  <2>1. /\ \/ rec'[q] = rec[q]
           \/ canceller[c].pc # "new" /\ canceller[c].batch = q
        /\ UNCHANGED <<creator, worker, recovery>>
        /\ \A e \in Cancels : canceller'[e].pc # "new" /\ canceller'[e].batch = q =>
                                 \/ canceller[e].pc # "new" /\ canceller[e].batch = q
                                 \/ rec[q].status \in Active
    BY <1>3, <1>i, CancelMoves
  <2>2. QED BY ONLY <2>1, <1>q, <1>n DEF Early
<1>5. CASE RecoveryStep \/ RecoverFault
  <2>1. /\ UNCHANGED <<rec, creator, canceller>>
        /\ \/ JobKept(q) /\ recovery'.seen[q] \in {recovery.seen[q], rec[q], NoRecord}
           \/ recovery.seen[q].status \in Active
    BY <1>5, <1>i, RecoveryMoves
  <2>2. QED BY ONLY <2>1, <1>q, <1>n DEF JobKept, Early
<1>6. CASE WorkerFault(q)
  <2>1. worker[q].pc # "none" /\ UNCHANGED creator
    BY <1>6, <1>i, FaultMoves
  <2>2. QED BY ONLY <2>1, <1>q DEF Early
<1>7. CASE HandlerFault \/ HandlerDropped
  <2>1. /\ UNCHANGED <<rec, worker, recovery>> /\ CreatorsEnd /\ CancellersEnd
    BY <1>7, <1>i, HandlerMoves
  <2>2. QED BY <2>1, <1>s DEF CreatorsEnd, CancellersEnd
<1>8. CASE Crash
  <2>1. /\ worker'[q] = NoWorker /\ rec'[q] = rec[q] /\ recovery'.seen[q] = NoRecord
        /\ CreatorsEnd /\ CancellersEnd
    BY <1>8, <1>i, CrashMoves DEF Stops
  <2>2. QED BY <2>1, <1>s, <1>n DEF CreatorsEnd, CancellersEnd
<1>9. QED
  BY <1>0, <1>1, <1>2, <1>3, <1>5, <1>6, <1>7, <1>8, <1>i, StepsElsewhere

\* A copy that is written back, or taken, names no file that nobody knows.
LEMMA NamedStep ==
    ASSUME IInv, [Next]_vars
    PROVE  NamedFilesExist'
<1> DEFINE Named(record) == record.output \in Known' \cup {None} /\ record.errors \in Known' \cup {None}
           AllNamed(b) == /\ Named(rec'[b]) /\ Named(recovery'.seen[b])
                          /\ Named(worker'[b].snap) /\ Named(worker'[b].cur)
<1>i. TypeOK /\ CancellersKnowWhom
  BY DEF IInv
<1>k. ASSUME NEW record, NamesKnown(record), NEW q \in Batches  PROVE Named(record)
  BY <1>k, FilesKnown DEF NamesKnown
<1>r. ASSUME NEW q \in Batches
      PROVE  /\ Named(rec[q]) /\ Named(recovery.seen[q]) /\ Named(worker[q].snap) /\ Named(worker[q].cur)
             /\ \A c \in Cancels : Named(canceller[c].copy)
  BY <1>k DEF IInv, NamedFilesExist
<1>n. NoRecord.output = None /\ NoRecord.errors = None
      /\ \A f : NewRecord(f).output = None /\ NewRecord(f).errors = None
  BY DEF NoRecord, NewRecord
<1>w. NoWorker.snap = NoRecord /\ NoWorker.cur = NoRecord
  BY DEF NoWorker
<1>1. ASSUME NEW q \in Batches  PROVE AllNamed(q)
  <2>q. /\ Named(rec[q]) /\ Named(recovery.seen[q]) /\ Named(worker[q].snap) /\ Named(worker[q].cur)
        /\ \A c \in Cancels : Named(canceller[c].copy)
    BY <1>r
  <2>n. Named(NoRecord) /\ \A f : Named(NewRecord(f))
    BY <1>n
  <2>m. ASSUME NEW snapshot, Named(snapshot), Spawned(q, snapshot)
        PROVE  Named(worker'[q].snap) /\ Named(worker'[q].cur)
    BY <2>m, <2>q, <2>n, SpawnedWorker DEF JobKept
  <2> HIDE DEF Named
  <2>0. CASE Untouched(q)
    BY <2>0, <2>q DEF Untouched, JobKept
  <2>1. CASE CreateStep(q)
    <3>1. CreateMove(q) /\ UNCHANGED recovery
      BY <2>1, <1>i, CreateMoves
    <3>2. QED BY ONLY <3>1, <2>q, <2>n, <2>m DEF CreateMove, JobKept
  <2>2. CASE WorkerStep(q)
    <3>1. WorkerMove(q) /\ UNCHANGED recovery
      BY <2>2, <1>i, WorkerMoves
    <3>2. worker[q].pc = "write_meta" /\ meta' = meta \cup {FileOf(q)} => FileOf(q) \in Known'
      BY DEF Known
    <3>3. QED
      BY ONLY <3>1, <3>2, <2>q, <2>n, <1>w
         DEF WorkerMove, Becomes, Copy, Writes, Fails, Stops, StoresKept, Named
  <2>3. ASSUME NEW c \in Cancels, CancelStep(c)  PROVE AllNamed(q)
    <3>1. /\ \/ rec'[q] = rec[q]
             \/ /\ rec'[q].output = canceller[c].copy.output
                /\ rec'[q].errors = canceller[c].copy.errors
          /\ UNCHANGED <<worker, recovery>>
      BY <2>3, <1>i, CancelMoves
    <3>2. QED BY ONLY <3>1, <2>q DEF Named
  <2>4. CASE RecoveryStep \/ RecoverFault
    <3>1. /\ rec' = rec
          /\ \/ JobKept(q) /\ recovery'.seen[q] \in {recovery.seen[q], rec[q], NoRecord}
             \/ Spawned(q, recovery.seen[q]) /\ recovery'.seen[q] = NoRecord
      BY <2>4, <1>i, RecoveryMoves
    <3>2. QED BY ONLY <3>1, <2>q, <2>n, <2>m DEF JobKept
  <2>5. CASE WorkerFault(q)
    <3>1. /\ UNCHANGED <<rec, recovery>>
          /\ Fails(q) \/ Stops(q)
             \/ (Becomes(q, "put_final", worker[q].item, "failed", "none") /\ worker'[q].cur = worker[q].cur)
      BY <2>5, <1>i, FaultMoves
    <3>2. QED BY ONLY <3>1, <2>q, <2>n, <1>w DEF Fails, Stops, Becomes
  <2>6. CASE HandlerFault \/ HandlerDropped
    BY <2>6, <1>i, <2>q, HandlerMoves
  <2>7. CASE Crash
    <3>1. worker'[q] = NoWorker /\ recovery'.seen[q] = NoRecord /\ rec' = rec
      BY <2>7, <1>i, CrashMoves DEF Stops
    <3>2. QED BY ONLY <3>1, <2>q, <2>n, <1>w
  <2>8. QED
    <3> HIDE DEF AllNamed
    <3>1. QED BY <2>0, <2>1, <2>2, <2>3, <2>4, <2>5, <2>6, <2>7, <1>i, StepsElsewhere
<1>2. ASSUME NEW c \in Cancels  PROVE Named(canceller'[c].copy)
  <2>1. ASSUME NEW q \in Batches  PROVE Named(canceller'[c].copy)
    <3>q. Named(canceller[c].copy) /\ \A b \in Batches : Named(rec[b])
      BY <1>r, <2>1
    <3> HIDE DEF Named
    <3>1. CASE UNCHANGED canceller
      BY <3>1, <3>q
    <3>2. CASE CreateStep(q) \/ WorkerStep(q) \/ WorkerFault(q) \/ RecoveryStep \/ RecoverFault
      BY <1>i, <3>1, <3>2, CreateMoves, WorkerMoves, FaultMoves, RecoveryMoves
    <3>3. ASSUME NEW d \in Cancels, CancelStep(d)  PROVE Named(canceller'[c].copy)
      <4>1. canceller'[c].copy = canceller[c].copy \/ \E b \in Batches : canceller'[c].copy = rec[b]
        BY <1>i, <3>3, CancelMoves
      <4>2. QED BY ONLY <4>1, <3>q
    <3>4. CASE HandlerFault \/ HandlerDropped \/ Crash
      BY <1>i, <3>4, <3>q, HandlerMoves, CrashMoves DEF CancellersEnd
    <3>5. QED BY <1>i, <3>1, <3>2, <3>3, <3>4, StepsElsewhere DEF Untouched
  <2>2. CASE Batches = {}
    <3>1. \A d \in Cancels : canceller[d].pc = "new" /\ NamesKnown(canceller[d].copy)
      BY <2>2 DEF IInv, CancellersKnowWhom, NamedFilesExist
    <3>2. \A d \in Cancels : ~CancelStep(d)
      BY <2>2, <3>1 DEF CancelStep, CancelPut, CancelSignal
    <3>3. canceller'[c].copy = canceller[c].copy
      <4>1. CASE HandlerStep
        BY <2>2, <3>2, <4>1, FileHandlersMove DEF HandlerStep, CancelStep, UploadStep, DeleteStep
      <4>2. CASE HandlerFault \/ HandlerDropped
        BY <1>i, <4>2, HandlerMoves DEF CancellersEnd
      <4>3. CASE Crash
        BY <3>1, <4>3 DEF Crash
      <4>4. CASE RecoveryStep \/ RecoverFault \/ UNCHANGED vars
        BY <2>2, <4>4 DEF RecoveryStep, RecoverDone, RecoverFault, vars, handlers
      <4>5. QED BY <2>2, <4>1, <4>2, <4>3, <4>4 DEF Next, Trouble
    <3>4. Known \subseteq Known'
      <4>1. ASSUME NEW f \in InFiles, UploadStep(f)  PROVE Known \subseteq Known'
        BY <4>1, <1>i, UploadMoves DEF Known
      <4>2. ASSUME NEW d \in Deletes, DeleteStep(d)  PROVE Known \subseteq Known'
        BY <4>2, <1>i, DeleteMoves DEF Known
      <4>3. QED BY <2>2, <4>1, <4>2, OtherFiles DEF Known
    <3>5. QED BY <3>1, <3>3, <3>4 DEF NamesKnown
  <2>3. QED BY <2>1, <2>2
<1>3. QED BY <1>1, <1>2 DEF NamedFilesExist, NamesKnown

\* No step leaves a worker without its job.
LEMMA JobsStep ==
    ASSUME IInv, NoJobNoWorker, [Next]_vars
    PROVE  NoJobNoWorker'
<1> SUFFICES ASSUME NEW q \in Batches  PROVE job'[q] = "idle" => worker'[q].pc = "none"
  BY DEF NoJobNoWorker
<1>q. job[q] = "idle" => worker[q].pc = "none"
  BY DEF NoJobNoWorker
<1>i. TypeOK /\ CancellersKnowWhom
  BY DEF IInv
<1>n. NoWorker.pc = "none"
  BY DEF NoWorker
<1>0. CASE Untouched(q)
  BY <1>0, <1>q DEF Untouched, JobKept
<1>1. CASE CreateStep(q)
  <2>1. CreateMove(q)
    BY <1>1, <1>i, CreateMoves
  <2>2. QED BY ONLY <2>1, <1>q DEF CreateMove, Spawned, JobKept
<1>2. CASE WorkerStep(q)
  <2>1. WorkerMove(q) /\ (job'[q] = "idle" => Stops(q) \/ job[q] = "idle")
    BY <1>2, <1>i, WorkerMoves
  <2>2. QED BY ONLY <2>1, <1>q, <1>n DEF WorkerMove, Stops
<1>3. ASSUME NEW c \in Cancels, CancelStep(c)  PROVE UNCHANGED <<job, worker>>
  BY <1>3, <1>i, CancelMoves
<1>4. CASE RecoveryStep \/ RecoverFault
  <2>1. JobKept(q) \/ Spawned(q, recovery.seen[q])
    BY <1>4, <1>i, RecoveryMoves
  <2>2. QED BY ONLY <2>1, <1>q DEF Spawned, JobKept
<1>5. CASE WorkerFault(q)
  <2>1. worker[q].pc \notin {"none", "spawned"} /\ (job'[q] = job[q] \/ Stops(q))
    BY <1>5, <1>i, FaultMoves
  <2>2. QED BY ONLY <2>1, <1>q, <1>n DEF Stops
<1>6. CASE HandlerFault \/ HandlerDropped
  BY <1>6, <1>i, <1>q, HandlerMoves
<1>7. CASE Crash
  BY <1>7, <1>i, <1>n, CrashMoves DEF Stops
<1>8. QED
  BY <1>0, <1>1, <1>2, <1>3, <1>4, <1>5, <1>6, <1>7, <1>q, <1>i, StepsElsewhere

\* The file of a worker is of its batch and its run.
LEMMA FileOfRun ==
    ASSUME NEW q
    PROVE  FileOf(q) = <<q, worker[q].kind, runs[q]>> /\ FileOf(q)' = <<q, worker'[q].kind, runs'[q]>>
BY DEF FileOf

\* Each run writes its files under ids that nobody knows yet.
LEMMA FilesOfRunStep ==
    ASSUME IInv, [Next]_vars
    PROVE  FilesOfRuns'
<1> SUFFICES ASSUME NEW q \in Batches  PROVE FilesOfRun(q)'
  BY DEF FilesOfRuns
<1>i. TypeOK /\ CancellersKnowWhom
  BY DEF IInv
<1>t. runs[q] \in Nat /\ worker[q] \in Worker
  BY <1>i DEF TypeOK
<1>q. FilesOfRun(q)
  BY DEF IInv, FilesOfRuns
<1>o. \A k \in Kinds : <<q, k, runs[q]>> \in OutFiles
  BY <1>t DEF OutFiles
<1>n. NoWorker.pc = "none"
  BY DEF NoWorker
<1>p. ASSUME KeepsFiles(q), runs'[q] = runs[q]
      PROVE  /\ \A f \in Known' : f \in OutFiles /\ f[1] = q => f[3] <= runs'[q]
             /\ \A k \in Kinds : /\ <<q, k, runs[q]>> \in Known' <=> <<q, k, runs[q]>> \in Known
                                 /\ <<q, k, runs[q]>> \in blob /\ <<q, k, runs[q]>> \notin Known =>
                                       <<q, k, runs[q]>> \in blob'
  BY <1>p, <1>q, <1>o DEF KeepsFiles, FilesOfRun
<1>k. "validation" \in Kinds /\ "errors" \in Kinds
  BY DEF Kinds
<1>s. ASSUME KeepsFiles(q), runs'[q] = runs[q], worker'[q] = worker[q] \/ worker'[q].pc \in {"none", "spawned"}
      PROVE  FilesOfRun(q)'
  <2>1. CASE worker'[q] = worker[q]
    <3>1. FileOf(q)' = FileOf(q) /\ FileOf(q) = <<q, worker[q].kind, runs[q]>>
      BY <1>s, <2>1, FileOfRun
    <3>2. /\ \A f \in Known' : f \in OutFiles /\ f[1] = q => f[3] <= runs'[q]
          /\ \A k \in Kinds : /\ <<q, k, runs'[q]>> \in Known' <=> <<q, k, runs[q]>> \in Known
                              /\ <<q, k, runs[q]>> \in blob /\ <<q, k, runs[q]>> \notin Known =>
                                    <<q, k, runs[q]>> \in blob'
      BY <1>s, <1>p
    <3> DEFINE mine == <<q, worker[q].kind, runs[q]>>
    <3>3. worker[q].pc \in Writing =>
             /\ worker[q].kind \in Kinds /\ mine \notin Known' /\ mine \notin Known
             /\ mine \in blob => mine \in blob'
      BY ONLY <1>q, <3>1, <3>2, <1>s DEF FilesOfRun
    <3> HIDE DEF mine
    <3>4. /\ FileOf(q)' = mine /\ FileOf(q) = mine
      BY <3>1 DEF mine
    <3>5. QED BY ONLY <1>s, <1>q, <1>k, <2>1, <3>2, <3>3, <3>4 DEF FilesOfRun, Writing
  <2>2. CASE worker'[q].pc \in {"none", "spawned"}
    BY ONLY <1>s, <1>p, <2>2 DEF FilesOfRun, Writing
  <2>3. QED BY <1>s, <2>1, <2>2
<1>f. ASSUME WorkerStep(q)  PROVE FilesOfRun(q)'
  <2>1. WorkerMove(q) /\ UNCHANGED removed
    BY <1>f, <1>i, WorkerMoves
  <2>2. FileOf(q) = <<q, worker[q].kind, runs[q]>> /\ FileOf(q)' = <<q, worker'[q].kind, runs'[q]>>
    BY FileOfRun
  <2>k. ASSUME UNCHANGED <<meta, blob>>  PROVE Known' = Known /\ blob' = blob
    BY <2>1, <2>k DEF Known
  <2>m. ASSUME meta' = meta \cup {FileOf(q)}  PROVE Known' = Known \cup {FileOf(q)}
    BY <2>1, <2>m DEF Known
  <2> DEFINE w == worker[q]
  <2>3. CASE w.pc = "spawned"
    <3>1. runs'[q] = runs[q] + 1 /\ UNCHANGED <<meta, blob>>
      BY <2>1, <2>3 DEF WorkerMove, FilesKept
    <3>2. Known' = Known
      BY <2>k, <3>1
    <3>3. \A f \in Known' : f \in OutFiles /\ f[1] = q => f[3] <= runs[q]
      BY <1>q, <3>2 DEF FilesOfRun
    <3>4. \A f \in OutFiles : f[3] \in Nat
      BY DEF OutFiles
    <3>5. \A f \in Known' : f \in OutFiles /\ f[1] = q => f[3] <= runs'[q] /\ f[3] # runs'[q]
      BY ONLY <3>1, <3>3, <3>4, <1>t
    <3>6. \A k \in Kinds : <<q, k, runs'[q]>> \notin Known'
      <4>1. \A k \in Kinds : <<q, k, runs'[q]>> \in OutFiles /\ <<q, k, runs'[q]>>[1] = q
                             /\ <<q, k, runs'[q]>>[3] = runs'[q]
        BY <1>t, <3>1 DEF OutFiles
      <4>2. QED BY ONLY <3>5, <4>1
    <3>7. \/ worker'[q].pc = "load_meta" \/ worker'[q].pc = "put_final"
          \/ worker'[q].pc = "write_blob" /\ worker'[q].kind \in {"output", "errors"}
      BY <2>1, <2>3 DEF WorkerMove, Writes, Becomes
    <3>8. QED BY ONLY <2>2, <3>5, <3>6, <3>7 DEF FilesOfRun, Writing, Kinds
  <2>4. CASE /\ w.pc \in {"load_meta", "load_blob", "put_in_progress", "items", "put_finalizing"}
    <3>1. runs'[q] = runs[q] /\ UNCHANGED <<meta, blob>>
      BY <2>1, <2>4 DEF WorkerMove, FilesKept, StoresKept
    <3>2. Known' = Known
      BY <2>k, <3>1
    <3>3. \/ worker'[q].pc \in {"load_blob", "put_in_progress", "items", "put_finalizing", "put_final"}
          \/ worker'[q].pc = "write_blob" /\ worker'[q].kind \in {"output", "errors"}
          \/ worker'[q].pc = "write_blob" /\ worker'[q].kind = "validation" /\ worker'[q].outcome = "failed"
      BY <2>1, <2>4 DEF WorkerMove, Writes, Becomes, Fails
    <3>4. \A k \in Kinds : <<q, k, runs[q]>> \notin Known
      BY <1>q, <2>4 DEF FilesOfRun
    <3>5. \A f \in Known : f \in OutFiles /\ f[1] = q => f[3] <= runs[q]
      BY <1>q DEF FilesOfRun
    <3>6. QED BY ONLY <2>2, <3>1, <3>2, <3>3, <3>4, <3>5 DEF FilesOfRun, Writing, Kinds
  <2>5. CASE w.pc = "write_blob"
    <3>1. /\ runs'[q] = runs[q] /\ meta' = meta /\ blob' = blob \cup {FileOf(q)}
          /\ worker'[q].pc = "write_meta" /\ worker'[q].kind = w.kind /\ worker'[q].outcome = w.outcome
      BY <2>1, <2>5 DEF WorkerMove, Becomes
    <3>2. Known' = Known
      BY <2>1, <3>1 DEF Known
    <3>3. QED BY ONLY <1>q, <2>2, <2>5, <3>1, <3>2 DEF FilesOfRun, Writing
  <2>6. CASE w.pc = "write_meta"
    <3>1. /\ runs'[q] = runs[q] /\ meta' = meta \cup {FileOf(q)} /\ blob' = blob
          /\ worker'[q].outcome = w.outcome
          /\ \/ w.kind = "output" /\ worker'[q].pc = "write_blob" /\ worker'[q].kind = "errors"
             \/ worker'[q].pc = "put_final"
      BY <2>1, <2>6 DEF WorkerMove, Becomes
    <3>2. Known' = Known \cup {FileOf(q)}
      BY <2>m, <3>1
    <3>3. /\ w.kind \in Kinds /\ (w.kind = "validation" => w.outcome = "failed")
          /\ w.outcome # "failed" => <<q, "validation", runs[q]>> \notin Known
          /\ w.kind = "output" => <<q, "errors", runs[q]>> \notin Known
          /\ \A f \in Known : f \in OutFiles /\ f[1] = q => f[3] <= runs[q]
      BY <1>q, <2>6 DEF FilesOfRun, Writing
    <3>4. \A f \in Known' : f \in OutFiles /\ f[1] = q => f[3] <= runs[q]
      BY ONLY <1>t, <2>2, <3>2, <3>3
    <3>5. /\ w.outcome # "failed" => <<q, "validation", runs[q]>> \notin Known'
          /\ w.kind = "output" => <<q, "errors", runs[q]>> \notin Known'
      BY ONLY <2>2, <3>2, <3>3
    <3>6. QED BY ONLY <2>2, <3>1, <3>3, <3>4, <3>5 DEF FilesOfRun, Writing, Kinds
  <2>7. CASE w.pc = "put_final"
    <3>1. runs'[q] = runs[q] /\ UNCHANGED <<meta, blob>> /\ worker'[q].pc = "none"
      BY <2>1, <2>7, <1>n DEF WorkerMove, FilesKept, Stops
    <3>2. Known' = Known
      BY <2>k, <3>1
    <3>3. QED BY ONLY <1>q, <3>1, <3>2 DEF FilesOfRun, Writing
  <2>8. QED BY <2>1, <2>3, <2>4, <2>5, <2>6, <2>7 DEF WorkerMove
<1>0. CASE KeepsFiles(q)
  <2>0. CASE Untouched(q)
    BY <1>0, <1>s, <2>0 DEF Untouched, JobKept
  <2>1. CASE CreateStep(q)
    <3>1. UNCHANGED runs /\ CreateMove(q)
      BY <2>1, <1>i, CreateMoves
    <3>2. worker'[q] = worker[q] \/ worker'[q].pc = "spawned"
      BY <3>1, SpawnedWorker DEF CreateMove, JobKept
    <3>3. QED BY <1>0, <1>s, <3>1, <3>2
  <2>2. ASSUME NEW c \in Cancels, CancelStep(c)  PROVE FilesOfRun(q)'
    BY <1>0, <1>s, <1>i, <2>2, CancelMoves
  <2>3. CASE RecoveryStep \/ RecoverFault
    <3>1. UNCHANGED runs /\ (JobKept(q) \/ Spawned(q, recovery.seen[q]))
      BY <2>3, <1>i, RecoveryMoves
    <3>2. worker'[q] = worker[q] \/ worker'[q].pc = "spawned"
      BY <3>1, SpawnedWorker DEF JobKept
    <3>3. QED BY <1>0, <1>s, <3>1, <3>2
  <2>4. CASE WorkerFault(q)
    <3>1. /\ UNCHANGED <<runs, meta, blob, removed>> /\ worker[q].pc \notin {"none", "spawned"}
          /\ \/ Fails(q) /\ worker[q].outcome # "failed"
             \/ Becomes(q, "put_final", worker[q].item, "failed", "none")
             \/ Stops(q)
      BY <2>4, <1>i, FaultMoves
    <3>2. Known' = Known /\ FileOf(q)' = <<q, worker'[q].kind, runs[q]>>
      BY <3>1, FileOfRun DEF Known
    <3>3. CASE Fails(q) /\ worker[q].outcome # "failed"
      <4>1. <<q, "validation", runs[q]>> \notin Known
        BY <1>q, <1>t, <1>k, <3>1, <3>3 DEF FilesOfRun, Writing, Worker, WorkerPcs
      <4>2. worker'[q].pc = "write_blob" /\ worker'[q].kind = "validation" /\ worker'[q].outcome = "failed"
        BY <3>3 DEF Fails, Becomes
      <4>3. QED BY ONLY <1>q, <1>k, <3>1, <3>2, <4>1, <4>2 DEF FilesOfRun, Writing
    <3>4. CASE Becomes(q, "put_final", worker[q].item, "failed", "none")
      BY ONLY <1>q, <3>1, <3>2, <3>4 DEF FilesOfRun, Writing, Becomes
    <3>5. CASE Stops(q)
      BY ONLY <1>q, <1>n, <3>1, <3>2, <3>5 DEF FilesOfRun, Writing, Stops
    <3>6. QED BY <3>1, <3>3, <3>4, <3>5
  <2>5. CASE HandlerFault \/ HandlerDropped
    BY <1>0, <1>s, <2>5, <1>i, HandlerMoves
  <2>6. CASE Crash
    BY <1>0, <1>s, <2>6, <1>i, <1>n, CrashMoves DEF Stops
  <2>7. QED BY <2>0, <2>1, <2>2, <2>3, <2>4, <2>5, <2>6, <1>f, <1>i, StepsElsewhere
<1>1. QED BY <1>0, <1>f, FilesKnown

\* A worker that reports a completed batch has the answers, and a file with them.
LEMMA AnswerStep ==
    ASSUME IInv, [Next]_vars
    PROVE  AnswersInStep'
<1> SUFFICES ASSUME NEW q \in Batches  PROVE AnswerInStep(q)'
  BY DEF AnswersInStep
<1>i. TypeOK /\ CancellersKnowWhom
  BY DEF IInv
<1>t. /\ worker[q] \in Worker /\ answered'[q] \subseteq Items /\ answered[q] \subseteq Items
  BY <1>i, TypeStep DEF TypeOK
<1>q. AnswerInStep(q)
  BY DEF IInv, AnswersInStep
<1>n. NoWorker.pc = "none" /\ \A i \in Items : NoWorker.item[i] = "pending"
  BY DEF NoWorker
<1>a. "validating" \in Active /\ "in_progress" \in Active /\ "finalizing" \in Active /\ "cancelling" \in Active
      /\ "completed" \notin Active
  BY DEF Active
<1>b. "completed" \in Terminal /\ "failed" \in Terminal /\ "cancelled" \in Terminal
  BY DEF Terminal
<1>r. \A f : NewRecord(f).status = "validating"
  BY DEF NewRecord, NoRecord
\* A worker that is left alone, is new, or is gone keeps its part.
<1>s. ASSUME rec'[q] = rec[q] \/ rec'[q].status # "completed", answered'[q] = answered[q],
             \/ worker'[q] = worker[q]
             \/ worker'[q] = NoWorker
             \/ /\ worker'[q].pc = "spawned" /\ worker'[q].snap.status \in Active
                /\ \A i \in Items : worker'[q].item[i] = "pending"
      PROVE  AnswerInStep(q)'
  BY ONLY <1>s, <1>q, <1>n DEF AnswerInStep, Writing
<1>0. CASE Untouched(q)
  BY <1>0, <1>s DEF Untouched, JobKept
<1>1. CASE CreateStep(q)
  <2>1. CreateMove(q) /\ UNCHANGED answered
    BY <1>1, <1>i, CreateMoves
  <2>2. /\ rec'[q] = rec[q] \/ rec'[q].status # "completed"
        /\ \/ worker'[q] = worker[q]
           \/ /\ worker'[q].pc = "spawned" /\ worker'[q].snap.status \in Active
              /\ \A i \in Items : worker'[q].item[i] = "pending"
    BY <2>1, <1>a, <1>r, SpawnedWorker DEF CreateMove, JobKept
  <2>3. QED BY <1>s, <2>1, <2>2
<1>2. CASE WorkerStep(q)
  <2>1. WorkerMove(q) /\ answered[q] \subseteq answered'[q]
    BY <1>2, <1>i, WorkerMoves
  <2>f. worker[q].pc \in Writing => FileOf(q) # None
    <3>1. worker[q].pc \in Writing => FileOf(q) \in OutFiles
      BY <1>2, WorkerFiles, <1>i, FileTypes DEF IInv, FilesOfRuns
    <3>2. QED BY <3>1, IdsAssumption
  <2>o. \A i \in Items : worker[q].item[i] \in {"ok", "error"} => i \in answered'[q]
    BY ONLY <1>q, <2>1 DEF AnswerInStep
  <2>c. rec[q].status = "completed" => answered'[q] = Items /\ (rec[q].output # None \/ rec[q].errors # None)
    BY ONLY <1>q, <1>t, <2>1 DEF AnswerInStep
  <2>e. \E i \in Items : TRUE
    BY ItemsAssumption
  <2> DEFINE w == worker[q]
  <2>2. CASE w.pc = "spawned"
    <3>1. /\ rec'[q] = rec[q] /\ worker'[q].snap = w.snap /\ worker'[q].item = w.item
          /\ worker'[q].cur.status = w.snap.status
          /\ \/ worker'[q].pc = "load_meta"
             \/ worker'[q].pc \in {"write_blob", "put_final"} /\ worker'[q].outcome = "cancelled"
      BY <2>1, <2>2 DEF WorkerMove, Writes, Becomes, Copy
    <3>2. QED BY ONLY <1>q, <1>b, <2>o, <2>c, <2>2, <3>1 DEF AnswerInStep, Writing
  <2>3. CASE w.pc \in {"load_meta", "load_blob", "put_in_progress"}
    <3>1. /\ rec'[q] = rec[q] \/ rec'[q] = w.cur
          /\ worker'[q].snap = w.snap /\ worker'[q].item = w.item
          /\ worker'[q].cur.status \in {w.cur.status, w.snap.status, "in_progress"}
          /\ \/ worker'[q].pc \in {"load_blob", "put_in_progress", "items"}
             \/ worker'[q].pc = "write_blob" /\ worker'[q].outcome = "failed"
      BY <2>1, <2>3 DEF WorkerMove, Fails, Becomes, Copy, StoresKept
    <3>2. QED BY ONLY <1>q, <1>a, <1>b, <2>o, <2>c, <2>3, <3>1 DEF AnswerInStep, Writing
  <2>4. CASE w.pc = "items"
    <3>1. /\ rec'[q] = rec[q] /\ worker'[q].snap = w.snap
          /\ worker'[q].cur.status \in {w.cur.status, "finalizing"}
          /\ \/ worker'[q].pc = "items"
             \/ worker'[q].pc = "put_finalizing" /\ \A i \in Items : worker'[q].item[i] \in {"ok", "error"}
             \/ worker'[q].pc \in {"write_blob", "put_final"} /\ worker'[q].outcome = "cancelled"
      BY <2>1, <2>4 DEF WorkerMove, Writes, Becomes, Copy, StoresKept
    <3>2. \A i \in Items : worker'[q].item[i] \in {"ok", "error"} => i \in answered'[q]
      BY <2>1, <2>4, <2>o DEF WorkerMove, Writes, Becomes
    <3>3. QED BY ONLY <1>q, <1>a, <1>b, <2>c, <2>4, <3>1, <3>2 DEF AnswerInStep, Writing
  <2>5. CASE w.pc = "put_finalizing"
    <3>1. /\ rec'[q] = w.cur /\ Writes(q, w.item, "completed") /\ worker'[q].cur.status = w.cur.status
          /\ \A i \in Items : w.item[i] \in {"ok", "error"}
      BY <2>1, <2>5, <1>q DEF WorkerMove, Copy, AnswerInStep
    <3>2. /\ worker'[q].snap = w.snap /\ worker'[q].item = w.item
          /\ worker'[q].pc = "write_blob" /\ worker'[q].outcome = "completed"
      BY ONLY <3>1, <2>e DEF Writes, Becomes
    <3>3. QED BY ONLY <1>q, <1>a, <1>b, <2>o, <2>5, <3>1, <3>2 DEF AnswerInStep, Writing
  <2>6. CASE w.pc = "write_blob"
    <3>1. /\ rec'[q] = rec[q] /\ Becomes(q, "write_meta", w.item, w.outcome, w.kind)
          /\ worker'[q].cur = w.cur
      BY <2>1, <2>6 DEF WorkerMove
    <3>2. QED BY ONLY <1>q, <2>o, <2>c, <2>6, <3>1 DEF AnswerInStep, Writing, Becomes
  <2>7. CASE w.pc = "write_meta"
    <3>1. /\ rec'[q] = rec[q] /\ worker'[q].snap = w.snap /\ worker'[q].item = w.item
          /\ worker'[q].outcome = w.outcome /\ worker'[q].pc \in {"write_blob", "put_final"}
          /\ worker'[q].cur.status = w.cur.status
          /\ worker'[q].cur.output = FileOf(q) \/ worker'[q].cur.errors = FileOf(q)
      BY <2>1, <2>7 DEF WorkerMove, Becomes, Copy
    <3>2. FileOf(q) # None
      BY <2>f, <2>7 DEF Writing
    <3>3. QED BY ONLY <1>q, <2>o, <2>c, <2>7, <3>1, <3>2 DEF AnswerInStep, Writing
  <2>8. CASE w.pc = "put_final"
    <3>1. /\ worker'[q] = NoWorker /\ rec'[q].status = w.outcome
          /\ rec'[q].output = w.cur.output /\ rec'[q].errors = w.cur.errors
      BY <2>1, <2>8 DEF WorkerMove, Stops
    <3>2. w.outcome = "completed" => answered'[q] = Items /\ (w.cur.output # None \/ w.cur.errors # None)
      BY ONLY <1>q, <1>t, <2>o, <2>8 DEF AnswerInStep
    <3>3. QED BY ONLY <1>n, <3>1, <3>2 DEF AnswerInStep, Writing
  <2>9. QED BY <2>1, <2>2, <2>3, <2>4, <2>5, <2>6, <2>7, <2>8 DEF WorkerMove
<1>3. ASSUME NEW c \in Cancels, CancelStep(c)  PROVE AnswerInStep(q)'
  <2>1. (rec'[q] = rec[q] \/ rec'[q].status = "cancelling") /\ UNCHANGED <<worker, answered>>
    BY <1>3, <1>i, CancelMoves
  <2>2. QED BY <1>s, <2>1
<1>4. CASE RecoveryStep \/ RecoverFault
  <2>1. /\ UNCHANGED <<rec, answered>>
        /\ \/ JobKept(q)
           \/ Spawned(q, recovery.seen[q]) /\ recovery.seen[q].status \in Active
    BY <1>4, <1>i, RecoveryMoves
  <2>2. \/ worker'[q] = worker[q]
        \/ /\ worker'[q].pc = "spawned" /\ worker'[q].snap.status \in Active
           /\ \A i \in Items : worker'[q].item[i] = "pending"
    BY <2>1, SpawnedWorker DEF JobKept
  <2>3. QED BY <1>s, <2>1, <2>2
<1>5. CASE WorkerFault(q)
  <2>1. /\ UNCHANGED <<rec, answered>> /\ worker[q].pc \notin {"none", "spawned"}
        /\ \/ Fails(q)
           \/ /\ Becomes(q, "put_final", worker[q].item, "failed", "none")
              /\ worker'[q].cur = worker[q].cur
           \/ Stops(q)
    BY <1>5, <1>i, FaultMoves
  <2>2. CASE Stops(q)
    BY <1>s, <2>1, <2>2 DEF Stops
  <2>3. CASE Fails(q)
    BY ONLY <1>q, <1>b, <2>1, <2>3 DEF AnswerInStep, Writing, Fails, Becomes
  <2>4. CASE /\ Becomes(q, "put_final", worker[q].item, "failed", "none")
             /\ worker'[q].cur = worker[q].cur
    BY ONLY <1>q, <1>b, <2>1, <2>4 DEF AnswerInStep, Writing, Becomes
  <2>5. QED BY <2>1, <2>2, <2>3, <2>4
<1>6. CASE HandlerFault \/ HandlerDropped
  BY <1>s, <1>6, <1>i, HandlerMoves
<1>7. CASE Crash
  BY <1>s, <1>7, <1>i, CrashMoves DEF Stops
<1>8. QED
  BY <1>0, <1>1, <1>2, <1>3, <1>4, <1>5, <1>6, <1>7, <1>i, StepsElsewhere

\* Each part of the invariant holds at the start.
LEMMA InvInit == Init => IInv /\ NoJobNoWorker
<1> SUFFICES ASSUME Init  PROVE IInv /\ NoJobNoWorker
  OBVIOUS
<1>r. NoRecord.status = "none" /\ ~SaysCancelled(NoRecord) /\ NamesKnown(NoRecord)
  BY DEF NoRecord, SaysCancelled, NamesKnown
<1>w. /\ NoWorker.pc = "none" /\ NoWorker.snap = NoRecord /\ NoWorker.cur = NoRecord
      /\ NoWorker.outcome = "none" /\ \A i \in Items : NoWorker.item[i] = "pending"
  BY DEF NoWorker
<1>1. TypeOK
  <2>1. /\ [pc |-> "new", batch |-> None, copy |-> NoRecord] \in Canceller
        /\ [pc |-> "new", file |-> None] \in Deleter /\ [pc |-> "new", input |-> None] \in Creator
    BY ConstantTypes DEF Canceller, Deleter, Creator
  <2>2. QED
    BY <2>1, ConstantTypes, BoundsAssumption DEF Init, TypeOK, Jobs!JobTypeOK, Jobs!JobInit
<1>2. FilesHaveContent /\ UploadsInOrder /\ DeletersComeSecond
  BY DEF Init, FilesHaveContent, UploadsInOrder, DeletersComeSecond, Known
<1>3. CancelsComeFromClients
  BY <1>r, <1>w DEF Init, CancelsComeFromClients, CancelComesFromClient, BootRecovery, Jobs!JobInit
<1>4. CancellersKnowWhom
  BY DEF Init, CancellersKnowWhom
<1>5. UnknownUntilStored
  BY <1>r, <1>w DEF Init, UnknownUntilStored, BootRecovery
<1>6. NamedFilesExist
  BY <1>r, <1>w DEF Init, NamedFilesExist, BootRecovery
<1>7. FilesOfRuns
  BY <1>w DEF Init, FilesOfRuns, FilesOfRun, Known, Writing
<1>8. AnswersInStep /\ NoJobNoWorker
  BY <1>r, <1>w DEF Init, AnswersInStep, AnswerInStep, NoJobNoWorker, Writing
<1>9. QED BY <1>1, <1>2, <1>3, <1>4, <1>5, <1>6, <1>7, <1>8 DEF IInv

\* Every step keeps the invariant.
LEMMA InvStep ==
    ASSUME IInv, [Next]_vars
    PROVE  IInv'
BY TypeStep, FilesStep, HandlersStep, CancelsStep, UnknownStep, NamedStep, FilesOfRunStep, AnswerStep DEF IInv

\* The invariant holds in every reachable state.
LEMMA Invariance == Spec => []IInv
<1>1. IInv /\ [Next]_vars => IInv'
  BY InvStep
<1>2. QED BY InvInit, <1>1, PTL DEF Spec

-----------------------------------------------------------------------------
(* The theorems *)

\* Every variable of files and batches keeps its type.
THEOREM TypeCorrect == Spec => []TypeOK
<1>1. IInv => TypeOK
  BY DEF IInv
<1>2. QED BY Invariance, <1>1, PTL

\* No file object is ever without its content, and no batch names a file that
\* never was: through crashes, failing calls, disconnects and deletes, Consistent
\* of the runs.
THEOREM StoresConsistent == Spec => []Consistent
<1>1. ASSUME IInv  PROVE ReportedFilesExist
  <2> SUFFICES ASSUME NEW b \in Batches, NEW f \in Told(b)
               PROVE  Content(f) = "content" \/ f \in removed
    BY DEF ReportedFilesExist
  <2>1. f \in Known
    BY <1>1 DEF IInv, NamedFilesExist, NamesKnown, Told
  <2>2. f \in meta => f \in blob
    BY <1>1, ContentOfObjects DEF IInv
  <2>3. QED BY <2>1, <2>2 DEF Known, Content
<1>2. IInv => Consistent
  BY <1>1 DEF IInv, Consistent
<1>3. QED BY Invariance, <1>2, PTL

\* A completed batch was answered request by request and has a file to show for
\* it, and a cancelled one was cancelled by a client: OutcomeIsTrue of the runs.
THEOREM OutcomeAlwaysTrue == Spec => []OutcomeIsTrue
<1>1. IInv => CompletedWasAnswered
  BY DEF IInv, AnswersInStep, AnswerInStep, CompletedWasAnswered
<1>2. IInv => CancelledWasAsked
  BY DEF IInv, CancelsComeFromClients, CancelComesFromClient, SaysCancelled, CancelledWasAsked
<1>3. IInv => OutcomeIsTrue
  BY <1>1, <1>2 DEF OutcomeIsTrue
<1>4. QED BY Invariance, <1>3, PTL

\* No step changes the record of a settled batch, or unsettles it.
LEMMA SettledStep ==
    ASSUME IInv, NoJobNoWorker, NEW q \in Batches, Settled(q), [Next]_vars
    PROVE  rec'[q] = rec[q] /\ Settled(q)'
<1>i. TypeOK /\ CancellersKnowWhom
  BY DEF IInv
<1>w. worker[q].pc = "none" /\ job[q] = "idle" /\ creator[q].pc # "spawn"
  BY DEF NoJobNoWorker, Settled
<1>r. rec[q].status \in Terminal /\ recovery.seen[q].status \notin Active
  BY DEF Settled
<1>t. rec[q].status \notin Active /\ rec[q].status # "none"
  BY <1>r DEF Active, Terminal
<1>u. creator[q].pc = "done"
  <2>1. creator[q].pc \in {"new", "put", "spawn", "done"}
    BY <1>i DEF TypeOK, Creator
  <2>2. QED BY <1>w, <1>t, <2>1 DEF IInv, UnknownUntilStored
<1>n. NoRecord.status \notin Active
  BY DEF NoRecord, Active
<1>p. \A c \in Cancels : ~(canceller[c].pc = "put" /\ canceller[c].batch = q)
  BY DEF Settled
<1> DEFINE NoPut == \A c \in Cancels : ~(canceller'[c].pc = "put" /\ canceller'[c].batch = q)
           Kept == /\ rec'[q] = rec[q] /\ creator'[q].pc = "done" /\ job'[q] = "idle"
                   /\ recovery'.seen[q] \in {recovery.seen[q], rec[q], NoRecord}
<1>k. ASSUME Kept, NoPut
      PROVE  rec'[q] = rec[q] /\ Settled(q)'
  BY ONLY <1>k, <1>r, <1>t, <1>n DEF Settled
<1>0. ASSUME Untouched(q)  PROVE Kept /\ NoPut
  BY <1>0, <1>w, <1>u, <1>p DEF Untouched, JobKept
<1>1. ~CreateStep(q) /\ ~WorkerStep(q) /\ ~WorkerFault(q)
  <2>1. ~CreateStep(q)
    BY <1>u, <1>i, CreateMoves DEF CreateMove
  <2>2. ~WorkerStep(q)
    BY <1>w, <1>i, WorkerMoves DEF WorkerMove
  <2>3. ~WorkerFault(q)
    BY <1>w, <1>i, FaultMoves
  <2>4. QED BY <2>1, <2>2, <2>3
<1>2. ASSUME NEW c \in Cancels, CancelStep(c)  PROVE Kept /\ NoPut
  <2>1. rec'[q] = rec[q] /\ UNCHANGED <<job, creator, recovery>>
    BY <1>2, <1>i, <1>p, CancelMoves
  <2>2. NoPut
    BY <1>2, <1>i, <1>p, <1>t, CancelMoves
  <2>3. QED BY <2>1, <2>2, <1>w, <1>u
<1>3. ASSUME RecoveryStep \/ RecoverFault  PROVE Kept /\ NoPut
  <2>1. /\ UNCHANGED <<rec, creator, canceller>> /\ job'[q] = job[q]
        /\ recovery'.seen[q] \in {recovery.seen[q], rec[q], NoRecord}
    BY <1>3, <1>i, <1>r, RecoveryMoves DEF JobKept
  <2>2. QED BY <1>w, <1>u, <1>p, <2>1
<1>4. ASSUME HandlerFault \/ HandlerDropped  PROVE Kept /\ NoPut
  <2>1. UNCHANGED <<rec, job, recovery>> /\ CreatorsEnd /\ CancellersEnd
    BY <1>4, <1>i, HandlerMoves
  <2>2. QED BY <2>1, <1>w, <1>u, <1>p DEF CreatorsEnd, CancellersEnd
<1>5. ASSUME Crash  PROVE Kept /\ NoPut
  <2>1. /\ rec' = rec /\ job'[q] = "idle" /\ recovery'.seen[q] = NoRecord
        /\ CreatorsEnd /\ CancellersEnd
    BY <1>5, <1>i, CrashMoves DEF Stops
  <2>2. QED BY <2>1, <1>u, <1>p DEF CreatorsEnd, CancellersEnd
<1>6. QED
  <2> HIDE DEF Kept, NoPut
  <2>1. QED BY <1>k, <1>0, <1>1, <1>2, <1>3, <1>4, <1>5, <1>i, StepsElsewhere

\* A batch that is terminal, and of which nobody holds an older copy, never
\* changes again: through later calls, failures and restarts no result is lost.
THEOREM SettledStays == Spec => SettledIsFinal
<1>1. IInv /\ NoJobNoWorker /\ [Next]_vars => IInv' /\ NoJobNoWorker'
  BY InvStep, JobsStep
<1>2. IInv /\ NoJobNoWorker /\ [Next]_vars =>
         [\A b \in Batches : Settled(b) => rec'[b] = rec[b] /\ Settled(b)']_vars
  BY SettledStep
<1>3. QED BY InvInit, <1>1, <1>2, PTL DEF Spec, SettledIsFinal

=============================================================================
