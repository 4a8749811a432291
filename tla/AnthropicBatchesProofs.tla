------------------------ MODULE AnthropicBatchesProofs ------------------------
(***************************************************************************)
(* The safety properties of AnthropicBatches for every number of batches,  *)
(* requests, cancels, deletes, crashes, failing calls and disconnects.     *)
(*                                                                         *)
(* The record and the results of a batch are two objects that nobody       *)
(* writes together.  They agree because one worker at a time brings them   *)
(* forward, first the results and then the record, and because everything  *)
(* that could come between two of its runs leaves a trace: a failed call,  *)
(* a deletion, a run after the end.  The invariant says how far the stores *)
(* have come at each step of the worker, and what each copy of a record    *)
(* may say.                                                                *)
(***************************************************************************)
EXTENDS AnthropicBatches, FiniteSetTheorems, TLAPS

SaysCanceled(record) == record.status = "canceling" \/ record.cancel_requested

HasCanceled(lines) == \E line \in lines : line[2] = "canceled"

\* Whoever says that a batch or one of its requests is canceled has it from a
\* cancel.
CancelComesFromClient(b) ==
    \/ b \in asked
    \/ /\ ~SaysCanceled(rec[b]) /\ ~SaysCanceled(worker[b].snap)
       /\ ~SaysCanceled(recovery.seen[b]) /\ token[b] # "cancelled"
       /\ \A i \in Items : worker[b].item[i] # "canceled"
       /\ ~HasCanceled(worker[b].lines) /\ ~HasCanceled(results[b])

CancelsComeFromClients == \A b \in Batches : CancelComesFromClient(b)

\* A cancel acts on the batch it was called for, and its put asks.
CancellersKnowWhom ==
    \A c \in Cancels :
        /\ canceller[c].pc # "new" => canceller[c].batch \in Batches
        /\ canceller[c].pc = "signal" => canceller[c].batch \in asked

\* A delete acts on the batch it was called for, on the blobs when the record is
\* gone.
DeletersKnowWhom ==
    \A d \in Deletes :
        /\ deleter[d].pc # "new" => deleter[d].batch \in Batches
        /\ deleter[d].pc \in {"input", "results"} => deleter[d].batch \in removed

\* Before the record is stored nobody knows of the batch.
UnknownUntilStored ==
    \A b \in Batches : creator[b] \in {"new", "record"} =>
        /\ rec[b].status = "none" /\ recovery.seen[b].status = "none" /\ worker[b].pc = "none"
        /\ \A c \in Cancels : canceller[c].pc # "new" => canceller[c].batch # b

\* Lines with one line per request, or those of a failed batch.
OneLineEach(lines) ==
    \/ lines \in {{}, FailureLine}
    \/ {line[1] : line \in lines} = Items /\ Cardinality(lines) = Cardinality(Items)

LinesArePerRequest ==
    \A b \in Batches : OneLineEach(results[b]) /\ OneLineEach(worker[b].lines)

\* A store call has failed, a client has deleted the batch, or it was run again.
Disturbed(b) == faults > 0 \/ b \in removed \/ b \in rerun

\* How far an undisturbed worker has brought the results and the record.
WorkerInStep(b) ==
    LET w == worker[b] IN
    /\ ~w.failed
    /\ w.pc \in {"load", "items", "write", "put"} => rec[b].status # "ended"
    /\ w.pc \in {"write", "put"} => w.lines # {}
    /\ w.pc = "put" => results[b] = w.lines

StoresInStep(b) ==
    Disturbed(b) \/ /\ creator[b] # "new" => b \in input
                    /\ creator[b] # "undo"
                    /\ WorkerInStep(b)
                    /\ rec[b].status = "ended" =>
                          results[b] # {} /\ rec[b].counts = CountsOf(results[b])

WorkersInStep == \A b \in Batches : StoresInStep(b)

IInv ==
    /\ TypeOK
    /\ CancelsComeFromClients /\ CancellersKnowWhom /\ DeletersKnowWhom
    /\ UnknownUntilStored /\ LinesArePerRequest /\ WorkersInStep

\* A batch without a job has no worker.
NoJobNoWorker == \A b \in Batches : job[b] = "idle" => worker[b].pc = "none"

-----------------------------------------------------------------------------
(* Lines of the results *)

\* There are finitely many lines.
LEMMA LinesFinite ==
    ASSUME NEW lines \in SUBSET Lines
    PROVE  IsFiniteSet(lines)
<1>1. IsFiniteSet(Items \cup {Whole})
  BY ItemsAssumption, FS_AddElement
<1>2. IsFiniteSet({"succeeded", "errored", "canceled"})
  <2>1. IsFiniteSet({} \cup {"succeeded"})
    BY FS_EmptySet, FS_AddElement
  <2>2. IsFiniteSet(({} \cup {"succeeded"}) \cup {"errored"})
    BY <2>1, FS_AddElement
  <2>3. IsFiniteSet((({} \cup {"succeeded"}) \cup {"errored"}) \cup {"canceled"})
    BY <2>2, FS_AddElement
  <2>4. ((({} \cup {"succeeded"}) \cup {"errored"}) \cup {"canceled"}) = {"succeeded", "errored", "canceled"}
    OBVIOUS
  <2>5. QED BY <2>3, <2>4
<1>3. IsFiniteSet(Lines)
  BY <1>1, <1>2, FS_Product DEF Lines
<1>4. QED BY <1>3, FS_Subset

\* A tally is a number.
LEMMA TallyIsNat ==
    ASSUME NEW lines \in SUBSET Lines, NEW outcome
    PROVE  Tally(lines, outcome) \in Nat
<1>1. {line \in lines : line[2] = outcome} \in SUBSET Lines
  OBVIOUS
<1>2. IsFiniteSet({line \in lines : line[2] = outcome})
  BY <1>1, LinesFinite
<1>3. QED BY <1>2, FS_CardinalityType DEF Tally

\* Only canceled lines are tallied as canceled.
LEMMA TallyOfNone ==
    ASSUME NEW lines, ~HasCanceled(lines)
    PROVE  Tally(lines, "canceled") = 0
<1>1. {line \in lines : line[2] = "canceled"} = {}
  BY DEF HasCanceled
<1>2. QED BY <1>1, FS_EmptySet DEF Tally

\* The counts of lines are counts.
LEMMA CountsTyped ==
    ASSUME NEW lines \in SUBSET Lines
    PROVE  CountsOf(lines) \in Counts
<1>1. /\ Tally(lines, "succeeded") \in Nat /\ Tally(lines, "errored") \in Nat
      /\ Tally(lines, "canceled") \in Nat
  BY TallyIsNat
<1>2. QED BY <1>1 DEF CountsOf, Counts

\* One outcome per request makes one line per request.
LEMMA LinesOfOutcomes ==
    ASSUME NEW outcome, NEW lines, lines = {<<i, outcome[i]>> : i \in Items}
    PROVE  OneLineEach(lines) /\ lines # {}
<1> DEFINE f == [i \in Items |-> <<i, outcome[i]>>]
<1>1. f \in Bijection(Items, lines)
  BY DEF Bijection, Injection, Surjection, IsInjective
<1>2. Cardinality(lines) = Cardinality(Items)
  BY <1>1, ItemsAssumption, FS_Bijection DEF ExistsBijection
<1>3. {line[1] : line \in lines} = Items
  <2>1. \A line \in lines : line[1] \in Items
    OBVIOUS
  <2>2. \A i \in Items : <<i, outcome[i]>> \in lines /\ <<i, outcome[i]>>[1] = i
    OBVIOUS
  <2>3. QED BY ONLY <2>1, <2>2
<1>4. QED BY <1>2, <1>3, ItemsAssumption DEF OneLineEach

\* So does cancelling them all.
LEMMA LinesOfCancel == OneLineEach(AllCanceled) /\ AllCanceled # {}
<1> DEFINE outcome == [i \in Items |-> "canceled"]
<1>1. AllCanceled = {<<i, outcome[i]>> : i \in Items}
  BY DEF AllCanceled
<1> HIDE DEF outcome
<1>2. QED BY <1>1, LinesOfOutcomes

-----------------------------------------------------------------------------
(* Types *)

\* The constants of the model are of their types.
LEMMA ConstantTypes ==
    /\ NoRecord \in Record /\ NewRecord \in Record
    /\ NoWorker \in Worker /\ BootRecovery \in Recovery
    /\ AllCanceled \in SUBSET Lines /\ FailureLine \in SUBSET Lines
<1>1. Cardinality(Items) \in Nat
  BY ItemsAssumption, FS_CardinalityType
<1>2. NoCounts \in Counts /\ [NoCounts EXCEPT !.processing = Cardinality(Items)] \in Counts
  BY <1>1 DEF NoCounts, Counts
<1>3. NoRecord \in Record /\ NewRecord \in Record
  BY <1>2 DEF NoRecord, NewRecord, Record, Active
<1>4. NoWorker \in Worker /\ BootRecovery \in Recovery
  BY <1>3 DEF NoWorker, Worker, BootRecovery, Recovery, ItemStates
<1>5. AllCanceled \in SUBSET Lines /\ FailureLine \in SUBSET Lines
  BY DEF AllCanceled, FailureLine, Lines
<1>6. QED BY <1>3, <1>4, <1>5

\* Spawning a job keeps the types of what it changes.
LEMMA SpawnTypes ==
    ASSUME TypeOK, NEW b \in Batches, NEW snapshot \in Record, Spawn(b, snapshot)
    PROVE  Jobs!JobTypeOK' /\ worker' \in [Batches -> Worker]
<1> USE DEF TypeOK, Jobs!JobTypeOK
<1>1. [NoWorker EXCEPT !.pc = "spawned", !.snap = snapshot] \in Worker
  BY ConstantTypes DEF Worker
<1>2. CASE Jobs!EnqueueJob(b) /\ worker' = [worker EXCEPT ![b] =
                                              [NoWorker EXCEPT !.pc = "spawned", !.snap = snapshot]]
  BY <1>1, <1>2 DEF Jobs!EnqueueJob
<1>3. CASE Jobs!RefuseJob(b) /\ UNCHANGED worker
  BY <1>3 DEF Jobs!RefuseJob, Jobs!jobVars
<1>4. QED BY <1>2, <1>3 DEF Spawn

\* Creating a batch keeps the types.
LEMMA CreateTypes ==
    ASSUME TypeOK, NEW b \in Batches,
           CreateInput(b) \/ CreateRecord(b) \/ CreateUndo(b) \/ CreateSpawn(b)
    PROVE  TypeOK'
<1> USE DEF TypeOK, Jobs!JobTypeOK, handlers, durable, budgets, history
<1>1. CASE CreateInput(b)
  BY <1>1 DEF CreateInput
<1>2. CASE CreateRecord(b)
  BY <1>2, ConstantTypes DEF CreateRecord
<1>3. CASE CreateUndo(b)
  BY <1>3 DEF CreateUndo
<1>4. CASE CreateSpawn(b)
  BY <1>4, ConstantTypes, SpawnTypes DEF CreateSpawn
<1>5. QED BY <1>1, <1>2, <1>3, <1>4

\* A cancel keeps the types.
LEMMA CancelTypes ==
    ASSUME TypeOK, CancellersKnowWhom, NEW c \in Cancels,
           CancelPut(c) \/ CancelSignal(c) \/ \E b \in Batches : CancelRead(c, b)
    PROVE  TypeOK'
<1> USE DEF TypeOK, Jobs!JobTypeOK, handlers, durable, budgets, history
<1>c. canceller[c] \in Canceller /\ (canceller[c].pc # "new" => canceller[c].batch \in Batches)
  BY DEF CancellersKnowWhom
<1>1. ASSUME NEW b \in Batches, CancelRead(c, b)  PROVE TypeOK'
  <2>1. [pc |-> "put", batch |-> b, copy |-> rec[b]] \in Canceller
    BY DEF Canceller
  <2>2. QED BY <1>1, <2>1 DEF CancelRead
<1>2. CASE CancelPut(c)
  <2>1. [canceller[c].copy EXCEPT !.status = "canceling", !.cancel_requested = TRUE] \in Record
    BY <1>c DEF Canceller, Record, Active
  <2>2. [canceller[c] EXCEPT !.pc = "signal"] \in Canceller
    BY <1>c DEF Canceller
  <2>3. canceller' \in [Cancels -> Canceller]
    BY <1>2, <2>2 DEF CancelPut
  <2>4. QED BY <1>2, <1>c, <2>1, <2>3 DEF CancelPut
<1>3. CASE CancelSignal(c)
  <2>1. [canceller[c] EXCEPT !.pc = "done"] \in Canceller
    BY <1>c DEF Canceller
  <2>2. QED BY <1>3, <2>1 DEF CancelSignal, Jobs!CancelJob
<1>4. QED BY <1>1, <1>2, <1>3

\* A delete keeps the types.
LEMMA DeleteTypes ==
    ASSUME TypeOK, DeletersKnowWhom, NEW d \in Deletes,
           \/ DeleteRecord(d) \/ DeleteInput(d) \/ DeleteResults(d)
           \/ \E b \in Batches : DeleteRead(d, b)
    PROVE  TypeOK'
<1> USE DEF TypeOK, Jobs!JobTypeOK, handlers, durable, budgets, history
<1>d. deleter[d] \in Deleter /\ (deleter[d].pc # "new" => deleter[d].batch \in Batches)
  BY DEF DeletersKnowWhom
<1>1. ASSUME NEW b \in Batches, DeleteRead(d, b)  PROVE TypeOK'
  BY <1>1 DEF DeleteRead, Deleter
<1>2. CASE DeleteRecord(d)
  BY <1>2, <1>d, ConstantTypes DEF DeleteRecord, Deleter
<1>3. CASE DeleteInput(d)
  BY <1>3, <1>d DEF DeleteInput, Deleter
<1>4. CASE DeleteResults(d)
  BY <1>4, <1>d DEF DeleteResults, Deleter
<1>5. QED BY <1>1, <1>2, <1>3, <1>4

\* A worker that has failed, or that ends, is of its type.
LEMMA WorkerValues ==
    ASSUME NEW w \in Worker
    PROVE  /\ Fail(w) \in Worker
           /\ \A lines \in SUBSET Lines : Finish(w, lines) \in Worker
           /\ \A pc \in {"load", "items", "write", "put"} : [w EXCEPT !.pc = pc] \in Worker
           /\ \A i \in Items, s \in ItemStates : [w EXCEPT !.item[i] = s] \in Worker
           /\ EndedRecord(w) \in Record
<1>1. Fail(w) \in Worker
  BY ConstantTypes DEF Fail, Worker
<1>2. \A lines \in SUBSET Lines : Finish(w, lines) \in Worker
  BY DEF Finish, Worker
<1>3. \A pc \in {"load", "items", "write", "put"} : [w EXCEPT !.pc = pc] \in Worker
  BY DEF Worker
<1>4. \A i \in Items, s \in ItemStates : [w EXCEPT !.item[i] = s] \in Worker
  BY DEF Worker
<1>5. EndedRecord(w) \in Record
  <2> DEFINE counts == IF w.failed
                       THEN [w.snap.counts EXCEPT !.processing = 0, !.errored = IF @ = 0 THEN 1 ELSE @]
                       ELSE CountsOf(w.lines)
  <2>1. w.snap \in Record /\ w.snap.counts \in Counts /\ w.lines \in SUBSET Lines
    BY DEF Worker, Record
  <2>2. counts \in Counts
    <3>1. [w.snap.counts EXCEPT !.processing = 0, !.errored = IF @ = 0 THEN 1 ELSE @] \in Counts
      BY <2>1 DEF Counts
    <3>2. CountsOf(w.lines) \in Counts
      BY <2>1, CountsTyped
    <3>3. QED BY <3>1, <3>2
  <2>3. [w.snap EXCEPT !.status = "ended", !.counts = counts] \in Record
    <3> HIDE DEF counts
    <3>1. QED BY <2>1, <2>2 DEF Record
  <2>4. QED BY <2>3 DEF EndedRecord
<1>6. QED BY <1>1, <1>2, <1>3, <1>4, <1>5

\* A step of the worker keeps the types.
LEMMA WorkerTypes ==
    ASSUME TypeOK, NEW b \in Batches, WorkerStep(b)
    PROVE  TypeOK'
<1> USE DEF TypeOK, Jobs!JobTypeOK, handlers, durable, budgets, history
<1>w. worker[b] \in Worker
  OBVIOUS
<1> DEFINE w == worker[b]
<1>s. ASSUME NEW x \in Worker, SetWorker(b, x)  PROVE worker' \in [Batches -> Worker]
  BY <1>s DEF SetWorker
<1>1. CASE BeginRun(b)
  <2>1. worker' \in [Batches -> Worker]
    BY <1>1, <1>w, <1>s, WorkerValues DEF BeginRun
  <2>2. QED BY <1>1, <2>1 DEF BeginRun, Jobs!StartJob
<1>2. CASE LoadInput(b)
  <2>1. worker' \in [Batches -> Worker]
    BY <1>2, <1>w, <1>s, WorkerValues, ConstantTypes DEF LoadInput
  <2>2. QED BY <1>2, <2>1 DEF LoadInput
<1>3. ASSUME NEW i \in Items, StartItem(b, i) \/ FinishItem(b, i) \/ CancelItem(b, i)  PROVE TypeOK'
  <2>1. \E s \in ItemStates : SetWorker(b, [w EXCEPT !.item[i] = s])
    BY <1>3 DEF StartItem, FinishItem, CancelItem, ItemStates
  <2>2. worker' \in [Batches -> Worker]
    BY <1>w, <1>s, <2>1, WorkerValues
  <2>3. QED BY <1>3, <2>2 DEF StartItem, FinishItem, CancelItem
<1>4. CASE Collect(b)
  <2>1. {<<i, w.item[i]>> : i \in Items} \in SUBSET Lines
    <3>1. \A i \in Items : w.item[i] \in ItemStates
      BY <1>w DEF Worker
    <3>2. \A i \in Items : w.item[i] \notin {"pending", "inflight"}
      BY <1>4 DEF Collect, InState
    <3>3. \A i \in Items : w.item[i] \in {"succeeded", "errored", "canceled"}
      BY ONLY <3>1, <3>2 DEF ItemStates
    <3>4. QED BY ONLY <3>3 DEF Lines
  <2>2. worker' \in [Batches -> Worker]
    BY <1>4, <1>w, <1>s, <2>1, WorkerValues DEF Collect
  <2>3. QED BY <1>4, <2>2 DEF Collect
<1>5. CASE WriteResults(b)
  <2>1. worker' \in [Batches -> Worker]
    BY <1>5, <1>w, <1>s, WorkerValues DEF WriteResults
  <2>2. results' \in [Batches -> SUBSET Lines]
    BY <1>5, <1>w DEF WriteResults, Worker
  <2>3. QED BY <1>5, <2>1, <2>2 DEF WriteResults
<1>6. CASE PutEnded(b)
  <2>1. worker' \in [Batches -> Worker]
    BY <1>6, <1>s, ConstantTypes DEF PutEnded
  <2>2. rec' \in [Batches -> Record]
    BY <1>6, <1>w, WorkerValues DEF PutEnded
  <2>3. QED BY <1>6, <2>1, <2>2 DEF PutEnded, Jobs!FinishJob
<1>7. QED BY <1>1, <1>2, <1>3, <1>4, <1>5, <1>6 DEF WorkerStep

\* A step of the recovery keeps the types.
LEMMA RecoveryTypes ==
    ASSUME TypeOK, RecoveryStep
    PROVE  TypeOK'
<1> USE DEF TypeOK, handlers, durable, budgets, history
<1>b. BootRecovery \in Recovery /\ NoRecord \in Record
  BY ConstantTypes
<1>1. CASE RecoverNames
  BY <1>1 DEF RecoverNames, Recovery, Jobs!JobTypeOK
<1>2. ASSUME NEW b \in Batches, RecoverRead(b)  PROVE TypeOK'
  <2>0. rec[b] \in Record /\ recovery \in Recovery
    OBVIOUS
  <2>1. recovery' \in Recovery
    <3>1. CASE recovery' = [BootRecovery EXCEPT !.pc = "failed"]
      BY ONLY <1>b, <3>1 DEF Recovery
    <3>2. CASE recovery' = [recovery EXCEPT !.unread = @ \ {b}, !.seen[b] = rec[b],
                               !.pc = IF recovery.unread = {b} THEN "spawn" ELSE "read"]
      BY ONLY <2>0, <3>2 DEF Recovery
    <3>3. QED BY <1>2, <3>1, <3>2 DEF RecoverRead
  <2>2. QED BY <1>2, <2>1 DEF RecoverRead, Jobs!JobTypeOK
<1>3. ASSUME NEW b \in Batches, RecoverSpawn(b)  PROVE TypeOK'
  <2>1. recovery.seen[b] \in Record
    BY DEF Recovery
  <2>2. Jobs!JobTypeOK' /\ worker' \in [Batches -> Worker]
    BY <1>3, <2>1, SpawnTypes DEF RecoverSpawn
  <2>3. recovery' \in Recovery
    BY <1>3, <1>b DEF RecoverSpawn, Recovery
  <2>4. QED BY <1>3, <2>2, <2>3 DEF RecoverSpawn
<1>4. CASE RecoverDone
  <2>1. recovery' \in Recovery
    BY <1>4, <1>b DEF RecoverDone, Recovery
  <2>2. QED BY <1>4, <2>1 DEF RecoverDone, Jobs!JobTypeOK
<1>5. QED BY <1>1, <1>2, <1>3, <1>4 DEF RecoveryStep

\* A failure, a disconnect or a crash keeps the types.
LEMMA TroubleTypes ==
    ASSUME TypeOK, Trouble
    PROVE  TypeOK'
<1> USE BoundsAssumption DEF TypeOK, Jobs!JobTypeOK, handlers, durable, budgets, history
<1>1. ASSUME NEW b \in Batches, WorkerFault(b)  PROVE TypeOK'
  <2>1. worker[b] \in Worker
    OBVIOUS
  <2>2. Fail(worker[b]) \in Worker /\ [worker[b] EXCEPT !.pc = "put"] \in Worker
    BY <2>1, WorkerValues
  <2>3. worker' \in [Batches -> Worker]
    BY <1>1, <2>2, ConstantTypes DEF WorkerFault, SetWorker
  <2>4. Jobs!JobTypeOK'
    BY <1>1 DEF WorkerFault, Jobs!FinishJob
  <2>5. QED BY <1>1, <2>3, <2>4 DEF WorkerFault
<1>e. ASSUME NEW c \in Cancels  PROVE [canceller[c] EXCEPT !.pc = "done"] \in Canceller
  BY DEF Canceller
<1>d. ASSUME NEW d \in Deletes, NEW then \in {"results", "done"}
      PROVE  [deleter[d] EXCEPT !.pc = then] \in Deleter
  BY DEF Deleter
<1> DEFINE HandlersTyped ==
             /\ creator' \in [Batches -> {"new", "record", "undo", "spawn", "done"}]
             /\ canceller' \in [Cancels -> Canceller] /\ deleter' \in [Deletes -> Deleter]
<1>f. ASSUME NEW b \in Batches, NEW at, NEW then \in {"undo", "done"}, CreatorEnds(b, at, then)
      PROVE  HandlersTyped
  BY <1>f DEF CreatorEnds
<1>g. ASSUME NEW c \in Cancels, NEW at, CancellerEnds(c, at)  PROVE HandlersTyped
  BY <1>g, <1>e DEF CancellerEnds
<1>h. ASSUME NEW d \in Deletes, NEW at, NEW then \in {"results", "done"}, DeleterGoes(d, at, then)
      PROVE  HandlersTyped
  BY <1>h, <1>d DEF DeleterGoes
<1>2. CASE HandlerFault
  <2>1. HandlersTyped
    <3> HIDE DEF HandlersTyped
    <3>1. QED BY ONLY <1>2, <1>f, <1>g, <1>h DEF HandlerFault
  <2>2. QED BY <1>2, <2>1 DEF HandlerFault
<1>3. CASE HandlerDropped
  <2>1. HandlersTyped
    <3> HIDE DEF HandlersTyped
    <3>1. QED BY ONLY <1>3, <1>f, <1>g, <1>h DEF HandlerDropped
  <2>2. QED BY <1>3, <2>1 DEF HandlerDropped
<1>4. CASE Crash
  <2>1. HandlersTyped
    BY <1>4, <1>e, <1>d DEF Crash
  <2>2. recovery' \in Recovery /\ worker' \in [Batches -> Worker]
    BY <1>4, ConstantTypes DEF Crash
  <2>3. Jobs!JobTypeOK'
    BY <1>4 DEF Crash, Jobs!StopAllJobs
  <2>4. crashes' \in 0..MaxCrashes
    <3>1. crashes < MaxCrashes /\ crashes' = crashes + 1 /\ crashes \in 0..MaxCrashes
      BY <1>4 DEF Crash
    <3>2. QED BY ONLY <3>1, BoundsAssumption
  <2>5. UNCHANGED <<rec, input, results, faults, drops, asked, removed, rerun>>
    BY <1>4 DEF Crash
  <2>6. QED BY <2>1, <2>2, <2>3, <2>4, <2>5
<1>5. QED BY <1>1, <1>2, <1>3, <1>4 DEF Trouble

\* Every step keeps the types.
LEMMA TypeStep ==
    ASSUME TypeOK, CancellersKnowWhom, DeletersKnowWhom, [Next]_vars
    PROVE  TypeOK'
<1>1. CASE UNCHANGED vars
  BY <1>1 DEF vars, durable, handlers, budgets, history, TypeOK, Jobs!JobTypeOK
<1>2. QED
  BY <1>1, CreateTypes, CancelTypes, DeleteTypes, WorkerTypes, RecoveryTypes, TroubleTypes
  DEF Next, HandlerStep

-----------------------------------------------------------------------------
(* What a step does to one batch *)

\* A step that is not for batch q, or only in a handler.
Untouched(q) ==
    /\ rec'[q] = rec[q] /\ results'[q] = results[q] /\ worker'[q] = worker[q]
    /\ (q \in input => q \in input') /\ token'[q] = token[q] /\ job'[q] = job[q]
    /\ creator'[q] = creator[q] /\ recovery'.seen[q] = recovery.seen[q]

\* What a step makes of the worker of q, and of q in the stores.
Becomes(q, pc, snap, item, lines, failed) ==
    /\ worker'[q].pc = pc /\ worker'[q].snap = snap /\ worker'[q].item = item
    /\ worker'[q].lines = lines /\ worker'[q].failed = failed

Stores(q, record, lines) == rec'[q] = record /\ results'[q] = lines

Stops(q) == worker'[q] = NoWorker /\ token'[q] = "none" /\ job'[q] = "idle"

\* The steps of the worker of q, by what they do to q.
WorkerMove(q) ==
    LET w == worker[q] IN
    \/ /\ w.pc = "spawned" /\ Becomes(q, "load", w.snap, w.item, w.lines, w.failed)
       /\ Stores(q, rec[q], results[q]) /\ (rec[q].status = "ended" => q \in rerun')
    \/ /\ w.pc = "load" /\ Stores(q, rec[q], results[q]) /\ q \notin input
       /\ Becomes(q, "write", w.snap, w.item, FailureLine, TRUE)
    \/ /\ w.pc = "load" /\ Stores(q, rec[q], results[q])
       /\ w.snap.cancel_requested \/ token[q] = "cancelled"
       /\ Becomes(q, "write", w.snap, w.item, AllCanceled, w.failed)
    \/ /\ w.pc = "load" /\ Stores(q, rec[q], results[q])
       /\ Becomes(q, "items", w.snap, w.item, w.lines, w.failed)
    \/ /\ w.pc = "items" /\ Stores(q, rec[q], results[q])
       /\ Becomes(q, "items", w.snap, worker'[q].item, w.lines, w.failed)
       /\ \/ token[q] = "cancelled"
          \/ \A i \in Items : worker'[q].item[i] = "canceled" => w.item[i] = "canceled"
    \/ /\ w.pc = "items" /\ Stores(q, rec[q], results[q])
       /\ Becomes(q, "write", w.snap, w.item, {<<i, w.item[i]>> : i \in Items}, w.failed)
    \/ /\ w.pc = "write" /\ Stores(q, rec[q], w.lines)
       /\ Becomes(q, "put", w.snap, w.item, w.lines, w.failed)
    \/ w.pc = "put" /\ Stores(q, EndedRecord(w), results[q]) /\ Stops(q)

\* Every step of a worker is one of these.
LEMMA WorkerMoves ==
    ASSUME TypeOK, NEW q \in Batches, WorkerStep(q)
    PROVE  /\ WorkerMove(q) /\ UNCHANGED <<input, creator, canceller, deleter, recovery, asked, removed, faults>>
           /\ (token'[q] = token[q] \/ Stops(q))
           /\ job'[q] = "idle" => Stops(q) \/ job[q] = "idle"
           /\ q \in rerun => q \in rerun'
<1>w. worker[q] \in Worker
  BY DEF TypeOK
<1>s. ASSUME NEW x, SetWorker(q, x)  PROVE worker'[q] = x
  BY <1>s DEF SetWorker, TypeOK
<1>u. UNCHANGED <<input, creator, canceller, deleter, recovery, asked, removed, faults>>
  BY DEF WorkerStep, BeginRun, LoadInput, StartItem, FinishItem, CancelItem, Collect, WriteResults,
         PutEnded, durable, handlers, budgets, history
<1> DEFINE Goal == /\ WorkerMove(q) /\ (token'[q] = token[q] \/ Stops(q))
                   /\ job'[q] = "idle" => Stops(q) \/ job[q] = "idle"
                   /\ q \in rerun => q \in rerun'
<1> SUFFICES Goal
  BY <1>u
<1> USE DEF durable, history, WorkerMove, Becomes, Stores
<1>1. CASE BeginRun(q)
  <2>1. worker'[q] = [worker[q] EXCEPT !.pc = "load"]
    BY <1>1, <1>s DEF BeginRun
  <2>2. Becomes(q, "load", worker[q].snap, worker[q].item, worker[q].lines, worker[q].failed)
    BY ONLY <1>w, <2>1 DEF Worker, Becomes
  <2>3. token'[q] = token[q] /\ job'[q] = "working"
    BY <1>1 DEF BeginRun, Jobs!StartJob, TypeOK, Jobs!JobTypeOK
  <2>4. /\ worker[q].pc = "spawned" /\ Stores(q, rec[q], results[q])
        /\ rec[q].status = "ended" => q \in rerun'
        /\ q \in rerun => q \in rerun'
    BY <1>1 DEF BeginRun
  <2> HIDE DEF Becomes, Stores
  <2>5. QED BY <2>2, <2>3, <2>4
<1>2. CASE LoadInput(q)
  <2>1. UNCHANGED <<rec, results, token, job, rerun>> /\ worker[q].pc = "load"
    BY <1>2 DEF LoadInput
  <2>2. CASE q \notin input /\ SetWorker(q, Fail(worker[q]))
    <3>1. worker'[q] = [worker[q] EXCEPT !.pc = "write", !.lines = FailureLine, !.failed = TRUE]
      BY <1>s, <2>2 DEF Fail
    <3>2. Becomes(q, "write", worker[q].snap, worker[q].item, FailureLine, TRUE)
      BY ONLY <1>w, <3>1 DEF Worker, Becomes
    <3>3. QED BY <2>1, <2>2, <3>2
  <2>3. CASE /\ worker[q].snap.cancel_requested \/ token[q] = "cancelled"
             /\ SetWorker(q, Finish(worker[q], AllCanceled))
    <3>1. worker'[q] = [worker[q] EXCEPT !.pc = "write", !.lines = AllCanceled]
      BY <1>s, <2>3 DEF Finish
    <3>2. Becomes(q, "write", worker[q].snap, worker[q].item, AllCanceled, worker[q].failed)
      BY ONLY <1>w, <3>1 DEF Worker, Becomes
    <3>3. QED BY <2>1, <2>3, <3>2
  <2>4. CASE SetWorker(q, [worker[q] EXCEPT !.pc = "items"])
    <3>1. worker'[q] = [worker[q] EXCEPT !.pc = "items"]
      BY <1>s, <2>4
    <3>2. Becomes(q, "items", worker[q].snap, worker[q].item, worker[q].lines, worker[q].failed)
      BY ONLY <1>w, <3>1 DEF Worker, Becomes
    <3>3. QED BY <2>1, <2>4, <3>2
  <2>5. QED
    <3> HIDE DEF Goal
    <3>1. QED BY <1>2, <2>2, <2>3, <2>4 DEF LoadInput
<1>3. ASSUME NEW i \in Items, StartItem(q, i) \/ FinishItem(q, i) \/ CancelItem(q, i)  PROVE Goal
  <2>1. UNCHANGED <<rec, results, token, job, rerun>> /\ worker[q].pc = "items"
    BY <1>3 DEF StartItem, FinishItem, CancelItem
  <2>2. PICK s \in ItemStates : /\ worker'[q] = [worker[q] EXCEPT !.item[i] = s]
                                /\ s = "canceled" => token[q] = "cancelled"
    BY <1>3, <1>s DEF StartItem, FinishItem, CancelItem, ItemStates
  <2>3. Becomes(q, "items", worker[q].snap, worker'[q].item, worker[q].lines, worker[q].failed)
    BY ONLY <1>w, <2>1, <2>2 DEF Worker, Becomes
  <2>4. s # "canceled" => \A j \in Items : worker'[q].item[j] = "canceled" => worker[q].item[j] = "canceled"
    BY ONLY <1>w, <2>2 DEF Worker
  <2>5. QED BY <2>1, <2>2, <2>3, <2>4
<1>4. CASE Collect(q)
  <2>1. worker'[q] = [worker[q] EXCEPT !.pc = "write", !.lines = {<<i, worker[q].item[i]>> : i \in Items}]
    BY <1>4, <1>s DEF Collect, Finish
  <2>2. Becomes(q, "write", worker[q].snap, worker[q].item, {<<i, worker[q].item[i]>> : i \in Items}, worker[q].failed)
    BY ONLY <1>w, <2>1 DEF Worker, Becomes
  <2>3. UNCHANGED <<rec, results, token, job, rerun>> /\ worker[q].pc = "items"
    BY <1>4 DEF Collect
  <2> HIDE DEF Becomes
  <2>4. QED BY <2>2, <2>3
<1>5. CASE WriteResults(q)
  <2>1. worker'[q] = [worker[q] EXCEPT !.pc = "put"]
    BY <1>5, <1>s DEF WriteResults
  <2>2. Becomes(q, "put", worker[q].snap, worker[q].item, worker[q].lines, worker[q].failed)
    BY ONLY <1>w, <2>1 DEF Worker, Becomes
  <2>3. UNCHANGED <<rec, token, job, rerun>> /\ worker[q].pc = "write" /\ results'[q] = worker[q].lines
    BY <1>5 DEF WriteResults, TypeOK
  <2> HIDE DEF Becomes
  <2>4. QED BY <2>2, <2>3
<1>6. CASE PutEnded(q)
  <2>1. worker'[q] = NoWorker /\ token'[q] = "none" /\ job'[q] = "idle"
    BY <1>6, <1>s DEF PutEnded, Jobs!FinishJob, TypeOK, Jobs!JobTypeOK
  <2>2. worker[q].pc = "put" /\ rec'[q] = EndedRecord(worker[q]) /\ UNCHANGED <<results, rerun>>
    BY <1>6 DEF PutEnded, TypeOK
  <2>3. QED BY <2>1, <2>2 DEF Stops
<1>7. QED
  <2> HIDE DEF Goal
  <2>1. QED BY <1>1, <1>2, <1>3, <1>4, <1>5, <1>6 DEF WorkerStep

\* A spawn for q: refused, or the start of a worker with the snapshot.
Spawned(q, snapshot) ==
    \/ worker'[q] = worker[q] /\ token'[q] = token[q] /\ job'[q] = job[q]
    \/ /\ Becomes(q, "spawned", snapshot, [i \in Items |-> "pending"], {}, FALSE)
       /\ token'[q] = "live" /\ job'[q] = "queued"

\* A spawn is one of the two.
LEMMA SpawnMoves ==
    ASSUME TypeOK, NEW q \in Batches, NEW snapshot, Spawn(q, snapshot)
    PROVE  Spawned(q, snapshot)
<1>1. CASE /\ Jobs!EnqueueJob(q)
           /\ worker' = [worker EXCEPT ![q] = [NoWorker EXCEPT !.pc = "spawned", !.snap = snapshot]]
  <2>1. worker'[q] = [NoWorker EXCEPT !.pc = "spawned", !.snap = snapshot]
    BY <1>1 DEF TypeOK
  <2>2. token'[q] = "live" /\ job'[q] = "queued"
    BY <1>1 DEF Jobs!EnqueueJob, TypeOK, Jobs!JobTypeOK
  <2>3. QED BY <2>1, <2>2 DEF Spawned, Becomes, NoWorker
<1>2. CASE Jobs!RefuseJob(q) /\ UNCHANGED worker
  BY <1>2 DEF Jobs!RefuseJob, Jobs!jobVars, Spawned
<1>3. QED BY <1>1, <1>2 DEF Spawn

\* A spawn for another batch leaves q alone.
LEMMA SpawnElsewhere ==
    ASSUME TypeOK, NEW q \in Batches, NEW b \in Batches \ {q}, NEW snapshot, Spawn(b, snapshot)
    PROVE  worker'[q] = worker[q] /\ token'[q] = token[q] /\ job'[q] = job[q]
BY DEF Spawn, Jobs!EnqueueJob, Jobs!RefuseJob, Jobs!jobVars, TypeOK, Jobs!JobTypeOK

CreateStep(b) == CreateInput(b) \/ CreateRecord(b) \/ CreateUndo(b) \/ CreateSpawn(b)

CreateMove(q) ==
    \/ /\ creator[q] = "new" /\ creator'[q] = "record" /\ q \in input'
       /\ Stores(q, rec[q], results[q])
       /\ worker'[q] = worker[q] /\ token'[q] = token[q] /\ job'[q] = job[q]
    \/ /\ creator[q] = "record" /\ creator'[q] = "spawn" /\ input' = input
       /\ Stores(q, NewRecord, results[q])
       /\ worker'[q] = worker[q] /\ token'[q] = token[q] /\ job'[q] = job[q]
    \/ /\ creator[q] = "undo" /\ creator'[q] = "done"
       /\ Stores(q, rec[q], results[q])
       /\ worker'[q] = worker[q] /\ token'[q] = token[q] /\ job'[q] = job[q]
    \/ /\ creator[q] = "spawn" /\ creator'[q] = "done" /\ input' = input
       /\ Stores(q, rec[q], results[q]) /\ Spawned(q, NewRecord)

\* Every step of create is one of these.
LEMMA CreateMoves ==
    ASSUME TypeOK, NEW q \in Batches, CreateStep(q)
    PROVE  /\ CreateMove(q)
           /\ UNCHANGED <<canceller, deleter, recovery, asked, removed, rerun, faults>>
<1>u. UNCHANGED <<canceller, deleter, recovery, asked, removed, rerun, faults>>
  BY DEF CreateStep, CreateInput, CreateRecord, CreateUndo, CreateSpawn, budgets, history
<1> SUFFICES CreateMove(q)
  BY <1>u
<1> USE DEF TypeOK, CreateMove, Stores, durable
<1>1. CASE CreateInput(q)
  BY <1>1 DEF CreateInput
<1>2. CASE CreateRecord(q)
  BY <1>2 DEF CreateRecord
<1>3. CASE CreateUndo(q)
  BY <1>3 DEF CreateUndo
<1>4. CASE CreateSpawn(q)
  BY <1>4, SpawnMoves DEF CreateSpawn
<1>5. QED BY <1>1, <1>2, <1>3, <1>4 DEF CreateStep

CancelStep(c) == CancelPut(c) \/ CancelSignal(c) \/ \E b \in Batches : CancelRead(c, b)

\* A cancel leaves q alone, reads an active record, or writes what was asked for.
LEMMA CancelMoves ==
    ASSUME TypeOK, CancellersKnowWhom, NEW q \in Batches, NEW c \in Cancels, CancelStep(c)
    PROVE  /\ \/ rec'[q] = rec[q] /\ token'[q] = token[q]
              \/ /\ canceller[c].pc # "new" /\ canceller[c].batch = q /\ q \in asked'
                 /\ \/ rec'[q] = rec[q]
                    \/ canceller[c].pc = "put" /\ rec'[q].status = "canceling"
           /\ asked \subseteq asked'
           /\ UNCHANGED <<input, results, job, worker, creator, deleter, recovery, removed, rerun, faults>>
           /\ \A e \in Cancels :
                 /\ canceller'[e].pc # "new" /\ canceller'[e].batch = q =>
                       \/ canceller[e].pc # "new" /\ canceller[e].batch = q
                       \/ rec[q].status \in Active
                 /\ canceller'[e].pc = "put" /\ canceller'[e].batch = q =>
                       \/ canceller[e].pc = "put" /\ canceller[e].batch = q
                       \/ rec[q].status \in Active
           /\ CancellersKnowWhom'
<1>c. /\ canceller[c] \in Canceller
      /\ canceller[c].pc # "new" => canceller[c].batch \in Batches
      /\ canceller[c].pc = "signal" => canceller[c].batch \in asked
  BY DEF TypeOK, CancellersKnowWhom
<1> USE DEF TypeOK, durable, budgets, history
<1>1. ASSUME NEW b \in Batches, CancelRead(c, b)
      PROVE  /\ UNCHANGED <<rec, token, job, asked, input, results, worker, creator, deleter, recovery, removed,
                            rerun, faults>>
             /\ canceller[c].pc = "new" /\ rec[b].status \in Active
             /\ canceller' = [canceller EXCEPT ![c] = canceller'[c]]
             /\ canceller'[c].pc = "put" /\ canceller'[c].batch = b
  BY <1>1 DEF CancelRead
<1>2. ASSUME CancelPut(c)
      PROVE  /\ UNCHANGED <<token, job, input, results, worker, creator, deleter, recovery, removed, rerun, faults>>
             /\ canceller[c].pc = "put" /\ asked' = asked \cup {canceller[c].batch}
             /\ canceller' = [canceller EXCEPT ![c] = canceller'[c]]
             /\ canceller'[c].pc = "signal" /\ canceller'[c].batch = canceller[c].batch
             /\ rec'[q] = rec[q] \/ (canceller[c].batch = q /\ rec'[q].status = "canceling")
  <2>1. rec' = [rec EXCEPT ![canceller[c].batch] = [canceller[c].copy EXCEPT !.status = "canceling",
                                                           !.cancel_requested = TRUE]]
    BY <1>2 DEF CancelPut
  <2>2. [canceller[c].copy EXCEPT !.status = "canceling", !.cancel_requested = TRUE].status = "canceling"
    BY ONLY <1>c DEF Canceller, Record
  <2>3. rec'[q] = rec[q] \/ (canceller[c].batch = q /\ rec'[q].status = "canceling")
    BY <2>1, <2>2
  <2>4. canceller' = [canceller EXCEPT ![c] = [canceller[c] EXCEPT !.pc = "signal"]]
    BY <1>2 DEF CancelPut
  <2>5. canceller'[c].pc = "signal" /\ canceller'[c].batch = canceller[c].batch
    BY <1>c, <2>4 DEF Canceller
  <2>6. QED BY <1>2, <2>3, <2>4, <2>5 DEF CancelPut
<1>3. ASSUME CancelSignal(c)
      PROVE  /\ UNCHANGED <<rec, job, asked, input, results, worker, creator, deleter, recovery, removed, rerun, faults>>
             /\ canceller[c].pc = "signal"
             /\ canceller' = [canceller EXCEPT ![c] = canceller'[c]]
             /\ canceller'[c].pc = "done" /\ canceller'[c].batch = canceller[c].batch
             /\ token'[q] = token[q] \/ canceller[c].batch = q
  <2>1. canceller' = [canceller EXCEPT ![c] = [canceller[c] EXCEPT !.pc = "done"]]
    BY <1>3 DEF CancelSignal
  <2>2. canceller'[c].pc = "done" /\ canceller'[c].batch = canceller[c].batch
    BY <1>c, <2>1 DEF Canceller
  <2>3. token'[q] = token[q] \/ canceller[c].batch = q
    BY <1>3 DEF CancelSignal, Jobs!CancelJob, Jobs!JobTypeOK
  <2>4. QED BY <1>3, <2>1, <2>2, <2>3 DEF CancelSignal, Jobs!CancelJob
<1> DEFINE Rest == /\ asked \subseteq asked'
                   /\ UNCHANGED <<input, results, job, worker, creator, deleter, recovery, removed, rerun, faults>>
                   /\ \A e \in Cancels :
                         /\ canceller'[e].pc # "new" /\ canceller'[e].batch = q =>
                               \/ canceller[e].pc # "new" /\ canceller[e].batch = q
                               \/ rec[q].status \in Active
                         /\ canceller'[e].pc = "put" /\ canceller'[e].batch = q =>
                               \/ canceller[e].pc = "put" /\ canceller[e].batch = q
                               \/ rec[q].status \in Active
                   /\ CancellersKnowWhom'
<1>4. Rest
  <2>1. ASSUME NEW b \in Batches, CancelRead(c, b)  PROVE Rest
    BY <1>1, <2>1 DEF CancellersKnowWhom
  <2>2. CASE CancelPut(c)
    BY <1>2, <1>c, <2>2 DEF CancellersKnowWhom
  <2>3. CASE CancelSignal(c)
    BY <1>3, <1>c, <2>3 DEF CancellersKnowWhom
  <2> HIDE DEF Rest
  <2>4. QED BY <2>1, <2>2, <2>3 DEF CancelStep
<1>5. \/ rec'[q] = rec[q] /\ token'[q] = token[q]
      \/ /\ canceller[c].pc # "new" /\ canceller[c].batch = q /\ q \in asked'
         /\ \/ rec'[q] = rec[q]
            \/ canceller[c].pc = "put" /\ rec'[q].status = "canceling"
  BY <1>1, <1>2, <1>3, <1>c DEF CancelStep
<1>6. QED BY <1>4, <1>5

DeleteStep(d) ==
    \/ DeleteRecord(d) \/ DeleteInput(d) \/ DeleteResults(d)
    \/ \E b \in Batches : DeleteRead(d, b)

\* A delete leaves q alone, or q is deleted by now.
LEMMA DeleteMoves ==
    ASSUME TypeOK, DeletersKnowWhom, NEW q \in Batches, NEW d \in Deletes, DeleteStep(d)
    PROVE  /\ rec'[q] \in {rec[q], NoRecord} /\ results'[q] \in {results[q], {}}
           /\ q \in removed' \/ (Stores(q, rec[q], results[q]) /\ (q \in input => q \in input'))
           /\ removed \subseteq removed'
           /\ UNCHANGED <<job, token, worker, creator, canceller, recovery, asked, rerun, faults>>
           /\ DeletersKnowWhom'
<1>d. /\ deleter[d] \in Deleter
      /\ deleter[d].pc # "new" => deleter[d].batch \in Batches
      /\ deleter[d].pc \in {"input", "results"} => deleter[d].batch \in removed
  BY DEF TypeOK, DeletersKnowWhom
<1> USE DEF TypeOK, durable, budgets, history, Stores
<1>1. ASSUME NEW b \in Batches, DeleteRead(d, b)
      PROVE  /\ UNCHANGED <<rec, input, results, job, token, worker, creator, canceller, recovery, asked, removed,
                            rerun, faults>>
             /\ DeletersKnowWhom'
  BY <1>1 DEF DeleteRead, DeletersKnowWhom
<1>2. CASE DeleteRecord(d)
  <2>1. /\ rec' = [rec EXCEPT ![deleter[d].batch] = NoRecord] /\ removed' = removed \cup {deleter[d].batch}
        /\ UNCHANGED <<input, results, job, token, worker, creator, canceller, recovery, asked, rerun, faults>>
    BY <1>2 DEF DeleteRecord
  <2>2. DeletersKnowWhom'
    BY <1>2, <1>d DEF DeleteRecord, DeletersKnowWhom, Deleter
  <2>3. QED BY <2>1, <2>2
<1>3. CASE DeleteInput(d)
  <2>1. /\ input' = input \ {deleter[d].batch} /\ deleter[d].batch \in removed
        /\ UNCHANGED <<rec, results, job, token, worker, creator, canceller, recovery, asked, removed, rerun, faults>>
    BY <1>3, <1>d DEF DeleteInput
  <2>2. DeletersKnowWhom'
    BY <1>3, <1>d DEF DeleteInput, DeletersKnowWhom, Deleter
  <2>3. QED BY <2>1, <2>2
<1>4. CASE DeleteResults(d)
  <2>1. /\ results' = [results EXCEPT ![deleter[d].batch] = {}] /\ deleter[d].batch \in removed
        /\ UNCHANGED <<rec, input, job, token, worker, creator, canceller, recovery, asked, removed, rerun, faults>>
    BY <1>4, <1>d DEF DeleteResults
  <2>2. DeletersKnowWhom'
    BY <1>4, <1>d DEF DeleteResults, DeletersKnowWhom, Deleter
  <2>3. QED BY <2>1, <2>2
<1>5. QED BY <1>1, <1>2, <1>3, <1>4 DEF DeleteStep

\* The recovery reads the record of q, or starts the job with what it has read.
LEMMA RecoveryMoves ==
    ASSUME TypeOK, NEW q \in Batches, RecoveryStep
    PROVE  /\ Stores(q, rec[q], results[q])
           /\ \/ /\ worker'[q] = worker[q] /\ token'[q] = token[q] /\ job'[q] = job[q]
                 /\ recovery'.seen[q] \in {recovery.seen[q], rec[q], NoRecord}
              \/ /\ recovery.seen[q].status \in Active
                 /\ Spawned(q, recovery.seen[q]) /\ recovery'.seen[q] = NoRecord
           /\ UNCHANGED <<input, creator, canceller, deleter, asked, removed, rerun, faults>>
<1>1. Stores(q, rec[q], results[q]) /\ UNCHANGED <<input, creator, canceller, deleter, asked, removed, rerun, faults>>
  BY DEF RecoveryStep, RecoverNames, RecoverRead, RecoverSpawn, RecoverDone, Stores, durable,
         handlers, budgets, history
<1> DEFINE Reads == /\ worker'[q] = worker[q] /\ token'[q] = token[q] /\ job'[q] = job[q]
                    /\ recovery'.seen[q] \in {recovery.seen[q], rec[q], NoRecord}
<1>2. CASE RecoverNames \/ RecoverDone
  <2>1. Reads
    <3>1. CASE RecoverNames
      BY <3>1 DEF RecoverNames, Recovery, TypeOK
    <3>2. CASE RecoverDone
      BY <3>2 DEF RecoverDone, BootRecovery
    <3>3. QED BY <1>2, <3>1, <3>2
  <2>2. QED BY <1>1, <2>1
<1>3. ASSUME NEW b \in Batches, RecoverRead(b)  PROVE Reads
  <2>1. UNCHANGED <<worker, token, job>>
    BY <1>3 DEF RecoverRead
  <2>2. CASE recovery' = [BootRecovery EXCEPT !.pc = "failed"]
    BY <2>1, <2>2 DEF BootRecovery
  <2>3. CASE recovery' = [recovery EXCEPT !.unread = @ \ {b}, !.seen[b] = rec[b],
                             !.pc = IF recovery.unread = {b} THEN "spawn" ELSE "read"]
    <3>1. recovery'.seen = [recovery.seen EXCEPT ![b] = rec[b]]
      BY <2>3 DEF Recovery, TypeOK
    <3>2. QED BY <2>1, <3>1 DEF Recovery, TypeOK
  <2>4. QED BY <1>3, <2>2, <2>3 DEF RecoverRead
<1>4. ASSUME NEW b \in Batches, RecoverSpawn(b), b # q  PROVE Reads
  <2>1. worker'[q] = worker[q] /\ token'[q] = token[q] /\ job'[q] = job[q]
    BY <1>4, SpawnElsewhere DEF RecoverSpawn
  <2>2. recovery'.seen[q] = recovery.seen[q]
    BY <1>4 DEF RecoverSpawn, Recovery, TypeOK
  <2>3. QED BY <2>1, <2>2
<1>5. ASSUME RecoverSpawn(q)
      PROVE  /\ recovery.seen[q].status \in Active
             /\ Spawned(q, recovery.seen[q]) /\ recovery'.seen[q] = NoRecord
  BY <1>5, SpawnMoves DEF RecoverSpawn, Recovery, TypeOK
<1>6. QED BY <1>1, <1>2, <1>3, <1>4, <1>5 DEF RecoveryStep

\* A failing call of the worker, which is counted.
LEMMA FaultMoves ==
    ASSUME TypeOK, NEW q \in Batches, WorkerFault(q)
    PROVE  /\ faults' > 0 /\ Stores(q, rec[q], results[q])
           /\ worker[q].pc \in {"load", "write", "put"}
           /\ UNCHANGED <<input, creator, canceller, deleter, recovery, asked, removed, rerun>>
           /\ \/ /\ token'[q] = token[q] /\ job'[q] = job[q]
                 /\ Becomes(q, "write", worker[q].snap, worker[q].item, FailureLine, TRUE)
              \/ /\ token'[q] = token[q] /\ job'[q] = job[q]
                 /\ Becomes(q, "put", worker[q].snap, worker[q].item, worker[q].lines, worker[q].failed)
              \/ Stops(q)
<1>w. worker[q] \in Worker /\ faults \in Nat
  BY BoundsAssumption DEF TypeOK
<1>s. ASSUME NEW w, SetWorker(q, w)  PROVE worker'[q] = w
  BY <1>s DEF SetWorker, TypeOK
<1>1. /\ faults' > 0 /\ Stores(q, rec[q], results[q])
      /\ worker[q].pc \in {"load", "write", "put"}
      /\ UNCHANGED <<input, creator, canceller, deleter, recovery, asked, removed, rerun>>
  BY <1>w DEF WorkerFault, Stores, durable, handlers, history
<1>2. CASE SetWorker(q, Fail(worker[q])) /\ UNCHANGED <<job, token>>
  <2>1. worker'[q] = [worker[q] EXCEPT !.pc = "write", !.lines = FailureLine, !.failed = TRUE]
    BY <1>2, <1>s DEF Fail
  <2>2. Becomes(q, "write", worker[q].snap, worker[q].item, FailureLine, TRUE)
    BY ONLY <1>w, <2>1 DEF Worker, Becomes
  <2>3. QED BY <1>1, <1>2, <2>2
<1>3. CASE SetWorker(q, [worker[q] EXCEPT !.pc = "put"]) /\ UNCHANGED <<job, token>>
  <2>1. worker'[q] = [worker[q] EXCEPT !.pc = "put"]
    BY <1>3, <1>s
  <2>2. Becomes(q, "put", worker[q].snap, worker[q].item, worker[q].lines, worker[q].failed)
    BY ONLY <1>w, <2>1 DEF Worker, Becomes
  <2>3. QED BY <1>1, <1>3, <2>2
<1>4. CASE SetWorker(q, NoWorker) /\ Jobs!FinishJob(q)
  <2>1. Stops(q)
    BY <1>4, <1>s DEF Stops, Jobs!FinishJob, TypeOK, Jobs!JobTypeOK
  <2>2. QED BY <1>1, <2>1
<1>5. QED BY <1>2, <1>3, <1>4 DEF WorkerFault

\* A failing or dropped handler stops or turns to its undoing, and leaves the
\* stores and the job alone.
LEMMA HandlerMoves ==
    ASSUME TypeOK, CancellersKnowWhom, DeletersKnowWhom, HandlerFault \/ HandlerDropped
    PROVE  /\ UNCHANGED <<rec, input, results, job, token, worker, recovery, asked, removed, rerun>>
           /\ \A b \in Batches : \/ creator'[b] \in {creator[b], "done"}
                                 \/ creator[b] = "record" /\ creator'[b] = "undo"
           /\ \/ faults' > 0
              \/ /\ faults' = faults
                 /\ \A b \in Batches : \/ creator'[b] = creator[b]
                                       \/ creator[b] # "new" /\ creator'[b] = "done"
           /\ \A c \in Cancels : /\ canceller'[c].batch = canceller[c].batch
                                 /\ canceller'[c].pc # canceller[c].pc =>
                                       canceller[c].pc # "new" /\ canceller'[c].pc = "done"
           /\ CancellersKnowWhom' /\ DeletersKnowWhom'
<1>1. UNCHANGED <<rec, input, results, job, token, worker, recovery, asked, removed, rerun>>
  BY DEF HandlerFault, HandlerDropped, durable, history
<1>f. faults \in Nat
  BY BoundsAssumption DEF TypeOK
<1> DEFINE Turns == \A b \in Batches : \/ creator'[b] \in {creator[b], "done"}
                                       \/ creator[b] = "record" /\ creator'[b] = "undo"
           Stopped == \A c \in Cancels :
                         /\ canceller'[c].batch = canceller[c].batch
                         /\ canceller'[c].pc # canceller[c].pc =>
                               canceller[c].pc # "new" /\ canceller'[c].pc = "done"
           Goes == \A d \in Deletes :
                         \/ deleter'[d] = deleter[d]
                         \/ /\ deleter[d].pc # "new" /\ deleter'[d].batch = deleter[d].batch
                            /\ \/ deleter'[d].pc = "done"
                               \/ deleter[d].pc = "input" /\ deleter'[d].pc = "results"
           Ended == \A b \in Batches : \/ creator'[b] = creator[b]
                                       \/ creator[b] # "new" /\ creator'[b] = "done"
<1>2. ASSUME NEW at, NEW b \in Batches, CreatorEnds(b, at, "done")
      PROVE  Turns /\ Stopped /\ Goes /\ ("new" \notin at => Ended)
  BY <1>2 DEF CreatorEnds, TypeOK
<1>3. ASSUME NEW b \in Batches, CreatorEnds(b, {"record"}, "undo")
      PROVE  Turns /\ Stopped /\ Goes
  BY <1>3 DEF CreatorEnds, TypeOK
<1>4. ASSUME NEW at, "new" \notin at, NEW c \in Cancels, CancellerEnds(c, at)
      PROVE  Turns /\ Stopped /\ Goes /\ Ended
  <2>1. canceller' = [canceller EXCEPT ![c] = [canceller[c] EXCEPT !.pc = "done"]] /\ canceller[c].pc # "new"
        /\ UNCHANGED <<creator, deleter>>
    BY <1>4 DEF CancellerEnds
  <2>2. canceller[c] \in Canceller
    BY DEF TypeOK
  <2>3. Stopped
    <3>1. [canceller[c] EXCEPT !.pc = "done"].pc = "done" /\ [canceller[c] EXCEPT !.pc = "done"].batch = canceller[c].batch
      BY ONLY <2>2 DEF Canceller
    <3>2. QED BY <2>1, <3>1 DEF TypeOK
  <2>4. QED BY <2>1, <2>3
<1>5. ASSUME NEW at, "new" \notin at, NEW then, NEW d \in Deletes, DeleterGoes(d, at, then),
             then = "done" \/ (at = {"input"} /\ then = "results")
      PROVE  Turns /\ Stopped /\ Goes /\ Ended
  <2>1. deleter' = [deleter EXCEPT ![d] = [deleter[d] EXCEPT !.pc = then]] /\ deleter[d].pc \in at
        /\ UNCHANGED <<creator, canceller>>
    BY <1>5 DEF DeleterGoes
  <2>2. [deleter[d] EXCEPT !.pc = then].pc = then /\ [deleter[d] EXCEPT !.pc = then].batch = deleter[d].batch
    BY DEF TypeOK, Deleter
  <2>3. Goes
    BY <1>5, <2>1, <2>2 DEF TypeOK
  <2>4. QED BY <2>1, <2>3
<1> HIDE DEF Turns, Stopped, Goes, Ended
<1>6. Turns /\ Stopped /\ Goes
  <2>1. CASE HandlerFault
    BY <1>2, <1>3, <1>4, <1>5, <2>1 DEF HandlerFault
  <2>2. CASE HandlerDropped
    BY <1>2, <1>4, <1>5, <2>2 DEF HandlerDropped
  <2>3. QED BY <2>1, <2>2
<1>7. faults' > 0 \/ (faults' = faults /\ Ended)
  <2>1. CASE HandlerFault
    BY <1>f, <2>1 DEF HandlerFault
  <2>2. CASE HandlerDropped
    BY <1>2, <1>4, <1>5, <2>2 DEF HandlerDropped
  <2>3. QED BY <2>1, <2>2
<1>8. CancellersKnowWhom'
  BY <1>1, <1>6 DEF CancellersKnowWhom, Stopped
<1>9. DeletersKnowWhom'
  BY <1>1, <1>6 DEF DeletersKnowWhom, Goes
<1>10. QED BY <1>1, <1>6, <1>7, <1>8, <1>9 DEF Turns, Stopped, Ended

\* After a crash there is no worker, no token, no copy.
LEMMA CrashMoves ==
    ASSUME TypeOK, CancellersKnowWhom, DeletersKnowWhom, NEW q \in Batches, Crash
    PROVE  /\ Stops(q) /\ Stores(q, rec[q], results[q]) /\ recovery'.seen[q] = NoRecord
           /\ creator'[q] = (IF creator[q] = "new" THEN "new" ELSE "done")
           /\ UNCHANGED <<input, asked, removed, rerun, faults>>
           /\ \A c \in Cancels : /\ canceller'[c].batch = canceller[c].batch
                                 /\ canceller'[c].pc # canceller[c].pc =>
                                       canceller[c].pc # "new" /\ canceller'[c].pc = "done"
           /\ CancellersKnowWhom' /\ DeletersKnowWhom'
<1>1. Stops(q) /\ recovery'.seen[q] = NoRecord
  BY DEF Crash, Stops, Jobs!StopAllJobs, BootRecovery
<1>2. /\ Stores(q, rec[q], results[q]) /\ UNCHANGED <<input, asked, removed, rerun, faults>>
      /\ creator'[q] = (IF creator[q] = "new" THEN "new" ELSE "done")
  BY DEF Crash, Stores, durable, history
<1>3. ASSUME NEW c \in Cancels
      PROVE  /\ canceller'[c].batch = canceller[c].batch
             /\ canceller'[c].pc # canceller[c].pc =>
                   canceller[c].pc # "new" /\ canceller'[c].pc = "done"
  <2>1. /\ [canceller[c] EXCEPT !.pc = "done"].pc = "done"
        /\ [canceller[c] EXCEPT !.pc = "done"].batch = canceller[c].batch
    BY DEF TypeOK, Canceller
  <2>2. \/ canceller'[c] = canceller[c]
        \/ canceller[c].pc # "new" /\ canceller'[c] = [canceller[c] EXCEPT !.pc = "done"]
    BY DEF Crash
  <2>3. QED BY <2>1, <2>2
<1>4. ASSUME NEW d \in Deletes
      PROVE  \/ deleter'[d] = deleter[d]
             \/ deleter[d].pc # "new" /\ deleter'[d].pc = "done" /\ deleter'[d].batch = deleter[d].batch
  <2>1. /\ [deleter[d] EXCEPT !.pc = "done"].pc = "done"
        /\ [deleter[d] EXCEPT !.pc = "done"].batch = deleter[d].batch
    BY DEF TypeOK, Deleter
  <2>2. \/ deleter'[d] = deleter[d]
        \/ deleter[d].pc # "new" /\ deleter'[d] = [deleter[d] EXCEPT !.pc = "done"]
    BY DEF Crash
  <2>3. QED BY <2>1, <2>2
<1>5. CancellersKnowWhom'
  BY <1>2, <1>3 DEF CancellersKnowWhom
<1>6. DeletersKnowWhom'
  BY <1>2, <1>4 DEF DeletersKnowWhom
<1>7. QED BY <1>1, <1>2, <1>3, <1>5, <1>6

\* A stutter, or a step that is for another batch.
LEMMA StepsElsewhere ==
    ASSUME TypeOK, NEW q \in Batches, [Next]_vars
    PROVE  \/ CreateStep(q) \/ WorkerStep(q) \/ WorkerFault(q) \/ RecoveryStep
           \/ \E c \in Cancels : CancelStep(c)
           \/ \E d \in Deletes : DeleteStep(d)
           \/ HandlerFault \/ HandlerDropped \/ Crash
           \/ /\ Untouched(q) /\ UNCHANGED <<canceller, deleter, asked, removed>>
              /\ (q \in rerun => q \in rerun') /\ (faults' = faults \/ faults' > 0)
<1> DEFINE Elsewhere == /\ Untouched(q) /\ UNCHANGED <<canceller, deleter, asked, removed>>
                        /\ (q \in rerun => q \in rerun') /\ (faults' = faults \/ faults' > 0)
<1> USE DEF TypeOK, Jobs!JobTypeOK, Untouched, handlers, durable, budgets, history
<1>1. CASE UNCHANGED vars
  BY <1>1 DEF vars
<1>2. ASSUME NEW b \in Batches \ {q}, CreateStep(b)  PROVE Elsewhere
  BY <1>2 DEF CreateStep, CreateInput, CreateRecord, CreateUndo, CreateSpawn, Spawn,
              Jobs!EnqueueJob, Jobs!RefuseJob, Jobs!jobVars
<1>3. ASSUME NEW b \in Batches \ {q}, WorkerStep(b)  PROVE Elsewhere
  <2>1. UNCHANGED <<input, creator, canceller, deleter, recovery, asked, removed, faults>>
    BY <1>3, WorkerMoves
  <2>2. /\ rec'[q] = rec[q] /\ results'[q] = results[q] /\ worker'[q] = worker[q]
        /\ token'[q] = token[q] /\ job'[q] = job[q] /\ (q \in rerun => q \in rerun')
    BY <1>3 DEF WorkerStep, SetWorker, BeginRun, LoadInput, StartItem, FinishItem, CancelItem, Collect,
                WriteResults, PutEnded, Jobs!StartJob, Jobs!FinishJob
  <2>3. QED BY <2>1, <2>2
<1>4. ASSUME NEW b \in Batches \ {q}, WorkerFault(b)  PROVE Elsewhere
  <2>1. faults' > 0
    BY <1>4, FaultMoves
  <2>2. QED BY <1>4, <2>1 DEF WorkerFault, SetWorker, Jobs!FinishJob
<1>5. QED
  <2> HIDE DEF Elsewhere
  <2>1. CASE UNCHANGED vars
    BY <1>1, <2>1 DEF Elsewhere
  <2>2. CASE HandlerStep
    BY <1>2, <2>2 DEF HandlerStep, CreateStep, CancelStep, DeleteStep, Elsewhere
  <2>3. CASE \E b \in Batches : WorkerStep(b)
    BY <1>3, <2>3 DEF Elsewhere
  <2>4. CASE Trouble
    BY <1>4, <2>4 DEF Trouble, Elsewhere
  <2>5. QED BY <2>1, <2>2, <2>3, <2>4 DEF Next

-----------------------------------------------------------------------------
(* The invariant, part by part *)

\* Cancels and deletes know their batch after every step.
LEMMA HandlersStep ==
    ASSUME IInv, [Next]_vars
    PROVE  CancellersKnowWhom' /\ DeletersKnowWhom'
<1>i. TypeOK /\ CancellersKnowWhom /\ DeletersKnowWhom
  BY DEF IInv
<1>0. ASSUME UNCHANGED <<canceller, asked>>  PROVE CancellersKnowWhom'
  BY <1>0, <1>i DEF CancellersKnowWhom
<1>1. ASSUME UNCHANGED <<deleter, removed>>  PROVE DeletersKnowWhom'
  BY <1>1, <1>i DEF DeletersKnowWhom
<1>2. CASE UNCHANGED <<canceller, deleter, asked, removed>>
  BY <1>0, <1>1, <1>2
<1>3. ASSUME NEW b \in Batches, CreateStep(b) \/ WorkerStep(b) \/ WorkerFault(b)
      PROVE  UNCHANGED <<canceller, deleter, asked, removed>>
  BY <1>3, <1>i, CreateMoves, WorkerMoves, FaultMoves
<1>4. ASSUME NEW c \in Cancels, CancelStep(c)  PROVE CancellersKnowWhom' /\ DeletersKnowWhom'
  <2>1. CASE Batches = {}
    <3>1. UNCHANGED <<deleter, removed>>
      BY <1>4 DEF CancelStep, CancelRead, CancelPut, CancelSignal, handlers, history
    <3>2. canceller[c].pc = "new"
      BY <2>1, <1>i DEF CancellersKnowWhom
    <3>3. QED BY <1>4, <2>1, <3>2 DEF CancelStep, CancelRead, CancelPut, CancelSignal
  <2>2. ASSUME NEW q \in Batches  PROVE CancellersKnowWhom' /\ UNCHANGED removed
    BY <1>4, <1>i, CancelMoves
  <2>3. UNCHANGED deleter
    BY <1>4 DEF CancelStep, CancelRead, CancelPut, CancelSignal
  <2>4. QED BY <1>1, <2>1, <2>2, <2>3
<1>5. ASSUME NEW d \in Deletes, DeleteStep(d)  PROVE CancellersKnowWhom' /\ DeletersKnowWhom'
  <2>1. CASE Batches = {}
    <3>1. deleter[d].pc = "new"
      BY <2>1, <1>i DEF DeletersKnowWhom
    <3>2. QED BY <1>5, <2>1, <3>1 DEF DeleteStep, DeleteRead, DeleteRecord, DeleteInput, DeleteResults
  <2>2. ASSUME NEW q \in Batches  PROVE DeletersKnowWhom' /\ UNCHANGED <<canceller, asked>>
    BY <1>5, <1>i, DeleteMoves
  <2>3. QED BY <1>0, <2>1, <2>2
<1>6. CASE HandlerFault \/ HandlerDropped
  BY <1>6, <1>i, HandlerMoves
<1>7. CASE RecoveryStep \/ UNCHANGED vars
  BY <1>2, <1>7 DEF RecoveryStep, RecoverNames, RecoverRead, RecoverSpawn, RecoverDone, vars,
                    handlers, history
<1>8. CASE Crash
  <2>1. ASSUME NEW q \in Batches  PROVE CancellersKnowWhom' /\ DeletersKnowWhom'
    BY <1>8, <1>i, CrashMoves
  <2>2. CASE Batches = {}
    <3>1. canceller' = canceller /\ deleter' = deleter
      BY <1>8, <1>i, <2>2 DEF Crash, CancellersKnowWhom, DeletersKnowWhom, TypeOK
    <3>2. QED BY <1>2, <1>8, <3>1 DEF Crash, history
  <2>3. QED BY <2>1, <2>2
<1>9. QED
  <2>1. CASE HandlerStep
    BY <1>2, <1>3, <1>4, <1>5, <2>1 DEF HandlerStep, CreateStep, CancelStep, DeleteStep
  <2>2. CASE \E b \in Batches : WorkerStep(b)
    BY <1>2, <1>3, <2>2
  <2>3. CASE Trouble
    BY <1>2, <1>3, <1>6, <1>8, <2>3 DEF Trouble
  <2>4. QED BY <1>7, <2>1, <2>2, <2>3 DEF Next

\* Whatever happens, a cancellation comes from a client.
LEMMA CancelsStep ==
    ASSUME IInv, [Next]_vars
    PROVE  CancelsComeFromClients'
<1> SUFFICES ASSUME NEW q \in Batches  PROVE CancelComesFromClient(q)'
  BY DEF CancelsComeFromClients
<1>q. CancelComesFromClient(q)
  BY DEF IInv, CancelsComeFromClients
<1>i. TypeOK /\ CancellersKnowWhom /\ DeletersKnowWhom
  BY DEF IInv
<1>n. /\ ~SaysCanceled(NoRecord) /\ ~SaysCanceled(NewRecord)
      /\ ~HasCanceled({}) /\ ~HasCanceled(FailureLine)
  BY DEF SaysCanceled, NoRecord, NewRecord, HasCanceled, FailureLine
<1>w. NoWorker.snap = NoRecord /\ NoWorker.lines = {} /\ \A i \in Items : NoWorker.item[i] = "pending"
  BY DEF NoWorker
<1>0. CASE Untouched(q) /\ UNCHANGED asked
  BY <1>0, <1>q DEF Untouched, CancelComesFromClient
<1>1. CASE CreateStep(q)
  <2>1. CreateMove(q) /\ UNCHANGED <<recovery, asked>>
    BY <1>1, <1>i, CreateMoves
  <2>2. QED
    BY ONLY <2>1, <1>q, <1>n DEF CreateMove, Spawned, Becomes, Stores, CancelComesFromClient
<1>2. CASE WorkerStep(q)
  <2>1. /\ WorkerMove(q) /\ UNCHANGED <<recovery, asked>>
        /\ token'[q] = token[q] \/ token'[q] = "none"
    BY <1>2, <1>i, WorkerMoves DEF Stops
  <2>2. CASE q \in asked
    BY <2>1, <2>2 DEF CancelComesFromClient
  <2>3. CASE q \notin asked
    <3>1. HasCanceled({<<i, worker[q].item[i]>> : i \in Items}) => \E i \in Items : worker[q].item[i] = "canceled"
      BY DEF HasCanceled
    <3>2. ~SaysCanceled(EndedRecord(worker[q]))
      <4>1. ~worker[q].snap.cancel_requested /\ worker[q].snap \in Record
        BY <1>i, <1>q, <2>3 DEF CancelComesFromClient, SaysCanceled, TypeOK, Worker
      <4>2. EndedRecord(worker[q]).status = "ended" /\ EndedRecord(worker[q]).cancel_requested = FALSE
        BY ONLY <4>1 DEF EndedRecord, Record
      <4>3. QED BY <4>2 DEF SaysCanceled
    <3>3. ~worker[q].snap.cancel_requested /\ token[q] # "cancelled"
      BY <1>q, <2>3 DEF CancelComesFromClient, SaysCanceled
    <3>4. QED
      BY ONLY <2>1, <2>3, <1>q, <1>n, <1>w, <3>1, <3>2, <3>3
         DEF WorkerMove, Becomes, Stops, Stores, CancelComesFromClient
  <2>4. QED BY <2>2, <2>3
<1>3. ASSUME NEW c \in Cancels, CancelStep(c)  PROVE CancelComesFromClient(q)'
  BY <1>3, <1>i, <1>q, CancelMoves DEF CancelComesFromClient
<1>4. ASSUME NEW d \in Deletes, DeleteStep(d)  PROVE CancelComesFromClient(q)'
  <2>1. /\ rec'[q] \in {rec[q], NoRecord} /\ results'[q] \in {results[q], {}}
        /\ UNCHANGED <<token, worker, recovery, asked>>
    BY <1>4, <1>i, DeleteMoves
  <2>2. QED BY ONLY <2>1, <1>q, <1>n DEF CancelComesFromClient
<1>5. CASE RecoveryStep
  <2>1. /\ Stores(q, rec[q], results[q]) /\ UNCHANGED asked
        /\ \/ /\ worker'[q] = worker[q] /\ token'[q] = token[q]
              /\ recovery'.seen[q] \in {recovery.seen[q], rec[q], NoRecord}
           \/ Spawned(q, recovery.seen[q]) /\ recovery'.seen[q] = NoRecord
    BY <1>5, <1>i, RecoveryMoves
  <2>2. QED
    BY ONLY <2>1, <1>q, <1>n DEF Stores, Spawned, Becomes, CancelComesFromClient
<1>6. CASE WorkerFault(q)
  <2>1. /\ Stores(q, rec[q], results[q]) /\ UNCHANGED <<recovery, asked>>
        /\ \/ /\ token'[q] = token[q]
              /\ Becomes(q, "write", worker[q].snap, worker[q].item, FailureLine, TRUE)
           \/ /\ token'[q] = token[q]
              /\ Becomes(q, "put", worker[q].snap, worker[q].item, worker[q].lines, worker[q].failed)
           \/ Stops(q)
    BY <1>6, <1>i, FaultMoves
  <2>2. QED
    BY ONLY <2>1, <1>q, <1>n, <1>w DEF Stores, Stops, Becomes, CancelComesFromClient
<1>7. CASE HandlerFault \/ HandlerDropped
  BY <1>7, <1>i, <1>q, HandlerMoves DEF CancelComesFromClient
<1>8. CASE Crash
  <2>1. Stops(q) /\ Stores(q, rec[q], results[q]) /\ recovery'.seen[q] = NoRecord /\ UNCHANGED asked
    BY <1>8, <1>i, CrashMoves
  <2>2. QED
    BY ONLY <2>1, <1>q, <1>n, <1>w DEF Stops, Stores, CancelComesFromClient
<1>9. QED
  BY <1>0, <1>1, <1>2, <1>3, <1>4, <1>5, <1>6, <1>7, <1>8, <1>i, StepsElsewhere

\* Nobody comes to know of a batch whose record is not stored.
LEMMA UnknownStep ==
    ASSUME IInv, [Next]_vars
    PROVE  UnknownUntilStored'
<1> DEFINE Early(b) == creator[b] \in {"new", "record"} =>
        /\ rec[b].status = "none" /\ recovery.seen[b].status = "none" /\ worker[b].pc = "none"
        /\ \A c \in Cancels : canceller[c].pc # "new" => canceller[c].batch # b
<1> SUFFICES ASSUME NEW q \in Batches  PROVE Early(q)'
  BY DEF UnknownUntilStored
<1>q. Early(q)
  BY DEF IInv, UnknownUntilStored
<1>i. TypeOK /\ CancellersKnowWhom /\ DeletersKnowWhom
  BY DEF IInv
<1>n. NoRecord.status = "none" /\ NoWorker.pc = "none"
  BY DEF NoRecord, NoWorker
<1> HIDE DEF Early
<1>s. ASSUME creator'[q] \in {creator[q], "undo", "done"},
             rec'[q] \in {rec[q], NoRecord}, recovery'.seen[q] \in {recovery.seen[q], rec[q], NoRecord},
             worker'[q] = worker[q] \/ worker'[q].pc = "none",
             \A c \in Cancels : canceller'[c].batch = q /\ canceller'[c].pc # "new" =>
                                   canceller[c].batch = q /\ canceller[c].pc # "new"
      PROVE  Early(q)'
  BY ONLY <1>s, <1>q, <1>n DEF Early
<1>1. CASE CreateStep(q)
  <2>1. CreateMove(q) /\ UNCHANGED <<canceller, recovery>>
    BY <1>1, <1>i, CreateMoves
  <2>2. QED BY ONLY <2>1, <1>q, <1>n DEF CreateMove, Stores, Early
<1>2. CASE WorkerStep(q)
  <2>1. WorkerMove(q) /\ UNCHANGED creator
    BY <1>2, <1>i, WorkerMoves
  <2>2. QED BY ONLY <2>1, <1>q DEF WorkerMove, Early
<1>3. ASSUME NEW c \in Cancels, CancelStep(c)  PROVE Early(q)'
  <2>1. UNCHANGED <<worker, creator, recovery>>
    BY <1>3, <1>i, CancelMoves
  <2>2. CASE creator[q] \in {"new", "record"}
    <3>1. rec[q].status = "none" /\ ~(canceller[c].pc # "new" /\ canceller[c].batch = q)
      BY <1>q, <2>2 DEF Early
    <3>2. rec'[q] = rec[q]
      BY <1>3, <1>i, <3>1, CancelMoves
    <3>3. \A e \in Cancels : canceller'[e].batch = q /\ canceller'[e].pc # "new" =>
                                canceller[e].batch = q /\ canceller[e].pc # "new"
      BY <1>3, <1>i, <3>1, CancelMoves DEF Active
    <3>4. QED BY <1>s, <2>1, <3>2, <3>3
  <2>3. CASE creator[q] \notin {"new", "record"}
    BY <2>1, <2>3 DEF Early
  <2>4. QED BY <2>2, <2>3
<1>4. ASSUME NEW d \in Deletes, DeleteStep(d)  PROVE Early(q)'
  BY <1>4, <1>i, <1>s, DeleteMoves
<1>5. CASE RecoveryStep
  <2>1. /\ Stores(q, rec[q], results[q]) /\ UNCHANGED <<creator, canceller>>
        /\ \/ /\ worker'[q] = worker[q]
              /\ recovery'.seen[q] \in {recovery.seen[q], rec[q], NoRecord}
           \/ recovery.seen[q].status \in Active
    BY <1>5, <1>i, RecoveryMoves
  <2>2. CASE recovery.seen[q].status \in Active
    BY ONLY <2>1, <2>2, <1>q DEF Early, Active
  <2>3. QED BY <1>s, <2>1, <2>2 DEF Stores
<1>6. CASE WorkerFault(q)
  <2>1. worker[q].pc \in {"load", "write", "put"} /\ UNCHANGED creator
    BY <1>6, <1>i, FaultMoves
  <2>2. QED BY ONLY <2>1, <1>q DEF Early
<1>7. CASE HandlerFault \/ HandlerDropped
  <2>1. /\ UNCHANGED <<rec, worker, recovery>> /\ creator'[q] \in {creator[q], "undo", "done"}
        /\ \A c \in Cancels : /\ canceller'[c].batch = canceller[c].batch
                              /\ canceller'[c].pc # canceller[c].pc => canceller[c].pc # "new"
    BY <1>7, <1>i, HandlerMoves
  <2>2. QED BY <1>s, <2>1
<1>8. CASE Crash
  <2>1. /\ worker'[q] = NoWorker /\ rec'[q] = rec[q] /\ recovery'.seen[q] = NoRecord
        /\ creator'[q] \in {creator[q], "undo", "done"}
        /\ \A c \in Cancels : /\ canceller'[c].batch = canceller[c].batch
                              /\ canceller'[c].pc # canceller[c].pc => canceller[c].pc # "new"
    BY <1>8, <1>i, CrashMoves DEF Stops, Stores
  <2>2. QED BY <1>s, <1>n, <2>1
<1>9. CASE Untouched(q) /\ UNCHANGED canceller
  BY <1>9, <1>s DEF Untouched
<1>10. QED
  BY <1>1, <1>2, <1>3, <1>4, <1>5, <1>6, <1>7, <1>8, <1>9, <1>i, StepsElsewhere

\* Whatever is written as results has one line per request.
LEMMA LinesStep ==
    ASSUME IInv, [Next]_vars
    PROVE  LinesArePerRequest'
<1> SUFFICES ASSUME NEW q \in Batches  PROVE OneLineEach(results'[q]) /\ OneLineEach(worker'[q].lines)
  BY DEF LinesArePerRequest, OneLineEach
<1>q. OneLineEach(results[q]) /\ OneLineEach(worker[q].lines)
  BY DEF IInv, LinesArePerRequest
<1>i. TypeOK /\ CancellersKnowWhom /\ DeletersKnowWhom
  BY DEF IInv
<1>n. /\ OneLineEach({}) /\ OneLineEach(FailureLine) /\ OneLineEach(AllCanceled) /\ NoWorker.lines = {}
      /\ OneLineEach({<<i, worker[q].item[i]>> : i \in Items})
  <2>1. OneLineEach({<<i, worker[q].item[i]>> : i \in Items})
    BY LinesOfOutcomes
  <2>2. OneLineEach({}) /\ OneLineEach(FailureLine) /\ NoWorker.lines = {}
    BY DEF OneLineEach, NoWorker
  <2>3. QED BY <2>1, <2>2, LinesOfCancel
<1>1. CASE CreateStep(q)
  <2>1. CreateMove(q)
    BY <1>1, <1>i, CreateMoves
  <2>2. QED BY ONLY <2>1, <1>q, <1>n DEF CreateMove, Spawned, Becomes, Stores
<1>2. CASE WorkerStep(q)
  <2>1. WorkerMove(q)
    BY <1>2, <1>i, WorkerMoves
  <2>2. QED BY ONLY <2>1, <1>q, <1>n DEF WorkerMove, Becomes, Stops, Stores
<1>3. ASSUME NEW c \in Cancels, CancelStep(c)
      PROVE  OneLineEach(results'[q]) /\ OneLineEach(worker'[q].lines)
  BY <1>3, <1>i, <1>q, CancelMoves
<1>4. ASSUME NEW d \in Deletes, DeleteStep(d)
      PROVE  OneLineEach(results'[q]) /\ OneLineEach(worker'[q].lines)
  BY <1>4, <1>i, <1>q, <1>n, DeleteMoves
<1>5. CASE RecoveryStep
  <2>1. Stores(q, rec[q], results[q]) /\ (worker'[q] = worker[q] \/ Spawned(q, recovery.seen[q]))
    BY <1>5, <1>i, RecoveryMoves
  <2>2. QED BY ONLY <2>1, <1>q, <1>n DEF Stores, Spawned, Becomes
<1>6. CASE WorkerFault(q)
  BY <1>6, <1>i, <1>q, <1>n, FaultMoves DEF Stops, Becomes, Stores
<1>7. CASE HandlerFault \/ HandlerDropped
  BY <1>7, <1>i, <1>q, HandlerMoves
<1>8. CASE Crash
  BY <1>8, <1>i, <1>q, <1>n, CrashMoves DEF Stops, Stores
<1>9. CASE Untouched(q)
  BY <1>9, <1>q DEF Untouched
<1>10. QED
  BY <1>1, <1>2, <1>3, <1>4, <1>5, <1>6, <1>7, <1>8, <1>9, <1>i, StepsElsewhere

\* As long as nothing disturbs it, the worker brings the results and the record
\* forward together.
LEMMA InStepStep ==
    ASSUME IInv, [Next]_vars
    PROVE  WorkersInStep'
<1> SUFFICES ASSUME NEW q \in Batches  PROVE StoresInStep(q)'
  BY DEF WorkersInStep
<1>q. StoresInStep(q)
  BY DEF IInv, WorkersInStep
<1>i. TypeOK /\ CancellersKnowWhom /\ DeletersKnowWhom
  BY DEF IInv
<1>u. creator[q] \in {"new", "record"} => rec[q].status = "none" /\ worker[q].pc = "none"
  BY DEF IInv, UnknownUntilStored
<1>n. /\ NoRecord.status = "none" /\ NewRecord.status = "in_progress"
      /\ NoWorker.pc = "none" /\ NoWorker.failed = FALSE
      /\ AllCanceled # {} /\ {<<i, worker[q].item[i]>> : i \in Items} # {}
  BY LinesOfOutcomes, LinesOfCancel DEF NoRecord, NewRecord, NoWorker
<1>f. faults \in Nat
  BY <1>i, BoundsAssumption DEF TypeOK
<1> USE DEF Disturbed
<1>1. CASE CreateStep(q)
  <2>1. CreateMove(q) /\ UNCHANGED <<removed, rerun, faults>>
    BY <1>1, <1>i, CreateMoves
  <2>2. QED
    BY ONLY <2>1, <1>q, <1>u, <1>n DEF CreateMove, Spawned, Becomes, Stores, StoresInStep, WorkerInStep
<1>2. CASE WorkerStep(q)
  <2>1. WorkerMove(q) /\ UNCHANGED <<creator, input, removed, faults>> /\ (q \in rerun => q \in rerun')
    BY <1>2, <1>i, WorkerMoves
  <2>2. CASE Disturbed(q)
    BY ONLY <2>1, <2>2 DEF StoresInStep
  <2>3. CASE ~Disturbed(q)
    <3>1. ~worker[q].failed => EndedRecord(worker[q]).counts = CountsOf(worker[q].lines)
      <4>1. worker[q].snap \in Record
        BY <1>i DEF TypeOK, Worker
      <4>2. QED BY <4>1 DEF EndedRecord, Record
    <3>2. creator[q] # "new" \/ worker[q].pc = "none"
      BY <1>u
    <3>3. QED
      BY ONLY <2>1, <2>3, <1>q, <1>n, <3>1, <3>2
         DEF WorkerMove, Becomes, Stops, Stores, StoresInStep, WorkerInStep
  <2>4. QED BY <2>2, <2>3
<1>3. ASSUME NEW c \in Cancels, CancelStep(c)  PROVE StoresInStep(q)'
  <2>1. /\ rec'[q] = rec[q] \/ rec'[q].status = "canceling"
        /\ UNCHANGED <<creator, input, results, worker, removed, rerun, faults>>
    BY <1>3, <1>i, CancelMoves
  <2>2. QED BY ONLY <2>1, <1>q DEF StoresInStep, WorkerInStep
<1>4. ASSUME NEW d \in Deletes, DeleteStep(d)  PROVE StoresInStep(q)'
  <2>1. /\ q \in removed' \/ (Stores(q, rec[q], results[q]) /\ (q \in input => q \in input'))
        /\ removed \subseteq removed' /\ UNCHANGED <<creator, worker, rerun, faults>>
    BY <1>4, <1>i, DeleteMoves
  <2>2. QED BY ONLY <2>1, <1>q DEF Stores, StoresInStep, WorkerInStep
<1>5. CASE RecoveryStep
  <2>1. /\ Stores(q, rec[q], results[q]) /\ UNCHANGED <<creator, input, removed, rerun, faults>>
        /\ worker'[q] = worker[q] \/ Spawned(q, recovery.seen[q])
    BY <1>5, <1>i, RecoveryMoves
  <2>2. QED
    BY ONLY <2>1, <1>q DEF Stores, Spawned, Becomes, StoresInStep, WorkerInStep
<1>6. CASE WorkerFault(q)
  BY <1>6, <1>i, FaultMoves DEF StoresInStep
<1>7. CASE HandlerFault \/ HandlerDropped
  <2>1. UNCHANGED <<rec, input, results, worker, removed, rerun>>
    BY <1>7, <1>i, HandlerMoves
  <2>2. \/ faults' > 0
        \/ /\ faults' = faults
           /\ creator'[q] = creator[q] \/ (creator[q] # "new" /\ creator'[q] = "done")
    BY <1>7, <1>i, HandlerMoves
  <2>3. QED BY ONLY <2>1, <2>2, <1>q DEF StoresInStep, WorkerInStep
<1>8. CASE Crash
  <2>1. /\ Stops(q) /\ Stores(q, rec[q], results[q]) /\ UNCHANGED <<input, removed, rerun, faults>>
        /\ creator'[q] = (IF creator[q] = "new" THEN "new" ELSE "done")
    BY <1>8, <1>i, CrashMoves
  <2>2. QED
    BY ONLY <2>1, <1>q, <1>n DEF Stops, Stores, StoresInStep, WorkerInStep
<1>9. CASE /\ Untouched(q) /\ UNCHANGED removed
           /\ (q \in rerun => q \in rerun') /\ (faults' = faults \/ faults' > 0)
  BY ONLY <1>9, <1>q DEF Untouched, StoresInStep, WorkerInStep
<1>10. QED
  BY <1>1, <1>2, <1>3, <1>4, <1>5, <1>6, <1>7, <1>8, <1>9, <1>i, StepsElsewhere

\* No step leaves a worker without its job.
LEMMA JobsStep ==
    ASSUME IInv, NoJobNoWorker, [Next]_vars
    PROVE  NoJobNoWorker'
<1> SUFFICES ASSUME NEW q \in Batches  PROVE job'[q] = "idle" => worker'[q].pc = "none"
  BY DEF NoJobNoWorker
<1>q. job[q] = "idle" => worker[q].pc = "none"
  BY DEF NoJobNoWorker
<1>i. TypeOK /\ CancellersKnowWhom /\ DeletersKnowWhom
  BY DEF IInv
<1>n. NoWorker.pc = "none"
  BY DEF NoWorker
<1>1. CASE CreateStep(q)
  <2>1. CreateMove(q)
    BY <1>1, <1>i, CreateMoves
  <2>2. QED BY ONLY <2>1, <1>q DEF CreateMove, Spawned, Becomes
<1>2. CASE WorkerStep(q)
  <2>1. WorkerMove(q) /\ (job'[q] = "idle" => Stops(q) \/ job[q] = "idle")
    BY <1>2, <1>i, WorkerMoves
  <2>2. QED BY ONLY <2>1, <1>q, <1>n DEF WorkerMove, Stops
<1>3. ASSUME NEW c \in Cancels, CancelStep(c)  PROVE UNCHANGED <<job, worker>>
  BY <1>3, <1>i, CancelMoves
<1>4. ASSUME NEW d \in Deletes, DeleteStep(d)  PROVE UNCHANGED <<job, worker>>
  BY <1>4, <1>i, DeleteMoves
<1>5. CASE RecoveryStep
  <2>1. \/ worker'[q] = worker[q] /\ job'[q] = job[q]
        \/ Spawned(q, recovery.seen[q])
    BY <1>5, <1>i, RecoveryMoves
  <2>2. QED BY ONLY <2>1, <1>q DEF Spawned, Becomes
<1>6. CASE WorkerFault(q)
  <2>1. worker[q].pc \in {"load", "write", "put"} /\ (job'[q] = job[q] \/ Stops(q))
    BY <1>6, <1>i, FaultMoves
  <2>2. QED BY ONLY <2>1, <1>q, <1>n DEF Stops
<1>7. CASE HandlerFault \/ HandlerDropped
  BY <1>7, <1>i, <1>q, HandlerMoves
<1>8. CASE Crash
  BY <1>8, <1>i, <1>n, CrashMoves DEF Stops
<1>9. CASE Untouched(q)
  BY <1>9, <1>q DEF Untouched
<1>10. QED
  BY <1>1, <1>2, <1>3, <1>4, <1>5, <1>6, <1>7, <1>8, <1>9, <1>q, <1>i, StepsElsewhere

\* Each part of the invariant holds at the start.
LEMMA InvInit == Init => IInv /\ NoJobNoWorker
<1> SUFFICES ASSUME Init  PROVE IInv /\ NoJobNoWorker
  OBVIOUS
<1>1. TypeOK
  <2>1. /\ [pc |-> "new", batch |-> None, copy |-> NoRecord] \in Canceller
        /\ [pc |-> "new", batch |-> None] \in Deleter
    BY ConstantTypes DEF Canceller, Deleter
  <2>2. QED
    BY <2>1, ConstantTypes, BoundsAssumption DEF Init, TypeOK, Jobs!JobTypeOK, Jobs!JobInit
<1>2. CancelsComeFromClients
  BY DEF Init, CancelsComeFromClients, CancelComesFromClient, SaysCanceled, HasCanceled, NoRecord,
         NoWorker, BootRecovery, Jobs!JobInit
<1>3. CancellersKnowWhom /\ DeletersKnowWhom
  BY DEF Init, CancellersKnowWhom, DeletersKnowWhom
<1>4. UnknownUntilStored
  BY DEF Init, UnknownUntilStored, NoRecord, NoWorker, BootRecovery
<1>5. LinesArePerRequest /\ NoJobNoWorker
  BY DEF Init, LinesArePerRequest, OneLineEach, NoWorker, NoJobNoWorker
<1>6. WorkersInStep
  BY DEF Init, WorkersInStep, StoresInStep, WorkerInStep, NoRecord, NoWorker
<1>7. QED BY <1>1, <1>2, <1>3, <1>4, <1>5, <1>6 DEF IInv

\* Every step keeps the invariant.
LEMMA InvStep ==
    ASSUME IInv, [Next]_vars
    PROVE  IInv'
<1>1. TypeOK /\ CancellersKnowWhom /\ DeletersKnowWhom
  BY DEF IInv
<1>2. QED BY <1>1, TypeStep, HandlersStep, CancelsStep, UnknownStep, LinesStep, InStepStep DEF IInv

\* The invariant holds in every reachable state.
LEMMA Invariance == Spec => []IInv
<1>1. IInv /\ [Next]_vars => IInv'
  BY InvStep
<1>2. QED BY InvInit, <1>1, PTL DEF Spec

-----------------------------------------------------------------------------
(* The theorems *)

\* Every variable of the message batches keeps its type.
THEOREM TypeCorrect == Spec => []TypeOK
<1>1. IInv => TypeOK
  BY DEF IInv
<1>2. QED BY Invariance, <1>1, PTL

\* What a client reads of a batch is true of one run of its requests: the counts
\* of an ended record are those of its lines unless a store call has failed or
\* the batch was deleted or run again, each request has one line, and no request
\* is reported canceled that nobody has cancelled: ResultsAreTrue of the run.
THEOREM ResultsAlwaysTrue == Spec => []ResultsAreTrue
<1>1. ASSUME IInv  PROVE EndedMatchesResults
  <2> SUFFICES ASSUME NEW b \in Batches, rec[b].status = "ended", ~Disturbed(b)
               PROVE  Results(b)[1] = "lines" /\ rec[b].counts = CountsOf(Results(b)[2])
    BY DEF EndedMatchesResults, Disturbed
  <2>1. results[b] # {} /\ rec[b].counts = CountsOf(results[b])
    BY <1>1 DEF IInv, WorkersInStep, StoresInStep
  <2>2. rec[b] # NoRecord
    BY DEF NoRecord
  <2>3. Results(b) = <<"lines", results[b]>>
    BY <2>1, <2>2 DEF Results
  <2>4. QED BY <2>1, <2>3
<1>2. IInv => OneLinePerRequest
  BY DEF IInv, LinesArePerRequest, OneLineEach, OneLinePerRequest
<1>3. ASSUME IInv  PROVE CanceledWasAsked
  <2> SUFFICES ASSUME NEW b \in Batches, b \notin asked
               PROVE  rec[b].status # "canceling" /\ Tally(results[b], "canceled") = 0
    BY DEF CanceledWasAsked
  <2>1. ~SaysCanceled(rec[b]) /\ ~HasCanceled(results[b])
    BY <1>3 DEF IInv, CancelsComeFromClients, CancelComesFromClient
  <2>2. QED BY <2>1, TallyOfNone DEF SaysCanceled
<1>4. IInv => ResultsAreTrue
  BY <1>1, <1>2, <1>3 DEF IInv, ResultsAreTrue
<1>5. QED BY Invariance, <1>4, PTL

\* Nothing but a deletion changes a settled batch.
LEMMA SettledStep ==
    ASSUME IInv, NoJobNoWorker, NEW q \in Batches, Settled(q), [Next]_vars
    PROVE  rec'[q] \in {rec[q], NoRecord} /\ Settled(q)'
<1>i. TypeOK /\ CancellersKnowWhom /\ DeletersKnowWhom
  BY DEF IInv
<1>w. worker[q].pc = "none" /\ job[q] = "idle" /\ creator[q] = "done"
  BY DEF NoJobNoWorker, Settled
<1>r. rec[q].status \notin Active /\ recovery.seen[q].status \notin Active
  BY DEF Settled
<1>n. NoRecord.status \notin Active
  BY DEF NoRecord, Active
<1>p. \A c \in Cancels : ~(canceller[c].pc = "put" /\ canceller[c].batch = q)
  BY DEF Settled
<1> DEFINE NoPut == \A c \in Cancels : ~(canceller'[c].pc = "put" /\ canceller'[c].batch = q)
           Kept == /\ rec'[q] \in {rec[q], NoRecord} /\ creator'[q] = "done" /\ job'[q] = "idle"
                   /\ recovery'.seen[q] \in {recovery.seen[q], rec[q], NoRecord}
<1>k. ASSUME Kept, NoPut
      PROVE  rec'[q] \in {rec[q], NoRecord} /\ Settled(q)'
  BY ONLY <1>k, <1>r, <1>n DEF Settled, Active
<1>1. ~CreateStep(q) /\ ~WorkerStep(q) /\ ~WorkerFault(q)
  <2>1. ~CreateStep(q)
    BY <1>w, <1>i, CreateMoves DEF CreateMove
  <2>2. ~WorkerStep(q)
    BY <1>w, <1>i, WorkerMoves DEF WorkerMove
  <2>3. ~WorkerFault(q)
    BY <1>w, <1>i, FaultMoves
  <2>4. QED BY <2>1, <2>2, <2>3
<1>2. ASSUME NEW c \in Cancels, CancelStep(c)  PROVE Kept /\ NoPut
  <2>1. rec'[q] = rec[q] /\ UNCHANGED <<job, creator, recovery>>
    BY <1>2, <1>i, <1>p, CancelMoves
  <2>2. NoPut
    BY <1>2, <1>i, <1>p, <1>r, CancelMoves
  <2>3. QED BY <2>1, <2>2, <1>w
<1>3. ASSUME NEW d \in Deletes, DeleteStep(d)  PROVE Kept /\ NoPut
  BY <1>3, <1>i, <1>w, <1>p, DeleteMoves
<1>4. ASSUME RecoveryStep  PROVE Kept /\ NoPut
  <2>1. /\ Stores(q, rec[q], results[q]) /\ UNCHANGED <<creator, canceller>> /\ job'[q] = job[q]
        /\ recovery'.seen[q] \in {recovery.seen[q], rec[q], NoRecord}
    BY <1>4, <1>i, <1>r, RecoveryMoves
  <2>2. QED BY <1>w, <1>p, <2>1 DEF Stores
<1>5. ASSUME HandlerFault \/ HandlerDropped  PROVE Kept /\ NoPut
  <2>1. /\ UNCHANGED <<rec, job, recovery>> /\ creator'[q] = "done"
        /\ \A c \in Cancels : /\ canceller'[c].batch = canceller[c].batch
                              /\ canceller'[c].pc # canceller[c].pc => canceller'[c].pc = "done"
    BY <1>5, <1>i, <1>w, HandlerMoves
  <2>2. QED BY <2>1, <1>w, <1>p
<1>6. ASSUME Crash  PROVE Kept /\ NoPut
  <2>1. /\ rec'[q] = rec[q] /\ job'[q] = "idle" /\ creator'[q] = "done" /\ recovery'.seen[q] = NoRecord
        /\ \A c \in Cancels : /\ canceller'[c].batch = canceller[c].batch
                              /\ canceller'[c].pc # canceller[c].pc => canceller'[c].pc = "done"
    BY <1>6, <1>i, <1>w, CrashMoves DEF Stops, Stores
  <2>2. QED BY <2>1, <1>p
<1>7. ASSUME Untouched(q), UNCHANGED canceller  PROVE Kept /\ NoPut
  BY <1>7, <1>w, <1>p DEF Untouched
<1>8. QED
  <2> HIDE DEF Kept, NoPut
  <2>1. QED BY <1>k, <1>1, <1>2, <1>3, <1>4, <1>5, <1>6, <1>7, <1>i, StepsElsewhere

\* A batch that has ended or is deleted, and of which nobody holds an older copy,
\* changes by deletion only: through later calls, failures and restarts no result
\* is lost and no deleted batch comes back.
THEOREM SettledStays == Spec => SettledIsFinal
<1>1. IInv /\ NoJobNoWorker /\ [Next]_vars => IInv' /\ NoJobNoWorker'
  BY InvStep, JobsStep
<1>2. IInv /\ NoJobNoWorker /\ [Next]_vars =>
         [\A b \in Batches : Settled(b) => rec'[b] \in {rec[b], NoRecord} /\ Settled(b)']_vars
  BY SettledStep
<1>3. QED BY InvInit, <1>1, <1>2, PTL DEF Spec, SettledIsFinal

=============================================================================
