--------------------------- MODULE AnthropicBatches ---------------------------
(***************************************************************************)
(* Anthropic Message Batches: crates/api-server/src/batch_api.rs on top of *)
(* the durable store (durable.rs) and the job runtime (JobScheduler).      *)
(*                                                                         *)
(* A batch is three objects of the store: the input blob, the record and   *)
(* the results blob.  As in OpenAiBatches the handlers and the worker      *)
(* share only the store, write back copies they took earlier, and may be   *)
(* interrupted between two store calls.  Unlike there, the client may      *)
(* delete an ended batch, so that a stale copy can also bring one back.    *)
(***************************************************************************)
EXTENDS Naturals, FiniteSets

CONSTANTS Batches,           \* batch ids; each is created at most once (UUIDs)
          Items,             \* the custom_ids of the requests of a batch
          Whole,             \* the custom_id "_batch" of a failed batch
          ItemConcurrency,   \* MIYA_BATCH_ITEM_CONCURRENCY
          MaxConcurrentJobs, \* MIYA_MAX_CONCURRENT_JOBS
          Cancels,           \* calls of POST /v1/messages/batches/{id}/cancel
          Deletes,           \* calls of DELETE /v1/messages/batches/{id}
          None,              \* None of an Option<id>
          MaxCrashes,        \* bound on crashes of the server
          MaxFaults,         \* bound on failing store calls
          MaxDrops           \* bound on handlers dropped by a client disconnect

\* A batch has 1 to MAX_ANTHROPIC_BATCH_REQUESTS requests; one of them may have the
\* custom_id of a failed batch.
ASSUME ItemsAssumption == IsFiniteSet(Items) /\ Items # {}
ASSUME BoundsAssumption == MaxCrashes \in Nat /\ MaxFaults \in Nat /\ MaxDrops \in Nat

VARIABLES rec,       \* durable: rec[b], the batch record
          input,     \* durable: batches whose input blob exists
          results,   \* durable: results[b], the lines of the blob, {} without one
          job, token,\* the job runtime's view of each batch
          worker,    \* worker[b]: the task of b's job
          creator, canceller, deleter, \* the handlers
          recovery,  \* the part of recover_durable_jobs for these batches
          crashes, faults, drops,
          asked,     \* history: batches on which a cancel has been written
          removed,   \* history: batches whose record a client has deleted
          rerun      \* history: batches run again after they had ended

durable  == <<rec, input, results>>
handlers == <<creator, canceller, deleter>>
budgets  == <<crashes, faults, drops>>
history  == <<asked, removed, rerun>>
vars == <<durable, job, token, worker, handlers, recovery, budgets, history>>

Jobs == INSTANCE JobScheduler WITH Keys <- Batches

-----------------------------------------------------------------------------
(* Records and results *)

Active == {"in_progress", "canceling"}

Counts == [processing : Nat, succeeded : Nat, errored : Nat, canceled : Nat]

NoCounts == [processing |-> 0, succeeded |-> 0, errored |-> 0, canceled |-> 0]

Record == [status : {"none", "ended"} \cup Active, cancel_requested : BOOLEAN, counts : Counts]

NoRecord == [status |-> "none", cancel_requested |-> FALSE, counts |-> NoCounts]

NewRecord == [status |-> "in_progress", cancel_requested |-> FALSE,
              counts |-> [NoCounts EXCEPT !.processing = Cardinality(Items)]]

\* A line of the results: a custom_id and what became of the request.
Lines == (Items \cup {Whole}) \X {"succeeded", "errored", "canceled"}

AllCanceled == Items \X {"canceled"}
FailureLine == {<<Whole, "errored">>}

Tally(lines, outcome) == Cardinality({line \in lines : line[2] = outcome})

CountsOf(lines) == [processing |-> 0,
                    succeeded |-> Tally(lines, "succeeded"),
                    errored |-> Tally(lines, "errored"),
                    canceled |-> Tally(lines, "canceled")]

ItemStates == {"pending", "inflight", "succeeded", "errored", "canceled"}

NoWorker == [pc |-> "none", snap |-> NoRecord, item |-> [i \in Items |-> "pending"],
             lines |-> {}, failed |-> FALSE]

Worker == [pc : {"none", "spawned", "load", "items", "write", "put"}, snap : Record,
           item : [Items -> ItemStates], lines : SUBSET Lines, failed : BOOLEAN]

Canceller == [pc : {"new", "put", "signal", "done"}, batch : Batches \cup {None}, copy : Record]

Deleter == [pc : {"new", "record", "input", "results", "done"}, batch : Batches \cup {None}]

Recovery == [pc : {"names", "read", "spawn", "done", "failed"}, unread : SUBSET Batches,
             seen : [Batches -> Record]]

BootRecovery == [pc |-> "names", unread |-> {}, seen |-> [b \in Batches |-> NoRecord]]

TypeOK ==
    /\ rec \in [Batches -> Record]
    /\ input \subseteq Batches
    /\ results \in [Batches -> SUBSET Lines]
    /\ Jobs!JobTypeOK
    /\ worker \in [Batches -> Worker]
    /\ creator \in [Batches -> {"new", "record", "undo", "spawn", "done"}]
    /\ canceller \in [Cancels -> Canceller] /\ deleter \in [Deletes -> Deleter]
    /\ recovery \in Recovery
    /\ crashes \in 0..MaxCrashes /\ faults \in 0..MaxFaults /\ drops \in 0..MaxDrops
    /\ asked \subseteq Batches /\ removed \subseteq Batches /\ rerun \subseteq Batches

Init ==
    /\ rec = [b \in Batches |-> NoRecord]
    /\ input = {} /\ results = [b \in Batches |-> {}]
    /\ Jobs!JobInit
    /\ worker = [b \in Batches |-> NoWorker]
    /\ creator = [b \in Batches |-> "new"]
    /\ canceller = [c \in Cancels |-> [pc |-> "new", batch |-> None, copy |-> NoRecord]]
    /\ deleter = [d \in Deletes |-> [pc |-> "new", batch |-> None]]
    /\ recovery = BootRecovery
    /\ crashes = 0 /\ faults = 0 /\ drops = 0
    /\ asked = {} /\ removed = {} /\ rerun = {}

-----------------------------------------------------------------------------
(* POST /v1/messages/batches: the input, the record, the worker.           *)

Spawn(b, snapshot) ==
    \/ /\ Jobs!EnqueueJob(b)
       /\ worker' = [worker EXCEPT ![b] =
                        [NoWorker EXCEPT !.pc = "spawned", !.snap = snapshot]]
    \/ /\ Jobs!RefuseJob(b)
       /\ UNCHANGED worker

CreateInput(b) ==
    /\ creator[b] = "new"
    /\ input' = input \cup {b}
    /\ creator' = [creator EXCEPT ![b] = "record"]
    /\ UNCHANGED <<rec, results, job, token, worker, canceller, deleter, recovery, budgets, history>>

CreateRecord(b) ==
    /\ creator[b] = "record"
    /\ rec' = [rec EXCEPT ![b] = NewRecord]
    /\ creator' = [creator EXCEPT ![b] = "spawn"]
    /\ UNCHANGED <<input, results, job, token, worker, canceller, deleter, recovery, budgets, history>>

\* The record could not be stored: the input is deleted again.
CreateUndo(b) ==
    /\ creator[b] = "undo"
    /\ input' = input \ {b}
    /\ creator' = [creator EXCEPT ![b] = "done"]
    /\ UNCHANGED <<rec, results, job, token, worker, canceller, deleter, recovery, budgets, history>>

CreateSpawn(b) ==
    /\ creator[b] = "spawn"
    /\ Spawn(b, NewRecord)
    /\ creator' = [creator EXCEPT ![b] = "done"]
    /\ UNCHANGED <<durable, canceller, deleter, recovery, budgets, history>>

-----------------------------------------------------------------------------
(* POST /v1/messages/batches/{id}/cancel *)

\* The handler reads the record; an ended one is refused.
CancelRead(c, b) ==
    /\ canceller[c].pc = "new"
    /\ rec[b].status \in Active
    /\ canceller' = [canceller EXCEPT ![c] = [pc |-> "put", batch |-> b, copy |-> rec[b]]]
    /\ UNCHANGED <<durable, job, token, worker, creator, deleter, recovery, budgets, history>>

CancelPut(c) ==
    LET b == canceller[c].batch IN
    /\ canceller[c].pc = "put"
    /\ rec' = [rec EXCEPT ![b] = [canceller[c].copy EXCEPT !.status = "canceling",
                                                           !.cancel_requested = TRUE]]
    /\ canceller' = [canceller EXCEPT ![c].pc = "signal"]
    /\ asked' = asked \cup {b}
    /\ UNCHANGED <<input, results, job, token, worker, creator, deleter, recovery, budgets,
                   removed, rerun>>

CancelSignal(c) ==
    /\ canceller[c].pc = "signal"
    /\ Jobs!CancelJob(canceller[c].batch)
    /\ canceller' = [canceller EXCEPT ![c].pc = "done"]
    /\ UNCHANGED <<durable, worker, creator, deleter, recovery, budgets, history>>

-----------------------------------------------------------------------------
(* DELETE /v1/messages/batches/{id}: the record goes first, then the blobs *)

DeleteRead(d, b) ==
    /\ deleter[d].pc = "new"
    /\ rec[b].status = "ended"
    /\ deleter' = [deleter EXCEPT ![d] = [pc |-> "record", batch |-> b]]
    /\ UNCHANGED <<durable, job, token, worker, creator, canceller, recovery, budgets, history>>

DeleteRecord(d) ==
    LET b == deleter[d].batch IN
    /\ deleter[d].pc = "record"
    /\ rec' = [rec EXCEPT ![b] = NoRecord]
    /\ removed' = removed \cup {b}
    /\ deleter' = [deleter EXCEPT ![d].pc = "input"]
    /\ UNCHANGED <<input, results, job, token, worker, creator, canceller, recovery, budgets,
                   asked, rerun>>

DeleteInput(d) ==
    /\ deleter[d].pc = "input"
    /\ input' = input \ {deleter[d].batch}
    /\ deleter' = [deleter EXCEPT ![d].pc = "results"]
    /\ UNCHANGED <<rec, results, job, token, worker, creator, canceller, recovery, budgets, history>>

DeleteResults(d) ==
    /\ deleter[d].pc = "results"
    /\ results' = [results EXCEPT ![deleter[d].batch] = {}]
    /\ deleter' = [deleter EXCEPT ![d].pc = "done"]
    /\ UNCHANGED <<rec, input, job, token, worker, creator, canceller, recovery, budgets, history>>

-----------------------------------------------------------------------------
(* The worker: run_anthropic_batch, finish_cancelled_anthropic_batch, and  *)
(* fail_anthropic_batch when one of them returns an error.                 *)

SetWorker(b, w) == worker' = [worker EXCEPT ![b] = w]

InState(w, state) == {i \in Items : w.item[i] = state}

Finish(w, lines) == [w EXCEPT !.pc = "write", !.lines = lines]

Fail(w) == [w EXCEPT !.pc = "write", !.lines = FailureLine, !.failed = TRUE]

BeginRun(b) ==
    /\ worker[b].pc = "spawned"
    /\ Jobs!StartJob(b)
    /\ SetWorker(b, [worker[b] EXCEPT !.pc = "load"])
    /\ rerun' = IF rec[b].status = "ended" THEN rerun \cup {b} ELSE rerun
    /\ UNCHANGED <<durable, handlers, recovery, budgets, asked, removed>>

\* A batch that is cancelled by now gets a canceled line for each request.
LoadInput(b) ==
    LET w == worker[b] IN
    /\ w.pc = "load"
    /\ \/ /\ b \notin input
          /\ SetWorker(b, Fail(w))
       \/ /\ b \in input
          /\ w.snap.cancel_requested \/ token[b] = "cancelled"
          /\ SetWorker(b, Finish(w, AllCanceled))
       \/ /\ b \in input
          /\ ~w.snap.cancel_requested /\ token[b] # "cancelled"
          /\ SetWorker(b, [w EXCEPT !.pc = "items"])
    /\ UNCHANGED <<durable, job, token, handlers, recovery, budgets, history>>

StartItem(b, i) ==
    LET w == worker[b] IN
    /\ w.pc = "items" /\ w.item[i] = "pending"
    /\ Cardinality(InState(w, "inflight")) < ItemConcurrency
    /\ SetWorker(b, [w EXCEPT !.item[i] = "inflight"])
    /\ UNCHANGED <<durable, job, token, handlers, recovery, budgets, history>>

FinishItem(b, i) ==
    LET w == worker[b] IN
    /\ w.pc = "items" /\ w.item[i] = "inflight"
    /\ \E outcome \in {"succeeded", "errored"} : SetWorker(b, [w EXCEPT !.item[i] = outcome])
    /\ UNCHANGED <<durable, job, token, handlers, recovery, budgets, history>>

\* Mutant of CancelItem: the request is given up without a cancellation.
GiveUpItem(b, i) ==
    LET w == worker[b] IN
    /\ w.pc = "items" /\ w.item[i] = "inflight"
    /\ SetWorker(b, [w EXCEPT !.item[i] = "canceled"])
    /\ UNCHANGED <<durable, job, token, handlers, recovery, budgets, history>>

CancelItem(b, i) ==
    LET w == worker[b] IN
    /\ w.pc = "items" /\ w.item[i] = "inflight"
    /\ token[b] = "cancelled"
    /\ SetWorker(b, [w EXCEPT !.item[i] = "canceled"])
    /\ UNCHANGED <<durable, job, token, handlers, recovery, budgets, history>>

\* One line per request; a cancellation that comes now has no effect any more.
Collect(b) ==
    LET w == worker[b] IN
    /\ w.pc = "items"
    /\ InState(w, "pending") = {} /\ InState(w, "inflight") = {}
    /\ SetWorker(b, Finish(w, {<<i, w.item[i]>> : i \in Items}))
    /\ UNCHANGED <<durable, job, token, handlers, recovery, budgets, history>>

\* Mutant of WriteResults: the lines are appended to those of an earlier run.
AppendResults(b) ==
    /\ worker[b].pc = "write"
    /\ results' = [results EXCEPT ![b] = @ \cup worker[b].lines]
    /\ SetWorker(b, [worker[b] EXCEPT !.pc = "put"])
    /\ UNCHANGED <<rec, input, job, token, handlers, recovery, budgets, history>>

WriteResults(b) ==
    /\ worker[b].pc = "write"
    /\ results' = [results EXCEPT ![b] = worker[b].lines]
    /\ SetWorker(b, [worker[b] EXCEPT !.pc = "put"])
    /\ UNCHANGED <<rec, input, job, token, handlers, recovery, budgets, history>>

\* The failure path keeps the counts of the snapshot, the others count anew.
EndedRecord(w) ==
    [w.snap EXCEPT !.status = "ended",
        !.counts = IF w.failed
                   THEN [w.snap.counts EXCEPT !.processing = 0,
                                              !.errored = IF @ = 0 THEN 1 ELSE @]
                   ELSE CountsOf(w.lines)]

PutEnded(b) ==
    /\ worker[b].pc = "put"
    /\ rec' = [rec EXCEPT ![b] = EndedRecord(worker[b])]
    /\ Jobs!FinishJob(b)
    /\ SetWorker(b, NoWorker)
    /\ UNCHANGED <<input, results, handlers, recovery, budgets, history>>

-----------------------------------------------------------------------------
(* recover_durable_jobs: list_all_json takes the names in the directory,   *)
(* then reads the files one by one; the spawns come after the list.        *)

RecoverNames ==
    /\ recovery.pc = "names"
    /\ LET names == {b \in Batches : rec[b].status # "none"} IN
       recovery' = [recovery EXCEPT !.unread = names,
                                    !.pc = IF names = {} THEN "spawn" ELSE "read"]
    /\ UNCHANGED <<durable, job, token, worker, handlers, budgets, history>>

\* A record deleted since its name was taken fails the list, and with it the
\* recovery of every batch.
RecoverRead(b) ==
    /\ recovery.pc = "read" /\ b \in recovery.unread
    /\ \/ /\ rec[b].status # "none"
          /\ recovery' = [recovery EXCEPT !.unread = @ \ {b}, !.seen[b] = rec[b],
                              !.pc = IF recovery.unread = {b} THEN "spawn" ELSE "read"]
       \/ /\ rec[b].status = "none"
          /\ recovery' = [BootRecovery EXCEPT !.pc = "failed"]
    /\ UNCHANGED <<durable, job, token, worker, handlers, budgets, history>>

\* Mutant of RecoverSpawn: ended batches are run again.
RecoverSpawnAll(b) ==
    /\ recovery.pc = "spawn"
    /\ recovery.seen[b].status # "none"
    /\ Spawn(b, recovery.seen[b])
    /\ recovery' = [recovery EXCEPT !.seen[b] = NoRecord]
    /\ UNCHANGED <<durable, handlers, budgets, history>>

RecoverSpawn(b) ==
    /\ recovery.pc = "spawn"
    /\ recovery.seen[b].status \in Active
    /\ Spawn(b, recovery.seen[b])
    /\ recovery' = [recovery EXCEPT !.seen[b] = NoRecord]
    /\ UNCHANGED <<durable, handlers, budgets, history>>

\* Mutant of RecoverDone: batches without a cancel are left out.
RecoverDoneEarly ==
    /\ recovery.pc = "spawn"
    /\ \A b \in Batches : recovery.seen[b].status # "canceling"
    /\ recovery' = [BootRecovery EXCEPT !.pc = "done"]
    /\ UNCHANGED <<durable, job, token, worker, handlers, budgets, history>>

RecoverDone ==
    /\ recovery.pc = "spawn"
    /\ \A b \in Batches : recovery.seen[b].status \notin Active
    /\ recovery' = [BootRecovery EXCEPT !.pc = "done"]
    /\ UNCHANGED <<durable, job, token, worker, handlers, budgets, history>>

-----------------------------------------------------------------------------
(* What goes wrong *)

\* A store call of the worker fails.  The failure path ignores its own errors.
WorkerFault(b) ==
    LET w == worker[b] IN
    /\ faults < MaxFaults
    /\ w.pc \in {"load", "write", "put"}
    /\ \/ /\ ~w.failed
          /\ SetWorker(b, Fail(w))
          /\ UNCHANGED <<job, token>>
       \/ /\ w.failed /\ w.pc = "write"
          /\ SetWorker(b, [w EXCEPT !.pc = "put"])
          /\ UNCHANGED <<job, token>>
       \/ /\ w.failed /\ w.pc = "put"
          /\ SetWorker(b, NoWorker)
          /\ Jobs!FinishJob(b)
    /\ faults' = faults + 1
    /\ UNCHANGED <<durable, handlers, recovery, crashes, drops, history>>

CreatorEnds(b, at, then) ==
    /\ creator[b] \in at
    /\ creator' = [creator EXCEPT ![b] = then]
    /\ UNCHANGED <<canceller, deleter>>

CancellerEnds(c, at) ==
    /\ canceller[c].pc \in at
    /\ canceller' = [canceller EXCEPT ![c].pc = "done"]
    /\ UNCHANGED <<creator, deleter>>

DeleterGoes(d, at, then) ==
    /\ deleter[d].pc \in at
    /\ deleter' = [deleter EXCEPT ![d].pc = then]
    /\ UNCHANGED <<creator, canceller>>

\* A writing store call of a handler fails: it answers 500 and stops, except
\* that create undoes its first call and delete ignores errors on the blobs.
HandlerFault ==
    /\ faults < MaxFaults
    /\ \/ \E b \in Batches : CreatorEnds(b, {"new", "undo"}, "done")
       \/ \E b \in Batches : CreatorEnds(b, {"record"}, "undo")
       \/ \E c \in Cancels : CancellerEnds(c, {"put"})
       \/ \E d \in Deletes : \/ DeleterGoes(d, {"record", "results"}, "done")
                             \/ DeleterGoes(d, {"input"}, "results")
    /\ faults' = faults + 1
    /\ UNCHANGED <<durable, job, token, worker, recovery, crashes, drops, history>>

HandlerDropped ==
    /\ drops < MaxDrops
    /\ \/ \E b \in Batches : CreatorEnds(b, {"record", "undo", "spawn"}, "done")
       \/ \E c \in Cancels : CancellerEnds(c, {"put", "signal"})
       \/ \E d \in Deletes : DeleterGoes(d, {"record", "input", "results"}, "done")
    /\ drops' = drops + 1
    /\ UNCHANGED <<durable, job, token, worker, recovery, crashes, faults, history>>

Crash ==
    /\ crashes < MaxCrashes
    /\ crashes' = crashes + 1
    /\ Jobs!StopAllJobs
    /\ worker' = [b \in Batches |-> NoWorker]
    /\ creator' = [b \in Batches |-> IF creator[b] = "new" THEN "new" ELSE "done"]
    /\ canceller' = [c \in Cancels |-> IF canceller[c].pc = "new" THEN canceller[c]
                                       ELSE [canceller[c] EXCEPT !.pc = "done"]]
    /\ deleter' = [d \in Deletes |-> IF deleter[d].pc = "new" THEN deleter[d]
                                     ELSE [deleter[d] EXCEPT !.pc = "done"]]
    /\ recovery' = BootRecovery
    /\ UNCHANGED <<durable, faults, drops, history>>

-----------------------------------------------------------------------------
HandlerStep ==
    \/ \E b \in Batches : CreateInput(b) \/ CreateRecord(b) \/ CreateUndo(b) \/ CreateSpawn(b)
    \/ \E c \in Cancels : CancelPut(c) \/ CancelSignal(c) \/ \E b \in Batches : CancelRead(c, b)
    \/ \E d \in Deletes : \/ DeleteRecord(d) \/ DeleteInput(d) \/ DeleteResults(d)
                          \/ \E b \in Batches : DeleteRead(d, b)

WorkerStep(b) ==
    \/ BeginRun(b) \/ LoadInput(b)
    \/ \E i \in Items : StartItem(b, i) \/ FinishItem(b, i) \/ CancelItem(b, i)
    \/ Collect(b) \/ WriteResults(b) \/ PutEnded(b)

RecoveryStep ==
    RecoverNames \/ (\E b \in Batches : RecoverRead(b) \/ RecoverSpawn(b)) \/ RecoverDone

Trouble == (\E b \in Batches : WorkerFault(b)) \/ HandlerFault \/ HandlerDropped \/ Crash

Next == HandlerStep \/ (\E b \in Batches : WorkerStep(b)) \/ RecoveryStep \/ Trouble

Spec == Init /\ [][Next]_vars

\* As in OpenAiBatches: scheduled tasks run, requests are answered within the
\* request timeout, and the job semaphore is fair.
Fairness ==
    /\ \A b \in Batches : /\ WF_vars(WorkerStep(b)) /\ SF_vars(BeginRun(b))
                          /\ WF_vars(CreateSpawn(b))
    /\ WF_vars(RecoveryStep)

FairSpec == Spec /\ Fairness

-----------------------------------------------------------------------------
(* What clients read *)

\* The answer to a request for the results of b, and the lines in it, if nothing is
\* deleted between the reads of its record and of its lines (otherwise "missing").
Results(b) == CASE rec[b] = NoRecord -> <<"not found", {}>>
                [] rec[b].status # "ended" -> <<"not ended", {}>>
                [] results[b] = {} -> <<"missing", {}>>
                [] OTHER -> <<"lines", results[b]>>

-----------------------------------------------------------------------------
(* Properties *)

\* An ended batch has its results, and the counts of the record are those of
\* the lines: across crashes and cancels, unless a store call failed, a client
\* has deleted the batch, or recovery has run it again after its end.
EndedMatchesResults ==
    \A b \in Batches : rec[b].status = "ended" =>
        \/ Results(b)[1] = "lines" /\ rec[b].counts = CountsOf(Results(b)[2])
        \/ faults > 0 \/ b \in removed \/ b \in rerun

\* The results have one line per request, or the one line of a failed batch;
\* never a mixture of two runs.
OneLinePerRequest ==
    \A b \in Batches :
        \/ results[b] \in {{}, FailureLine}
        \/ /\ {line[1] : line \in results[b]} = Items
           /\ Cardinality(results[b]) = Cardinality(Items)

\* No request is reported canceled in a batch that nobody has cancelled.
CanceledWasAsked ==
    \A b \in Batches : rec[b].status = "canceling" \/ Tally(results[b], "canceled") > 0 => b \in asked

\* What a client can read of a batch is true of one run of its requests: counts
\* and lines agree, each request has one line, and cancellations were asked for.
ResultsAreTrue == TypeOK /\ EndedMatchesResults /\ OneLinePerRequest /\ CanceledWasAsked

\* What may leave an active batch behind until the next restart.
Excused(b) == b \in asked \/ faults > 0 \/ drops > 0 \/ recovery.pc = "failed"

\* A batch that has ended or is deleted, and of which nobody holds an older
\* copy.
Settled(b) ==
    /\ rec[b].status \notin Active /\ creator[b] = "done"
    /\ job[b] = "idle" /\ recovery.seen[b].status \notin Active
    /\ \A c \in Cancels : ~(canceller[c].pc = "put" /\ canceller[c].batch = b)

\* From then on the record changes only by deletion: no result is lost and
\* no deleted batch comes back, through later calls, failures and restarts.
SettledIsFinal ==
    [][\A b \in Batches : Settled(b) =>
          rec'[b] \in {rec[b], NoRecord} /\ Settled(b)']_vars

\* Every stored batch ends or is deleted, or has one of the excuses; every job
\* leaves the runtime again in any case.
EveryBatchEnds ==
    \A b \in Batches :
        /\ rec[b].status \in Active ~> rec[b].status \notin Active \/ Excused(b)
        /\ job[b] # "idle" ~> job[b] = "idle"

=============================================================================
