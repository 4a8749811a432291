---------------------------- MODULE OpenAiBatches ----------------------------
(***************************************************************************)
(* OpenAI Files and Batches: crates/api-server/src/batch_api.rs on top of  *)
(* the durable store (durable.rs) and the job runtime (JobScheduler).      *)
(*                                                                         *)
(* Every handler and the worker of a batch run concurrently and share only *)
(* the durable store.  Each works on a copy of the batch record it took    *)
(* earlier and writes the whole copy back, so each store call is one step  *)
(* here and anything may happen between two of them.  The server may crash *)
(* between any two steps; the store survives, everything else is lost.     *)
(***************************************************************************)
EXTENDS Naturals, FiniteSets

CONSTANTS Batches,          \* batch ids; each is created at most once (UUIDs)
          InFiles,          \* ids of uploaded files with purpose "batch"
          Malformed,        \* those whose content fails the worker's parse
          Items,            \* requests of an input file
          ItemConcurrency,  \* MIYA_BATCH_ITEM_CONCURRENCY
          MaxConcurrentJobs,\* MIYA_MAX_CONCURRENT_JOBS
          Cancels,          \* calls of POST /v1/batches/{id}/cancel
          Deletes,          \* calls of DELETE /v1/files/{id}
          None,             \* None of an Option<id>
          MaxCrashes,       \* bound on crashes of the server
          MaxFaults,        \* bound on failing store calls
          MaxDrops          \* bound on handlers dropped by a client disconnect

ASSUME ItemsAssumption == IsFiniteSet(Items) /\ Items # {}
ASSUME MalformedAssumption == Malformed \subseteq InFiles
ASSUME BoundsAssumption == MaxCrashes \in Nat /\ MaxFaults \in Nat /\ MaxDrops \in Nat

VARIABLES rec,       \* durable: rec[b], the batch record
          meta,      \* durable: ids of the file objects
          blob,      \* durable: ids of the file contents
          job, token,\* the job runtime's view of each batch
          worker,    \* worker[b]: the task of b's job
          uploader, creator, canceller, deleter, \* the handlers
          recovery,  \* the task recover_durable_jobs
          runs,      \* runs[b]: runs of b's worker so far; names its files
          crashes, faults, drops,
          answered,  \* history: requests of b that got an answer in some run
          asked,     \* history: batches on which a cancel has been written
          removed    \* history: files whose object a client deleted

durable  == <<rec, meta, blob>>
handlers == <<uploader, creator, canceller, deleter>>
budgets  == <<crashes, faults, drops>>
history  == <<answered, asked, removed>>
vars == <<durable, job, token, worker, handlers, recovery, runs, budgets, history>>

Jobs == INSTANCE JobScheduler WITH Keys <- Batches

-----------------------------------------------------------------------------
(* Records *)

Kinds == {"output", "errors", "validation"}
\* A fresh UUID, named by the batch, the file and the run that writes it.
OutFiles == Batches \X Kinds \X Nat
Files == InFiles \cup OutFiles

\* The ids of the uploads and of the written files are distinct UUIDs.
ASSUME IdsAssumption == None \notin OutFiles /\ \A f \in InFiles : f \notin OutFiles

Active   == {"validating", "in_progress", "finalizing", "cancelling"}
Terminal == {"completed", "failed", "cancelled"}

Record == [status : {"none"} \cup Active \cup Terminal,
           input : InFiles \cup {None},
           cancel_requested : BOOLEAN,
           output : OutFiles \cup {None},
           errors : OutFiles \cup {None},
           total : Nat, completed : Nat, failed : Nat]

NoRecord == [status |-> "none", input |-> None, cancel_requested |-> FALSE,
             output |-> None, errors |-> None,
             total |-> 0, completed |-> 0, failed |-> 0]

NewRecord(f) == [NoRecord EXCEPT !.status = "validating", !.input = f]

NoWorker == [pc |-> "none", snap |-> NoRecord, cur |-> NoRecord,
             item |-> [i \in Items |-> "pending"], outcome |-> "none", kind |-> "none"]

ItemStates == {"pending", "inflight", "ok", "error", "cancelled"}
WorkerPcs == {"none", "spawned", "load_meta", "load_blob", "put_in_progress", "items",
              "put_finalizing", "write_blob", "write_meta", "put_final"}

Worker == [pc : WorkerPcs, snap : Record, cur : Record, item : [Items -> ItemStates],
           outcome : {"none"} \cup Terminal, kind : {"none"} \cup Kinds]

Creator == [pc : {"new", "put", "spawn", "done"}, input : InFiles \cup {None}]

Canceller == [pc : {"new", "put", "signal", "done"}, batch : Batches \cup {None}, copy : Record]

Deleter == [pc : {"new", "meta", "blob", "done"}, file : Files \cup {None}]

Recovery == [pc : {"list", "spawn", "done"}, unread : SUBSET Batches,
             seen : [Batches -> Record]]

BootRecovery == [pc |-> "list", unread |-> Batches, seen |-> [b \in Batches |-> NoRecord]]

TypeOK ==
    /\ rec \in [Batches -> Record]
    /\ meta \subseteq Files /\ blob \subseteq Files
    /\ Jobs!JobTypeOK
    /\ worker \in [Batches -> Worker]
    /\ uploader \in [InFiles -> {"new", "meta", "undo", "done"}]
    /\ creator \in [Batches -> Creator]
    /\ canceller \in [Cancels -> Canceller] /\ deleter \in [Deletes -> Deleter]
    /\ recovery \in Recovery
    /\ runs \in [Batches -> Nat]
    /\ crashes \in 0..MaxCrashes /\ faults \in 0..MaxFaults /\ drops \in 0..MaxDrops
    /\ answered \in [Batches -> SUBSET Items]
    /\ asked \subseteq Batches
    /\ removed \subseteq Files

Init ==
    /\ rec = [b \in Batches |-> NoRecord]
    /\ meta = {} /\ blob = {}
    /\ Jobs!JobInit
    /\ worker = [b \in Batches |-> NoWorker]
    /\ uploader = [f \in InFiles |-> "new"]
    /\ creator = [b \in Batches |-> [pc |-> "new", input |-> None]]
    /\ canceller = [c \in Cancels |-> [pc |-> "new", batch |-> None, copy |-> NoRecord]]
    /\ deleter = [d \in Deletes |-> [pc |-> "new", file |-> None]]
    /\ recovery = BootRecovery
    /\ runs = [b \in Batches |-> 0]
    /\ crashes = 0 /\ faults = 0 /\ drops = 0
    /\ answered = [b \in Batches |-> {}]
    /\ asked = {} /\ removed = {}

-----------------------------------------------------------------------------
(* POST /v1/files: the content is stored before the object that names it.  *)

UploadBlob(f) ==
    /\ uploader[f] = "new"
    /\ blob' = blob \cup {f}
    /\ uploader' = [uploader EXCEPT ![f] = "meta"]
    /\ UNCHANGED <<rec, meta, job, token, worker, creator, canceller, deleter,
                   recovery, runs, budgets, history>>

UploadMeta(f) ==
    /\ uploader[f] = "meta"
    /\ meta' = meta \cup {f}
    /\ uploader' = [uploader EXCEPT ![f] = "done"]
    /\ UNCHANGED <<rec, blob, job, token, worker, creator, canceller, deleter,
                   recovery, runs, budgets, history>>

\* The object could not be stored: the content is deleted again.
UploadUndo(f) ==
    /\ uploader[f] = "undo"
    /\ blob' = blob \ {f}
    /\ uploader' = [uploader EXCEPT ![f] = "done"]
    /\ UNCHANGED <<rec, meta, job, token, worker, creator, canceller, deleter,
                   recovery, runs, budgets, history>>

-----------------------------------------------------------------------------
(* Spawning a worker: JobRuntime::spawn drops the closure, and with it the *)
(* snapshot, when the key is already running.                              *)

Spawn(b, snapshot) ==
    \/ /\ Jobs!EnqueueJob(b)
       /\ worker' = [worker EXCEPT ![b] =
                        [NoWorker EXCEPT !.pc = "spawned", !.snap = snapshot]]
    \/ /\ Jobs!RefuseJob(b)
       /\ UNCHANGED worker

(* POST /v1/batches *)

CreateRead(b, f) ==
    /\ creator[b].pc = "new"
    /\ f \in meta
    /\ creator' = [creator EXCEPT ![b] = [pc |-> "put", input |-> f]]
    /\ UNCHANGED <<durable, job, token, worker, uploader, canceller, deleter,
                   recovery, runs, budgets, history>>

CreatePut(b) ==
    /\ creator[b].pc = "put"
    /\ rec' = [rec EXCEPT ![b] = NewRecord(creator[b].input)]
    /\ creator' = [creator EXCEPT ![b].pc = "spawn"]
    /\ UNCHANGED <<meta, blob, job, token, worker, uploader, canceller, deleter,
                   recovery, runs, budgets, history>>

CreateSpawn(b) ==
    /\ creator[b].pc = "spawn"
    /\ Spawn(b, NewRecord(creator[b].input))
    /\ creator' = [creator EXCEPT ![b].pc = "done"]
    /\ UNCHANGED <<durable, uploader, canceller, deleter, recovery, runs, budgets, history>>

-----------------------------------------------------------------------------
(* POST /v1/batches/{id}/cancel *)

\* The handler reads the record; a terminal one is refused.
CancelRead(c, b) ==
    /\ canceller[c].pc = "new"
    /\ rec[b].status \in Active
    /\ canceller' = [canceller EXCEPT ![c] = [pc |-> "put", batch |-> b, copy |-> rec[b]]]
    /\ UNCHANGED <<durable, job, token, worker, uploader, creator, deleter,
                   recovery, runs, budgets, history>>

\* It writes its copy back, marked.
CancelPut(c) ==
    LET b == canceller[c].batch IN
    /\ canceller[c].pc = "put"
    /\ rec' = [rec EXCEPT ![b] = [canceller[c].copy EXCEPT !.status = "cancelling",
                                                           !.cancel_requested = TRUE]]
    /\ canceller' = [canceller EXCEPT ![c].pc = "signal"]
    /\ asked' = asked \cup {b}
    /\ UNCHANGED <<meta, blob, job, token, worker, uploader, creator, deleter,
                   recovery, runs, budgets, answered, removed>>

\* It signals the token of the job, if there is one, and answers 200.
CancelSignal(c) ==
    /\ canceller[c].pc = "signal"
    /\ Jobs!CancelJob(canceller[c].batch)
    /\ canceller' = [canceller EXCEPT ![c].pc = "done"]
    /\ UNCHANGED <<durable, worker, uploader, creator, deleter,
                   recovery, runs, budgets, history>>

-----------------------------------------------------------------------------
(* DELETE /v1/files/{id} *)

\* No active batch may name the file as its input.  The records are read one by
\* one after their names; the check is that of the moment after the last, as no
\* record becomes active again, but for batches created since the first, of which
\* DeleteMeta knows nothing either.
DeleteCheck(d, f) ==
    /\ deleter[d].pc = "new"
    /\ \A b \in Batches : ~(rec[b].input = f /\ rec[b].status \in Active)
    /\ deleter' = [deleter EXCEPT ![d] = [pc |-> "meta", file |-> f]]
    /\ UNCHANGED <<durable, job, token, worker, uploader, creator, canceller,
                   recovery, runs, budgets, history>>

\* Mutant of DeleteMeta: the content is deleted while the object exists.
DeleteContentFirst(d) ==
    /\ deleter[d].pc = "meta"
    /\ blob' = blob \ {deleter[d].file}
    /\ deleter' = [deleter EXCEPT ![d].pc = "blob"]
    /\ UNCHANGED <<rec, meta, job, token, worker, uploader, creator, canceller,
                   recovery, runs, budgets, history>>

\* The object goes first; without one the answer is 404.
DeleteMeta(d) ==
    LET f == deleter[d].file IN
    /\ deleter[d].pc = "meta"
    /\ meta' = meta \ {f}
    /\ removed' = removed \cup ({f} \cap meta)
    /\ deleter' = [deleter EXCEPT ![d].pc = IF f \in meta THEN "blob" ELSE "done"]
    /\ UNCHANGED <<rec, blob, job, token, worker, uploader, creator, canceller,
                   recovery, runs, budgets, answered, asked>>

DeleteBlob(d) ==
    /\ deleter[d].pc = "blob"
    /\ blob' = blob \ {deleter[d].file}
    /\ deleter' = [deleter EXCEPT ![d].pc = "done"]
    /\ UNCHANGED <<rec, meta, job, token, worker, uploader, creator, canceller,
                   recovery, runs, budgets, history>>


-----------------------------------------------------------------------------
(* The worker of a batch: run_openai_batch, and fail_openai_batch when it  *)
(* returns an error.  It never reads the record again: cur is its copy of  *)
(* the snapshot it was spawned with.                                       *)

SetWorker(b, w) == worker' = [worker EXCEPT ![b] = w]

Answered(w, state) == {i \in Items : w.item[i] = state}
HasOutput(w) == Answered(w, "ok") # {}
HasErrors(w) == Answered(w, "error") # {}

\* The output file, the error file and the final record are written in this
\* order; a file without lines is not written.
WriteErrors(w) ==
    IF HasErrors(w) THEN [w EXCEPT !.pc = "write_blob", !.kind = "errors"]
    ELSE [w EXCEPT !.pc = "put_final", !.kind = "none"]

WriteFiles(w, outcome) ==
    LET decided == [w EXCEPT !.outcome = outcome, !.cur.output = None, !.cur.errors = None] IN
    IF HasOutput(w) THEN [decided EXCEPT !.pc = "write_blob", !.kind = "output"]
    ELSE WriteErrors(decided)

\* fail_openai_batch starts over from the snapshot; its one file holds the
\* message.
Fail(w) == [w EXCEPT !.pc = "write_blob", !.kind = "validation",
                     !.outcome = "failed", !.cur = w.snap]

\* The task gets its permit; the first thing the worker does is to look for
\* a cancellation in its snapshot and in its token.
BeginRun(b) ==
    LET w == [worker[b] EXCEPT !.cur = worker[b].snap] IN
    /\ worker[b].pc = "spawned"
    /\ Jobs!StartJob(b)
    /\ runs' = [runs EXCEPT ![b] = @ + 1]
    /\ SetWorker(b, IF w.snap.cancel_requested \/ token[b] = "cancelled"
                    THEN WriteFiles(w, "cancelled")
                    ELSE [w EXCEPT !.pc = "load_meta"])
    /\ UNCHANGED <<durable, handlers, recovery, budgets, history>>

LoadMeta(b) ==
    LET w == worker[b] IN
    /\ w.pc = "load_meta"
    /\ SetWorker(b, IF w.cur.input \in meta THEN [w EXCEPT !.pc = "load_blob"] ELSE Fail(w))
    /\ UNCHANGED <<durable, job, token, handlers, recovery, runs, budgets, history>>

\* Reads the content and parses all of it before anything is dispatched.
LoadBlob(b) ==
    LET w == worker[b] IN
    /\ w.pc = "load_blob"
    /\ SetWorker(b, IF w.cur.input \in blob \ Malformed
                    THEN [w EXCEPT !.pc = "put_in_progress",
                                   !.cur.status = "in_progress",
                                   !.cur.total = Cardinality(Items)]
                    ELSE Fail(w))
    /\ UNCHANGED <<durable, job, token, handlers, recovery, runs, budgets, history>>

PutInProgress(b) ==
    LET w == worker[b] IN
    /\ w.pc = "put_in_progress"
    /\ rec' = [rec EXCEPT ![b] = w.cur]
    /\ SetWorker(b, [w EXCEPT !.pc = "items"])
    /\ UNCHANGED <<meta, blob, job, token, handlers, recovery, runs, budgets, history>>

\* Up to ItemConcurrency requests are in flight, each in a select with the
\* cancellation token.
StartItem(b, i) ==
    LET w == worker[b] IN
    /\ w.pc = "items" /\ w.item[i] = "pending"
    /\ Cardinality(Answered(w, "inflight")) < ItemConcurrency
    /\ SetWorker(b, [w EXCEPT !.item[i] = "inflight"])
    /\ UNCHANGED <<durable, job, token, handlers, recovery, runs, budgets, history>>

\* A 2xx answer is a line of the output file, any other answer or a dispatch
\* error one of the error file.
FinishItem(b, i) ==
    LET w == worker[b] IN
    /\ w.pc = "items" /\ w.item[i] = "inflight"
    /\ \E answer \in {"ok", "error"} : SetWorker(b, [w EXCEPT !.item[i] = answer])
    /\ answered' = [answered EXCEPT ![b] = @ \cup {i}]
    /\ UNCHANGED <<durable, job, token, handlers, recovery, runs, budgets, asked, removed>>

\* Mutant of CancelItem: the request is given up without a cancellation.
GiveUpItem(b, i) ==
    LET w == worker[b] IN
    /\ w.pc = "items" /\ w.item[i] = "inflight"
    /\ SetWorker(b, [w EXCEPT !.item[i] = "cancelled"])
    /\ UNCHANGED <<durable, job, token, handlers, recovery, runs, budgets, history>>

CancelItem(b, i) ==
    LET w == worker[b] IN
    /\ w.pc = "items" /\ w.item[i] = "inflight"
    /\ token[b] = "cancelled"
    /\ SetWorker(b, [w EXCEPT !.item[i] = "cancelled"])
    /\ UNCHANGED <<durable, job, token, handlers, recovery, runs, budgets, history>>

\* Mutant of Collect: requests given up are not told from answered ones.
CollectAnyway(b) ==
    LET w == worker[b] IN
    /\ w.pc = "items"
    /\ Answered(w, "pending") = {} /\ Answered(w, "inflight") = {}
    /\ SetWorker(b, [w EXCEPT !.pc = "put_finalizing", !.cur.status = "finalizing"])
    /\ UNCHANGED <<durable, job, token, handlers, recovery, runs, budgets, history>>

\* All requests are done: the counts are added to those of the record, and
\* the batch is cancelled if the token is, or if any request was.
Collect(b) ==
    LET w == worker[b]
        counted == [w EXCEPT
            !.cur.completed = @ + Cardinality(Answered(w, "ok")),
            !.cur.failed = @ + Cardinality(Answered(w, "error"))
                             + Cardinality(Answered(w, "cancelled"))]
    IN
    /\ w.pc = "items"
    /\ Answered(w, "pending") = {} /\ Answered(w, "inflight") = {}
    /\ SetWorker(b, IF \/ token[b] = "cancelled" \/ w.cur.cancel_requested
                       \/ Answered(w, "cancelled") # {}
                    THEN WriteFiles(counted, "cancelled")
                    ELSE [counted EXCEPT !.pc = "put_finalizing", !.cur.status = "finalizing"])
    /\ UNCHANGED <<durable, job, token, handlers, recovery, runs, budgets, history>>

PutFinalizing(b) ==
    LET w == worker[b] IN
    /\ w.pc = "put_finalizing"
    /\ rec' = [rec EXCEPT ![b] = w.cur]
    /\ SetWorker(b, WriteFiles(w, "completed"))
    /\ UNCHANGED <<meta, blob, job, token, handlers, recovery, runs, budgets, history>>

\* write_openai_batch_output_file: a new id, the content, then the object.
FileOf(b) == <<b, worker[b].kind, runs[b]>>

WriteBlob(b) ==
    /\ worker[b].pc = "write_blob"
    /\ blob' = blob \cup {FileOf(b)}
    /\ SetWorker(b, [worker[b] EXCEPT !.pc = "write_meta"])
    /\ UNCHANGED <<rec, meta, job, token, handlers, recovery, runs, budgets, history>>

WriteMeta(b) ==
    LET w == worker[b] IN
    /\ w.pc = "write_meta"
    /\ meta' = meta \cup {FileOf(b)}
    /\ SetWorker(b, IF w.kind = "output"
                    THEN WriteErrors([w EXCEPT !.cur.output = FileOf(b)])
                    ELSE [w EXCEPT !.cur.errors = FileOf(b), !.pc = "put_final", !.kind = "none"])
    /\ UNCHANGED <<rec, blob, job, token, handlers, recovery, runs, budgets, history>>

\* The final record; the worker returns and the job is over.
PutFinal(b) ==
    LET w == worker[b] IN
    /\ w.pc = "put_final"
    /\ rec' = [rec EXCEPT ![b] = [w.cur EXCEPT !.status = w.outcome]]
    /\ Jobs!FinishJob(b)
    /\ SetWorker(b, NoWorker)
    /\ UNCHANGED <<meta, blob, handlers, recovery, runs, budgets, history>>

-----------------------------------------------------------------------------
(* recover_durable_jobs, started with the router: it lists the records and *)
(* spawns a worker for each one whose status in the list is active.        *)

RecoverRead(b) ==
    /\ recovery.pc = "list" /\ b \in recovery.unread
    /\ recovery' = [recovery EXCEPT !.unread = @ \ {b}, !.seen[b] = rec[b],
                                    !.pc = IF recovery.unread = {b} THEN "spawn" ELSE "list"]
    /\ UNCHANGED <<durable, job, token, worker, handlers, runs, budgets, history>>

\* Mutant of RecoverSpawn: the status in the list is not looked at.
RecoverSpawnAll(b) ==
    /\ recovery.pc = "spawn"
    /\ recovery.seen[b].status # "none"
    /\ Spawn(b, recovery.seen[b])
    /\ recovery' = [recovery EXCEPT !.seen[b] = NoRecord]
    /\ UNCHANGED <<durable, handlers, runs, budgets, history>>

\* The loop over the list; the element is forgotten once it is handled.
RecoverSpawn(b) ==
    /\ recovery.pc = "spawn"
    /\ recovery.seen[b].status \in Active
    /\ Spawn(b, recovery.seen[b])
    /\ recovery' = [recovery EXCEPT !.seen[b] = NoRecord]
    /\ UNCHANGED <<durable, handlers, runs, budgets, history>>

\* Mutant of RecoverDone: batches that were still validating are left out.
RecoverDoneEarly ==
    /\ recovery.pc = "spawn"
    /\ \A b \in Batches : recovery.seen[b].status \notin Active \ {"validating"}
    /\ recovery' = [recovery EXCEPT !.pc = "done", !.seen = [b \in Batches |-> NoRecord]]
    /\ UNCHANGED <<durable, job, token, worker, handlers, runs, budgets, history>>

RecoverDone ==
    /\ recovery.pc = "spawn"
    /\ \A b \in Batches : recovery.seen[b].status \notin Active
    /\ recovery' = [recovery EXCEPT !.pc = "done", !.seen = [b \in Batches |-> NoRecord]]
    /\ UNCHANGED <<durable, job, token, worker, handlers, runs, budgets, history>>


-----------------------------------------------------------------------------
(* What goes wrong: failing store calls, clients that disconnect, crashes. *)

\* A store call of the worker fails.  Before the failure path that sends the
\* worker there; on it, a file that cannot be stored is left out of the
\* record, and a record that cannot be stored is given up.
WorkerFault(b) ==
    LET w == worker[b] IN
    /\ faults < MaxFaults
    /\ w.pc \in {"load_meta", "load_blob", "put_in_progress", "put_finalizing",
                 "write_blob", "write_meta", "put_final"}
    /\ \/ /\ w.outcome # "failed"
          /\ SetWorker(b, Fail(w))
          /\ UNCHANGED <<job, token>>
       \/ /\ w.outcome = "failed" /\ w.pc # "put_final"
          /\ SetWorker(b, [w EXCEPT !.pc = "put_final", !.kind = "none"])
          /\ UNCHANGED <<job, token>>
       \/ /\ w.outcome = "failed" /\ w.pc = "put_final"
          /\ SetWorker(b, NoWorker)
          /\ Jobs!FinishJob(b)
    /\ faults' = faults + 1
    /\ UNCHANGED <<durable, handlers, recovery, runs, crashes, drops, history>>

UploaderEnds(f, at, then) ==
    /\ uploader[f] \in at
    /\ uploader' = [uploader EXCEPT ![f] = then]
    /\ UNCHANGED <<creator, canceller, deleter>>

CreatorEnds(b, at) ==
    /\ creator[b].pc \in at
    /\ creator' = [creator EXCEPT ![b].pc = "done"]
    /\ UNCHANGED <<uploader, canceller, deleter>>

CancellerEnds(c, at) ==
    /\ canceller[c].pc \in at
    /\ canceller' = [canceller EXCEPT ![c].pc = "done"]
    /\ UNCHANGED <<uploader, creator, deleter>>

DeleterEnds(d, at) ==
    /\ deleter[d].pc \in at
    /\ deleter' = [deleter EXCEPT ![d].pc = "done"]
    /\ UNCHANGED <<uploader, creator, canceller>>

\* A writing store call of a handler fails: it answers 500 and stops there,
\* except that an upload deletes the content it has stored.
HandlerFault ==
    /\ faults < MaxFaults
    /\ \/ \E f \in InFiles : UploaderEnds(f, {"new", "undo"}, "done")
       \/ \E f \in InFiles : UploaderEnds(f, {"meta"}, "undo")
       \/ \E b \in Batches : CreatorEnds(b, {"put"})
       \/ \E c \in Cancels : CancellerEnds(c, {"put"})
       \/ \E d \in Deletes : DeleterEnds(d, {"meta", "blob"})
    /\ faults' = faults + 1
    /\ UNCHANGED <<durable, job, token, worker, recovery, runs, crashes, drops, history>>

\* The server drops the future of a handler whose client has disconnected.
HandlerDropped ==
    /\ drops < MaxDrops
    /\ \/ \E f \in InFiles : UploaderEnds(f, {"meta", "undo"}, "done")
       \/ \E b \in Batches : CreatorEnds(b, {"put", "spawn"})
       \/ \E c \in Cancels : CancellerEnds(c, {"put", "signal"})
       \/ \E d \in Deletes : DeleterEnds(d, {"meta", "blob"})
    /\ drops' = drops + 1
    /\ UNCHANGED <<durable, job, token, worker, recovery, runs, crashes, faults, history>>

\* list_all_json fails on the first record it cannot read, and recovery then
\* skips every batch.
RecoverFault ==
    /\ faults < MaxFaults
    /\ recovery.pc = "list"
    /\ recovery' = [recovery EXCEPT !.pc = "done", !.unread = {},
                                    !.seen = [b \in Batches |-> NoRecord]]
    /\ faults' = faults + 1
    /\ UNCHANGED <<durable, job, token, worker, handlers, runs, crashes, drops, history>>

\* The process ends and a new one starts on the same data directory.
Crash ==
    /\ crashes < MaxCrashes
    /\ crashes' = crashes + 1
    /\ Jobs!StopAllJobs
    /\ worker' = [b \in Batches |-> NoWorker]
    /\ uploader' = [f \in InFiles |-> IF uploader[f] = "new" THEN "new" ELSE "done"]
    /\ creator' = [b \in Batches |-> IF creator[b].pc = "new" THEN creator[b]
                                     ELSE [creator[b] EXCEPT !.pc = "done"]]
    /\ canceller' = [c \in Cancels |-> IF canceller[c].pc = "new" THEN canceller[c]
                                       ELSE [canceller[c] EXCEPT !.pc = "done"]]
    /\ deleter' = [d \in Deletes |-> IF deleter[d].pc = "new" THEN deleter[d]
                                     ELSE [deleter[d] EXCEPT !.pc = "done"]]
    /\ recovery' = BootRecovery
    /\ UNCHANGED <<durable, runs, faults, drops, history>>

-----------------------------------------------------------------------------
HandlerStep ==
    \/ \E f \in InFiles : UploadBlob(f) \/ UploadMeta(f) \/ UploadUndo(f)
    \/ \E b \in Batches : CreatePut(b) \/ CreateSpawn(b) \/ \E f \in InFiles : CreateRead(b, f)
    \/ \E c \in Cancels : CancelPut(c) \/ CancelSignal(c) \/ \E b \in Batches : CancelRead(c, b)
    \/ \E d \in Deletes : DeleteMeta(d) \/ DeleteBlob(d) \/ \E f \in meta : DeleteCheck(d, f)

WorkerStep(b) ==
    \/ BeginRun(b) \/ LoadMeta(b) \/ LoadBlob(b) \/ PutInProgress(b)
    \/ \E i \in Items : StartItem(b, i) \/ FinishItem(b, i) \/ CancelItem(b, i)
    \/ Collect(b) \/ PutFinalizing(b) \/ WriteBlob(b) \/ WriteMeta(b) \/ PutFinal(b)

RecoveryStep == (\E b \in Batches : RecoverRead(b) \/ RecoverSpawn(b)) \/ RecoverDone

Trouble == (\E b \in Batches : WorkerFault(b)) \/ HandlerFault \/ HandlerDropped
           \/ RecoverFault \/ Crash

Next == HandlerStep \/ (\E b \in Batches : WorkerStep(b)) \/ RecoveryStep \/ Trouble

Spec == Init /\ [][Next]_vars

\* The tasks of the server are scheduled: the worker, whose requests are
\* answered because every one runs under the request timeout; recovery; and
\* a create handler that has stored its record.  The job semaphore is fair.
Fairness ==
    /\ \A b \in Batches : /\ WF_vars(WorkerStep(b)) /\ SF_vars(BeginRun(b))
                          /\ WF_vars(CreateSpawn(b))
    /\ WF_vars(RecoveryStep)

FairSpec == Spec /\ Fairness

-----------------------------------------------------------------------------
(* What clients read *)

\* The answer to a download of the content of f, if nothing is deleted between the
\* reads of its object and of its bytes; otherwise it is "missing" (a 404 as well).
Content(f) == CASE f \notin meta -> "not found"
                [] f \in blob -> "content"
                [] OTHER -> "missing"

\* The files that the batch object tells a client of.
Told(b) == {rec[b].output, rec[b].errors} \ {None}

-----------------------------------------------------------------------------
(* Properties *)

\* A file that can be named (its object exists) has its content: uploads and
\* the worker store the content first, deletion removes the object first, and
\* neither a crash, a failing call nor a disconnect comes in between wrongly.
FilesHaveContent == \A f \in meta : Content(f) # "missing"

\* README: a finished output or error file is never reported half written.
\* The files a record names exist, unless a client has deleted them.
ReportedFilesExist ==
    \A b \in Batches : \A f \in Told(b) : Content(f) = "content" \/ f \in removed

\* The stores are consistent: types, files and the records that name them.
Consistent == TypeOK /\ FilesHaveContent /\ ReportedFilesExist

\* A batch is reported completed only when each of its requests was answered
\* and the record names a file with the answers.
CompletedWasAnswered ==
    \A b \in Batches : rec[b].status = "completed" =>
        answered[b] = Items /\ (rec[b].output # None \/ rec[b].errors # None)

\* No batch is cancelled, or on the way there, that no client has cancelled:
\* not by a stale token, a crash or a failed request.
CancelledWasAsked ==
    \A b \in Batches : rec[b].status \in {"cancelling", "cancelled"} => b \in asked

\* What the record tells the client of its batch has happened: every request of
\* a completed batch was answered, and a cancelled batch was cancelled.
OutcomeIsTrue == CompletedWasAnswered /\ CancelledWasAsked

\* A terminal record of which nobody holds a copy taken before it became
\* terminal: no job, no canceller about to write, no task about to spawn.
Settled(b) ==
    /\ rec[b].status \in Terminal
    /\ job[b] = "idle" /\ creator[b].pc # "spawn"
    /\ recovery.seen[b].status \notin Active
    /\ \A c \in Cancels : ~(canceller[c].pc = "put" /\ canceller[c].batch = b)

\* A settled batch keeps its final record, and stays settled, through every
\* later call and restart: stale copies are the only way to lose a result.
SettledIsFinal ==
    [][\A b \in Batches : Settled(b) => rec'[b] = rec[b] /\ Settled(b)']_vars

\* README: after a restart unfinished work is scheduled again.  Every stored
\* batch becomes terminal, across crashes, and its job leaves the runtime and the
\* permits, unless the batch is left behind for one of three causes: a failed
\* store call, a create request dropped between store and spawn, or a client
\* that cancelled it.  The job leaves in those cases, too.
EveryBatchEnds ==
    \A b \in Batches :
        /\ rec[b].status \in Active ~>
              rec[b].status \in Terminal \/ b \in asked \/ faults > 0 \/ drops > 0
        /\ job[b] # "idle" ~> job[b] = "idle"

=============================================================================
