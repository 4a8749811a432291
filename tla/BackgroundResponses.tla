------------------------- MODULE BackgroundResponses -------------------------
(***************************************************************************)
(* Background responses: create_background_response, the worker of its job *)
(* and the cancel and delete handlers (crates/api-server/src/lib.rs).      *)
(*                                                                         *)
(* A background response lives in two stores: the job record and the input *)
(* in the durable store, and the response that the client polls in the     *)
(* response store.  The worker and the cancel handler both update both,    *)
(* the worker first the job and then the response when it begins, and the  *)
(* other way round when it ends.  An update of the response reads it and   *)
(* puts back a changed copy.  The response store is the one on SurrealKV   *)
(* (CONTEXT_STORE_PATH is set), which outlives the server: without it      *)
(* responses are kept in memory only, and a crash loses them all.          *)
(***************************************************************************)
EXTENDS Naturals, FiniteSets

CONSTANTS Responses,         \* response ids; each is created at most once (UUIDs)
          MaxConcurrentJobs, \* MIYA_MAX_CONCURRENT_JOBS
          Cancels,           \* calls of POST /v1/responses/{id}/cancel
          Deletes,           \* calls of DELETE /v1/responses/{id}
          None,              \* None of an Option<id>
          MaxCrashes,        \* bound on crashes of the server
          MaxFaults,         \* bound on failing store calls
          MaxDrops           \* bound on handlers dropped by a client disconnect

ASSUME BoundsAssumption == MaxCrashes \in Nat /\ MaxFaults \in Nat /\ MaxDrops \in Nat

VARIABLES rec,        \* durable: rec[r], the BackgroundResponseJob
          input,      \* durable: responses whose request payload is stored
          resp,       \* response store: resp[r], the StoredOpenAiResponse
          job, token, \* the job runtime's view of each response
          worker,     \* worker[r]: the task of r's job
          creator, canceller, deleter, \* the handlers
          recovery,   \* recover_background_response_jobs
          crashes, faults, drops,
          asked,      \* history: responses on which a cancel has been written
          removed     \* history: responses that a client has deleted

durable  == <<rec, input, resp>>
handlers == <<creator, canceller, deleter>>
budgets  == <<crashes, faults, drops>>
history  == <<asked, removed>>
vars == <<durable, job, token, worker, handlers, recovery, budgets, history>>

Jobs == INSTANCE JobScheduler WITH Keys <- Responses

-----------------------------------------------------------------------------
Ends == {"completed", "failed", "cancelled"}

Recovered == {"queued", "in_progress"}

JobRecord == [status : {"none", "cancelling"} \cup Recovered \cup Ends,
              cancel_requested : BOOLEAN]

NoJob == [status |-> "none", cancel_requested |-> FALSE]

\* The stored response; answered when it carries the output of an execution.
Stored == [status : {"none"} \cup Recovered \cup Ends, answered : BOOLEAN]

NoResponse == [status |-> "none", answered |-> FALSE]

NoWorker == [pc |-> "none", to |-> "none", copy |-> NoJob, stored |-> NoResponse]

\* to: the status that the worker is writing at get, put and job.
Worker == [pc : {"none", "spawned", "latest", "begin", "get", "put", "load", "run",
                 "answered", "job"},
           to : {"none", "in_progress"} \cup Ends, copy : JobRecord, stored : Stored]

Canceller == [pc : {"new", "begin", "signal", "get", "put", "job", "answer", "ok", "done"},
              id : Responses \cup {None}, copy : JobRecord, stored : Stored]

Deleter == [pc : {"new", "response", "record", "input", "done"},
            id : Responses \cup {None}, background : BOOLEAN]

Recovery == [pc : {"names", "read", "spawn", "done", "failed"}, unread : SUBSET Responses,
             seen : [Responses -> JobRecord]]

BootRecovery == [pc |-> "names", unread |-> {}, seen |-> [r \in Responses |-> NoJob]]

TypeOK ==
    /\ rec \in [Responses -> JobRecord]
    /\ input \subseteq Responses
    /\ resp \in [Responses -> Stored]
    /\ Jobs!JobTypeOK
    /\ worker \in [Responses -> Worker]
    /\ creator \in [Responses -> {"new", "record", "response", "spawn", "done"}]
    /\ canceller \in [Cancels -> Canceller]
    /\ deleter \in [Deletes -> Deleter]
    /\ recovery \in Recovery
    /\ crashes \in 0..MaxCrashes /\ faults \in 0..MaxFaults /\ drops \in 0..MaxDrops
    /\ asked \subseteq Responses /\ removed \subseteq Responses

Init ==
    /\ rec = [r \in Responses |-> NoJob]
    /\ input = {} /\ resp = [r \in Responses |-> NoResponse]
    /\ Jobs!JobInit
    /\ worker = [r \in Responses |-> NoWorker]
    /\ creator = [r \in Responses |-> "new"]
    /\ canceller = [c \in Cancels |->
                      [pc |-> "new", id |-> None, copy |-> NoJob, stored |-> NoResponse]]
    /\ deleter = [d \in Deletes |-> [pc |-> "new", id |-> None, background |-> FALSE]]
    /\ recovery = BootRecovery
    /\ crashes = 0 /\ faults = 0 /\ drops = 0
    /\ asked = {} /\ removed = {}

-----------------------------------------------------------------------------
(* POST /v1/responses with background=true: the payload, the job record,   *)
(* the queued response, the job.                                           *)

Queued == [NoJob EXCEPT !.status = "queued"]

Spawn(r, snapshot) ==
    \/ /\ Jobs!EnqueueJob(r)
       /\ worker' = [worker EXCEPT ![r] =
                        [NoWorker EXCEPT !.pc = "spawned", !.copy = snapshot]]
    \/ /\ Jobs!RefuseJob(r)
       /\ UNCHANGED worker

CreateInput(r) ==
    /\ creator[r] = "new"
    /\ input' = input \cup {r}
    /\ creator' = [creator EXCEPT ![r] = "record"]
    /\ UNCHANGED <<rec, resp, job, token, worker, canceller, deleter, recovery, budgets, history>>

CreateRecord(r) ==
    /\ creator[r] = "record"
    /\ rec' = [rec EXCEPT ![r] = Queued]
    /\ creator' = [creator EXCEPT ![r] = "response"]
    /\ UNCHANGED <<input, resp, job, token, worker, canceller, deleter, recovery, budgets, history>>

CreateResponse(r) ==
    /\ creator[r] = "response"
    /\ resp' = [resp EXCEPT ![r] = [NoResponse EXCEPT !.status = "queued"]]
    /\ creator' = [creator EXCEPT ![r] = "spawn"]
    /\ UNCHANGED <<rec, input, job, token, worker, canceller, deleter, recovery, budgets, history>>

CreateSpawn(r) ==
    /\ creator[r] = "spawn"
    /\ Spawn(r, Queued)
    /\ creator' = [creator EXCEPT ![r] = "done"]
    /\ UNCHANGED <<durable, canceller, deleter, recovery, budgets, history>>

-----------------------------------------------------------------------------
(* The worker: run_background_response_job *)

SetWorker(r, w) == worker' = [worker EXCEPT ![r] = w]

WorkerAt(r, pc) == worker[r].pc = pc

\* finish_background_response_*: first the response, then the job record.
Towards(w, status) == [w EXCEPT !.pc = "get", !.to = status]

BeginRun(r) ==
    /\ WorkerAt(r, "spawned")
    /\ Jobs!StartJob(r)
    /\ SetWorker(r, [worker[r] EXCEPT !.pc = "latest"])
    /\ UNCHANGED <<durable, handlers, recovery, budgets, history>>

\* A worker with a copy of the record begins, unless it is cancelled.
Begins(r, copy) ==
    LET w == [worker[r] EXCEPT !.copy = copy] IN
    IF copy.cancel_requested \/ token[r] = "cancelled" THEN Towards(w, "cancelled")
    ELSE [w EXCEPT !.pc = "begin"]

\* The record is read again; the copy from the spawn serves without one.
ReadLatest(r) ==
    /\ WorkerAt(r, "latest")
    /\ SetWorker(r, Begins(r, IF rec[r].status = "none" THEN worker[r].copy ELSE rec[r]))
    /\ UNCHANGED <<durable, job, token, handlers, recovery, budgets, history>>

PutInProgress(r) ==
    /\ WorkerAt(r, "begin")
    /\ rec' = [rec EXCEPT ![r] = [worker[r].copy EXCEPT !.status = "in_progress"]]
    /\ SetWorker(r, Towards(worker[r], "in_progress"))
    /\ UNCHANGED <<input, resp, job, token, handlers, recovery, budgets, history>>

\* The response is missing: the worker gives up before the execution; after it,
\* the error is ignored.  The completed response is stored already.
GetResponse(r) ==
    LET w == worker[r] IN
    /\ WorkerAt(r, "get")
    /\ \/ /\ resp[r].status # "none"
          /\ SetWorker(r, [w EXCEPT !.pc = "put",
                              !.stored = IF w.to = "completed" THEN resp[r]
                                         ELSE [resp[r] EXCEPT !.status = w.to]])
          /\ UNCHANGED <<job, token>>
       \/ /\ resp[r].status = "none" /\ w.to # "in_progress"
          /\ SetWorker(r, [w EXCEPT !.pc = "job"])
          /\ UNCHANGED <<job, token>>
       \/ /\ resp[r].status = "none" /\ w.to = "in_progress"
          /\ SetWorker(r, NoWorker)
          /\ Jobs!FinishJob(r)
    /\ UNCHANGED <<durable, handlers, recovery, budgets, history>>

PutResponse(r) ==
    LET w == worker[r] IN
    /\ WorkerAt(r, "put")
    /\ resp' = [resp EXCEPT ![r] = w.stored]
    /\ SetWorker(r, [w EXCEPT !.pc = IF w.to = "in_progress" THEN "load" ELSE "job",
                              !.stored = NoResponse])
    /\ UNCHANGED <<rec, input, job, token, handlers, recovery, budgets, history>>

LoadInput(r) ==
    /\ WorkerAt(r, "load")
    /\ SetWorker(r, IF r \in input THEN [worker[r] EXCEPT !.pc = "run"]
                    ELSE Towards(worker[r], "failed"))
    /\ UNCHANGED <<durable, job, token, handlers, recovery, budgets, history>>

\* Mutant of StoreAnswer: the answer is handed to the worker unstored.
StoreAnswerLater(r) ==
    /\ WorkerAt(r, "run")
    /\ SetWorker(r, [worker[r] EXCEPT !.pc = "answered"])
    /\ UNCHANGED <<durable, job, token, handlers, recovery, budgets, history>>

\* execute_openai_responses_value_with_id stores the answer before it returns.
StoreAnswer(r) ==
    /\ WorkerAt(r, "run")
    /\ resp' = [resp EXCEPT ![r] = [status |-> "completed", answered |-> TRUE]]
    /\ SetWorker(r, [worker[r] EXCEPT !.pc = "answered"])
    /\ UNCHANGED <<rec, input, job, token, handlers, recovery, budgets, history>>

\* Mutant of ExecutionEnds: the execution is aborted without a cancel.
ExecutionAborted(r) ==
    /\ worker[r].pc \in {"run", "answered"}
    /\ \E to \in Ends : SetWorker(r, Towards(worker[r], to))
    /\ UNCHANGED <<durable, job, token, handlers, recovery, budgets, history>>

\* The select between the token and the execution.
ExecutionEnds(r) ==
    LET w == worker[r] IN
    /\ \/ /\ w.pc = "answered"
          /\ SetWorker(r, Towards(w, "completed"))
       \/ /\ w.pc = "run"
          /\ SetWorker(r, Towards(w, "failed"))
       \/ /\ w.pc \in {"run", "answered"} /\ token[r] = "cancelled"
          /\ SetWorker(r, Towards(w, "cancelled"))
    /\ UNCHANGED <<durable, job, token, handlers, recovery, budgets, history>>

EndedJob(w) ==
    [w.copy EXCEPT !.status = w.to,
                   !.cancel_requested = @ \/ w.to = "cancelled"]

PutEnd(r) ==
    /\ WorkerAt(r, "job")
    /\ rec' = [rec EXCEPT ![r] = EndedJob(worker[r])]
    /\ SetWorker(r, NoWorker)
    /\ Jobs!FinishJob(r)
    /\ UNCHANGED <<input, resp, handlers, recovery, budgets, history>>

-----------------------------------------------------------------------------
(* POST /v1/responses/{id}/cancel *)

\* The id is known once the queued response is listed.
Known(r) == resp[r].status # "none" \/ r \in removed

Done(entry) == [entry EXCEPT !.pc = "done", !.copy = NoJob, !.stored = NoResponse]

SetCanceller(c, entry) ==
    /\ canceller' = [canceller EXCEPT ![c] = entry]
    /\ UNCHANGED <<creator, deleter>>

CancelRead(c, r) ==
    /\ canceller[c].pc = "new" /\ Known(r)
    /\ rec[r].status \notin Ends \cup {"none"}
    /\ SetCanceller(c, [pc |-> "begin", id |-> r, stored |-> NoResponse,
                        copy |-> [status |-> "cancelling", cancel_requested |-> TRUE]])
    /\ UNCHANGED <<durable, job, token, worker, recovery, budgets, history>>

CancelPut(c) ==
    LET r == canceller[c].id IN
    /\ canceller[c].pc = "begin"
    /\ rec' = [rec EXCEPT ![r] = canceller[c].copy]
    /\ SetCanceller(c, [canceller[c] EXCEPT !.pc = "signal"])
    /\ asked' = asked \cup {r}
    /\ UNCHANGED <<input, resp, job, token, worker, recovery, budgets, removed>>

CancelSignal(c) ==
    /\ canceller[c].pc = "signal"
    /\ Jobs!CancelJob(canceller[c].id)
    /\ SetCanceller(c, [canceller[c] EXCEPT !.pc = "get", !.copy.status = "cancelled"])
    /\ UNCHANGED <<durable, worker, recovery, budgets, history>>

CancelGetResponse(c) ==
    LET stored == resp[canceller[c].id] IN
    /\ canceller[c].pc = "get"
    /\ SetCanceller(c,
         IF stored.status = "none" THEN Done(canceller[c])
         ELSE [canceller[c] EXCEPT !.pc = "put", !.stored = [stored EXCEPT !.status = "cancelled"]])
    /\ UNCHANGED <<durable, job, token, worker, recovery, budgets, history>>

CancelPutResponse(c) ==
    /\ canceller[c].pc = "put"
    /\ resp' = [resp EXCEPT ![canceller[c].id] = canceller[c].stored]
    /\ SetCanceller(c, [canceller[c] EXCEPT !.pc = "job", !.stored = NoResponse])
    /\ UNCHANGED <<rec, input, job, token, worker, recovery, budgets, history>>


CancelPutJob(c) ==
    /\ canceller[c].pc = "job"
    /\ rec' = [rec EXCEPT ![canceller[c].id] = canceller[c].copy]
    /\ SetCanceller(c, [canceller[c] EXCEPT !.pc = "answer", !.copy = NoJob])
    /\ UNCHANGED <<input, resp, job, token, worker, recovery, budgets, history>>

\* The client is sent the response as it is by now: ok when it is cancelled.
CancelAnswer(c) ==
    /\ canceller[c].pc = "answer"
    /\ SetCanceller(c, [canceller[c] EXCEPT !.pc =
           IF resp[canceller[c].id].status = "cancelled" THEN "ok" ELSE "done"])
    /\ UNCHANGED <<durable, job, token, worker, recovery, budgets, history>>

-----------------------------------------------------------------------------
(* DELETE /v1/responses/{id}: the response, then the job record and payload *)

SetDeleter(d, entry) ==
    /\ deleter' = [deleter EXCEPT ![d] = entry]
    /\ UNCHANGED <<creator, canceller>>

DeleteRead(d, r) ==
    /\ deleter[d].pc = "new" /\ Known(r)
    /\ rec[r].status \in Ends \cup {"none"}
    /\ SetDeleter(d, [pc |-> "response", id |-> r, background |-> rec[r].status # "none"])
    /\ UNCHANGED <<durable, job, token, worker, recovery, budgets, history>>

DeleteResponse(d) ==
    LET r == deleter[d].id IN
    /\ deleter[d].pc = "response"
    /\ resp' = [resp EXCEPT ![r] = NoResponse]
    /\ removed' = IF resp[r].status = "none" THEN removed ELSE removed \cup {r}
    /\ SetDeleter(d, [deleter[d] EXCEPT !.background = FALSE, !.pc =
           IF resp[r].status # "none" /\ deleter[d].background THEN "record" ELSE "done"])
    /\ UNCHANGED <<rec, input, job, token, worker, recovery, budgets, asked>>

DeleteRecord(d) ==
    /\ deleter[d].pc = "record"
    /\ rec' = [rec EXCEPT ![deleter[d].id] = NoJob]
    /\ SetDeleter(d, [deleter[d] EXCEPT !.pc = "input"])
    /\ UNCHANGED <<input, resp, job, token, worker, recovery, budgets, history>>

DeleteInput(d) ==
    /\ deleter[d].pc = "input"
    /\ input' = input \ {deleter[d].id}
    /\ SetDeleter(d, [deleter[d] EXCEPT !.pc = "done"])
    /\ UNCHANGED <<rec, resp, job, token, worker, recovery, budgets, history>>

-----------------------------------------------------------------------------
(* recover_background_response_jobs *)

RecoverNames ==
    /\ recovery.pc = "names"
    /\ LET names == {r \in Responses : rec[r].status # "none"} IN
       recovery' = [recovery EXCEPT !.unread = names,
                                    !.pc = IF names = {} THEN "spawn" ELSE "read"]
    /\ UNCHANGED <<durable, job, token, worker, handlers, budgets, history>>

RecoverRead(r) ==
    /\ recovery.pc = "read" /\ r \in recovery.unread
    /\ recovery' = IF rec[r].status = "none"
                   THEN [BootRecovery EXCEPT !.pc = "failed"]
                   ELSE [recovery EXCEPT !.unread = @ \ {r}, !.seen[r] = rec[r],
                            !.pc = IF recovery.unread = {r} THEN "spawn" ELSE "read"]
    /\ UNCHANGED <<durable, job, token, worker, handlers, budgets, history>>

\* Mutant of RecoverSpawn: ended responses are run again.
RecoverSpawnAll(r) ==
    /\ recovery.pc = "spawn"
    /\ recovery.seen[r].status # "none"
    /\ Spawn(r, recovery.seen[r])
    /\ recovery' = [recovery EXCEPT !.seen[r] = NoJob]
    /\ UNCHANGED <<durable, handlers, budgets, history>>

RecoverSpawn(r) ==
    /\ recovery.pc = "spawn"
    /\ recovery.seen[r].status \in Recovered
    /\ Spawn(r, recovery.seen[r])
    /\ recovery' = [recovery EXCEPT !.seen[r] = NoJob]
    /\ UNCHANGED <<durable, handlers, budgets, history>>

\* Mutant of RecoverDone: responses in progress are left out.
RecoverDoneEarly ==
    /\ recovery.pc = "spawn"
    /\ \A r \in Responses : recovery.seen[r].status # "queued"
    /\ recovery' = [BootRecovery EXCEPT !.pc = "done"]
    /\ UNCHANGED <<durable, job, token, worker, handlers, budgets, history>>

RecoverDone ==
    /\ recovery.pc = "spawn"
    /\ \A r \in Responses : recovery.seen[r].status \notin Recovered
    /\ recovery' = [BootRecovery EXCEPT !.pc = "done"]
    /\ UNCHANGED <<durable, job, token, worker, handlers, budgets, history>>

-----------------------------------------------------------------------------
(* What goes wrong *)

\* A store call of the worker fails.  Without the latest record it goes on with
\* the one it has, before the execution it returns, a payload that cannot be read
\* is a failure, and the rest is ignored.
WorkerFault(r) ==
    LET w == worker[r]
        beginning == w.pc = "begin" \/ (w.pc \in {"get", "put"} /\ w.to = "in_progress") IN
    /\ faults < MaxFaults
    /\ \/ /\ beginning \/ w.pc = "job"
          /\ SetWorker(r, NoWorker)
          /\ Jobs!FinishJob(r)
       \/ /\ w.pc = "latest"
          /\ SetWorker(r, Begins(r, w.copy))
          /\ UNCHANGED <<job, token>>
       \/ /\ w.pc = "load"
          /\ SetWorker(r, Towards(w, "failed"))
          /\ UNCHANGED <<job, token>>
       \/ /\ w.pc \in {"get", "put"} /\ w.to # "in_progress"
          /\ SetWorker(r, [w EXCEPT !.pc = "job", !.stored = NoResponse])
          /\ UNCHANGED <<job, token>>
    /\ faults' = faults + 1
    /\ UNCHANGED <<durable, handlers, recovery, crashes, drops, history>>

CreatorEnds(r, at) ==
    /\ creator[r] \in at
    /\ creator' = [creator EXCEPT ![r] = "done"]
    /\ UNCHANGED <<canceller, deleter>>

CancellerEnds(c, at) ==
    /\ canceller[c].pc \in at
    /\ SetCanceller(c, Done(canceller[c]))

DeleterGoes(d, at, then) ==
    /\ deleter[d].pc \in at
    /\ SetDeleter(d, [deleter[d] EXCEPT !.pc = then, !.background = FALSE])

\* A store call of a handler fails: it answers 500 and stops where it is; only
\* delete goes on after the response is gone.
HandlerFault ==
    /\ faults < MaxFaults
    /\ \/ \E r \in Responses : CreatorEnds(r, {"new", "record", "response"})
       \/ \E c \in Cancels : CancellerEnds(c, {"begin", "get", "put", "job", "answer"})
       \/ \E d \in Deletes : \/ DeleterGoes(d, {"response", "input"}, "done")
                             \/ DeleterGoes(d, {"record"}, "input")
    /\ faults' = faults + 1
    /\ UNCHANGED <<durable, job, token, worker, recovery, crashes, drops, history>>

HandlerDropped ==
    /\ drops < MaxDrops
    /\ \/ \E r \in Responses : CreatorEnds(r, {"record", "response", "spawn"})
       \/ \E c \in Cancels : CancellerEnds(c, {"begin", "signal", "get", "put", "job", "answer"})
       \/ \E d \in Deletes : DeleterGoes(d, {"response", "record", "input"}, "done")
    /\ drops' = drops + 1
    /\ UNCHANGED <<durable, job, token, worker, recovery, crashes, faults, history>>

Crash ==
    /\ crashes < MaxCrashes
    /\ crashes' = crashes + 1
    /\ Jobs!StopAllJobs
    /\ worker' = [r \in Responses |-> NoWorker]
    /\ creator' = [r \in Responses |-> IF creator[r] = "new" THEN "new" ELSE "done"]
    /\ canceller' = [c \in Cancels |-> IF canceller[c].pc \in {"new", "ok"} THEN canceller[c]
                                       ELSE Done(canceller[c])]
    /\ deleter' = [d \in Deletes |-> IF deleter[d].pc = "new" THEN deleter[d]
                                     ELSE [deleter[d] EXCEPT !.pc = "done", !.background = FALSE]]
    /\ recovery' = BootRecovery
    /\ UNCHANGED <<durable, faults, drops, history>>

-----------------------------------------------------------------------------
CreateStep(r) == CreateInput(r) \/ CreateRecord(r) \/ CreateResponse(r) \/ CreateSpawn(r)

CancelStep(c) ==
    \/ \E r \in Responses : CancelRead(c, r)
    \/ CancelPut(c) \/ CancelSignal(c)
    \/ CancelGetResponse(c) \/ CancelPutResponse(c) \/ CancelPutJob(c) \/ CancelAnswer(c)

DeleteStep(d) ==
    \/ \E r \in Responses : DeleteRead(d, r)
    \/ DeleteResponse(d) \/ DeleteRecord(d) \/ DeleteInput(d)

WorkerStep(r) ==
    \/ BeginRun(r) \/ ReadLatest(r) \/ PutInProgress(r) \/ GetResponse(r) \/ PutResponse(r)
    \/ LoadInput(r) \/ StoreAnswer(r) \/ ExecutionEnds(r) \/ PutEnd(r)

RecoveryStep ==
    RecoverNames \/ (\E r \in Responses : RecoverRead(r) \/ RecoverSpawn(r)) \/ RecoverDone

Trouble == (\E r \in Responses : WorkerFault(r)) \/ HandlerFault \/ HandlerDropped \/ Crash

Next ==
    \/ \E r \in Responses : CreateStep(r) \/ WorkerStep(r)
    \/ \E c \in Cancels : CancelStep(c)
    \/ \E d \in Deletes : DeleteStep(d)
    \/ RecoveryStep \/ Trouble

Spec == Init /\ [][Next]_vars

\* Scheduled tasks run, an execution ends within the request timeout, and a
\* handler that has begun goes on; whether a request comes is left open.
Fairness ==
    /\ \A r \in Responses : /\ WF_vars(WorkerStep(r)) /\ SF_vars(BeginRun(r))
                            /\ WF_vars(CreateRecord(r) \/ CreateResponse(r) \/ CreateSpawn(r))
    /\ \A c \in Cancels : WF_vars(\/ CancelPut(c) \/ CancelSignal(c) \/ CancelGetResponse(c)
                                  \/ CancelPutResponse(c) \/ CancelPutJob(c) \/ CancelAnswer(c))
    /\ WF_vars(RecoveryStep)

FairSpec == Spec /\ Fairness

-----------------------------------------------------------------------------
(* Properties *)

\* What a client polls is what became of the job: a response is completed only
\* with an answer, and as long as nobody has cancelled or deleted it and no
\* store call has failed, a job has ended exactly as its response says.
PolledStatusIsTrue ==
    \A r \in Responses :
        /\ resp[r].status = "completed" => resp[r].answered
        /\ rec[r].status \in Ends => \/ resp[r].status = rec[r].status
                                     \/ r \in asked \/ r \in removed \/ faults > 0

\* Nothing is reported cancelled, or about to be, that nobody has cancelled.
CancelledWasAsked ==
    \A r \in Responses :
        "cancelled" \in {rec[r].status, resp[r].status} \/ rec[r].cancel_requested => r \in asked

\* Both records tell the truth of the job, and of who has cancelled it.
StatusIsTrue == TypeOK /\ PolledStatusIsTrue /\ CancelledWasAsked

\* What may leave a job active behind: a failure, a lost recovery, a response
\* that was never stored or is deleted, a crash in the middle of a cancel.
Excused(r) ==
    \/ faults > 0 \/ drops > 0 \/ recovery.pc = "failed" \/ resp[r].status = "none"
    \/ rec[r].status = "cancelling" /\ crashes > 0

ActiveJob(r) == rec[r].status \in Recovered \cup {"cancelling"}

\* A response that has ended or is deleted, and of which nobody holds an older
\* copy.
Settled(r) ==
    /\ ~ActiveJob(r) /\ creator[r] = "done"
    /\ job[r] = "idle" /\ recovery.seen[r].status \notin Recovered
    /\ \A c \in Cancels : canceller[c].id = r => canceller[c].pc \in {"answer", "ok", "done"}

\* From then on both records change only by deletion: an answer is not lost
\* and a deleted response does not come back, through later calls, failures
\* and restarts.
SettledIsFinal ==
    [][\A r \in Responses : Settled(r) =>
          /\ rec'[r] \in {rec[r], NoJob} /\ resp'[r] \in {resp[r], NoResponse}
          /\ Settled(r)']_vars


=============================================================================
