--------------------------- MODULE ResponsesProofs ---------------------------
(***************************************************************************)
(* The Responses API: background responses, and conversations that are     *)
(* continued by the id of a response.                                      *)
(*                                                                         *)
(* The first part proves the safety properties of BackgroundResponses for  *)
(* every number of responses, cancels, deletes, crashes, failing calls and *)
(* disconnects.  A record is true because every copy that somebody holds   *)
(* of it, or is about to write, is true: the worker's copy of the record   *)
(* and of the response, the two copies of a cancel, what the recovery has  *)
(* read.  The invariant says of each copy what the property says of the    *)
(* record, and how far the stores have come at each step of the worker.    *)
(*                                                                         *)
(* The second part proves three properties of Conversations for every      *)
(* number of conversations, turns and restarts, and every set of tools.    *)
(* What has been deleted stays away because ids of responses only grow     *)
(* (IdsInv).  Tenants stay apart, and the rules of a client come first and *)
(* once, because every text, call and result that anybody keeps or is      *)
(* shown has been said within its tenant, through all translations         *)
(* (BodiesInv).  What is translated are sequences that are built by        *)
(* FlattenSeq, so lemmas about those come first.                           *)
(***************************************************************************)
EXTENDS BackgroundResponses, Conversations, FiniteSetTheorems, WellFoundedInduction, TLAPS

SaysCancelled(record) == record.status \in {"cancelling", "cancelled"} \/ record.cancel_requested

\* Whoever says that a response is cancelled has it from a cancel.
CancelComesFromClient(r) ==
    \/ r \in asked
    \/ /\ ~SaysCancelled(rec[r]) /\ ~SaysCancelled(worker[r].copy)
       /\ ~SaysCancelled(recovery.seen[r])
       /\ resp[r].status # "cancelled" /\ token[r] # "cancelled"
       /\ worker[r].to # "cancelled" /\ worker[r].stored.status # "cancelled"

CancelsComeFromClients == \A r \in Responses : CancelComesFromClient(r)

\* A cancel acts on the response it was called for, and its first put asks.
CancellersKnowWhom ==
    \A c \in Cancels :
        /\ canceller[c].pc # "new" => canceller[c].id \in Responses
        /\ canceller[c].pc \notin {"new", "begin", "done"} => canceller[c].id \in asked
        /\ canceller[c].pc = "put" => canceller[c].stored.status = "cancelled"

\* A delete acts on the response it was called for, and on the record of a
\* response that is gone.
DeletersKnowWhom ==
    \A d \in Deletes :
        /\ deleter[d].pc # "new" => deleter[d].id \in Responses
        /\ deleter[d].pc \in {"record", "input"} => deleter[d].id \in removed

\* Before the queued response is stored no client knows of it, and the job, if a
\* recovery has started it already, stops at the missing response.
NobodyKnows(r) ==
    /\ resp[r].status = "none" /\ r \notin asked /\ r \notin removed
    /\ \A c \in Cancels : canceller[c].id = r => canceller[c].pc = "new"
    /\ rec[r].status \notin Ends
    /\ worker[r].pc \in {"none", "spawned", "latest", "begin", "get"}
    /\ worker[r].pc = "get" => worker[r].to = "in_progress"

UnknownUntilQueued ==
    \A r \in Responses :
        /\ creator[r] \in {"new", "record", "response"} => NobodyKnows(r)
        /\ creator[r] \in {"new", "record"} =>
              rec[r].status = "none" /\ recovery.seen[r].status = "none" /\ worker[r].pc = "none"

\* Whoever says that a response is completed has the answer.
AnswerComesWithStatus(r) ==
    /\ resp[r].status = "completed" => resp[r].answered
    /\ worker[r].stored.status = "completed" => worker[r].stored.answered

CompletedIsAnswered == \A r \in Responses : AnswerComesWithStatus(r)

\* Somebody else has written to the stores, or a call of them has failed.
Disturbed(r) == r \in asked \/ r \in removed \/ faults > 0

\* How far an undisturbed worker has brought the two stores.
WorkerInStep(r) ==
    LET w == worker[r] IN
    /\ w.pc \in {"get", "put", "load", "run", "answered", "job"} => rec[r].status = "in_progress"
    /\ w.pc \in {"put", "load", "run", "answered", "job"} => resp[r].status # "none"
    /\ w.pc = "get" /\ w.to # "in_progress" => resp[r].status # "none"
    /\ w.pc = "answered" => resp[r].status = "completed"
    /\ w.pc = "get" /\ w.to = "completed" => resp[r].status = "completed"
    /\ w.pc \in {"get", "put"} => w.to # "none"
    /\ w.pc = "put" => w.stored.status = w.to
    /\ w.pc = "job" => resp[r].status = w.to

StoresInStep(r) ==
    Disturbed(r) \/ /\ WorkerInStep(r)
                    /\ rec[r].status \in Ends => resp[r].status = rec[r].status

WorkersInStep == \A r \in Responses : StoresInStep(r)

IInv ==
    /\ TypeOK
    /\ CancelsComeFromClients /\ CancellersKnowWhom /\ DeletersKnowWhom
    /\ UnknownUntilQueued /\ CompletedIsAnswered /\ WorkersInStep

\* A response without a job has no worker.
NoJobNoWorker == \A r \in Responses : job[r] = "idle" => worker[r].pc = "none"

-----------------------------------------------------------------------------
\* Spawning a job keeps the types of what it changes.
LEMMA SpawnTypes ==
    ASSUME TypeOK, NEW r \in Responses, NEW snapshot \in JobRecord, Spawn(r, snapshot)
    PROVE  Jobs!JobTypeOK' /\ worker' \in [Responses -> Worker]
<1> USE DEF TypeOK, Jobs!JobTypeOK
<1>1. [NoWorker EXCEPT !.pc = "spawned", !.copy = snapshot] \in Worker
  BY DEF NoWorker, Worker, NoResponse, Stored
<1>2. CASE Jobs!EnqueueJob(r) /\ worker' = [worker EXCEPT ![r] =
                                              [NoWorker EXCEPT !.pc = "spawned", !.copy = snapshot]]
  BY <1>1, <1>2 DEF Jobs!EnqueueJob
<1>3. CASE Jobs!RefuseJob(r) /\ UNCHANGED worker
  BY <1>3 DEF Jobs!RefuseJob, Jobs!jobVars
<1>4. QED BY <1>2, <1>3 DEF Spawn

\* Creating a response keeps the types.
LEMMA CreateTypes ==
    ASSUME TypeOK, NEW r \in Responses, CreateStep(r)
    PROVE  TypeOK'
<1> USE DEF TypeOK, Jobs!JobTypeOK, handlers, durable, budgets, history, JobRecord, NoJob
<1>1. CASE CreateInput(r)
  BY <1>1 DEF CreateInput
<1>2. CASE CreateRecord(r)
  BY <1>2 DEF CreateRecord, Queued, Recovered
<1>3. CASE CreateResponse(r)
  BY <1>3 DEF CreateResponse, NoResponse, Stored, Recovered
<1>4. CASE CreateSpawn(r)
  <2>1. Queued \in JobRecord
    BY DEF Queued, Recovered
  <2>2. QED BY <1>4, <2>1, SpawnTypes DEF CreateSpawn
<1>5. QED BY <1>1, <1>2, <1>3, <1>4 DEF CreateStep

\* A worker that takes up a copy of its record is a worker.
LEMMA BeginsTypes ==
    ASSUME NEW r \in Responses, worker[r] \in Worker, NEW copy \in JobRecord
    PROVE  Begins(r, copy) \in Worker
<1> DEFINE w == [worker[r] EXCEPT !.copy = copy]
<1>1. w \in Worker /\ [w EXCEPT !.pc = "begin"] \in Worker
  BY DEF Worker
<1>2. Towards(w, "cancelled") \in Worker
  BY <1>1 DEF Towards, Worker, Ends
<1>3. QED BY <1>1, <1>2 DEF Begins

\* A step of the worker keeps the types.
LEMMA WorkerTypes ==
    ASSUME TypeOK, NEW r \in Responses, WorkerStep(r)
    PROVE  TypeOK'
<1> USE DEF TypeOK, Jobs!JobTypeOK, handlers, durable, budgets, history, WorkerAt, SetWorker
<1>w. worker[r] \in Worker /\ NoWorker \in Worker
  BY DEF Worker, NoWorker, NoJob, JobRecord, NoResponse, Stored
<1>t. \A status \in {"in_progress"} \cup Ends : \A w \in Worker : Towards(w, status) \in Worker
  BY DEF Towards, Worker
<1>1. CASE BeginRun(r)
  BY <1>1, <1>w DEF BeginRun, Jobs!StartJob, Worker
<1>2. CASE ReadLatest(r)
  <2> DEFINE copy == IF rec[r].status = "none" THEN worker[r].copy ELSE rec[r]
  <2>1. copy \in JobRecord
    BY <1>w DEF Worker
  <2>2. Begins(r, copy) \in Worker
    BY <2>1, <1>w, BeginsTypes
  <2>3. worker' \in [Responses -> Worker]
    BY <1>2, <2>2 DEF ReadLatest
  <2>4. QED BY <1>2, <2>3 DEF ReadLatest
<1>3. CASE PutInProgress(r)
  <2>1. [worker[r].copy EXCEPT !.status = "in_progress"] \in JobRecord
    BY <1>w DEF Worker, JobRecord, Recovered
  <2>2. QED BY <1>3, <2>1, <1>w, <1>t DEF PutInProgress
<1>4. CASE GetResponse(r)
  <2>1. job' \in [Responses -> {"idle", "queued", "working"}] /\ token' \in [Responses -> {"none", "live", "cancelled"}]
    BY <1>4 DEF GetResponse, Jobs!FinishJob
  <2> DEFINE stored == IF worker[r].to = "completed" THEN resp[r]
                       ELSE [resp[r] EXCEPT !.status = worker[r].to]
  <2>2. stored \in Stored
    <3>1. worker[r].to \in {"none", "in_progress"} \cup Ends
      BY <1>w DEF Worker
    <3>2. QED BY <3>1 DEF Stored, Recovered
  <2>3. /\ [worker[r] EXCEPT !.pc = "put", !.stored = stored] \in Worker
        /\ [worker[r] EXCEPT !.pc = "job"] \in Worker
    <3> HIDE DEF stored
    <3>1. QED BY <2>2, <1>w DEF Worker
  <2>4. worker' \in [Responses -> Worker]
    BY <1>4, <2>3, <1>w DEF GetResponse
  <2>5. QED BY <1>4, <2>1, <2>4 DEF GetResponse
<1>5. CASE PutResponse(r)
  BY <1>5, <1>w DEF PutResponse, Worker, NoResponse, Stored
<1>6. CASE LoadInput(r)
  BY <1>6, <1>w, <1>t DEF LoadInput, Worker, Ends
<1>7. CASE StoreAnswer(r)
  BY <1>7, <1>w DEF StoreAnswer, Worker, Stored, Ends
<1>8. CASE ExecutionEnds(r)
  BY <1>8, <1>w, <1>t DEF ExecutionEnds, Ends
<1>9. CASE PutEnd(r)
  <2>1. EndedJob(worker[r]) \in JobRecord
    BY <1>w DEF Worker, EndedJob, JobRecord, Recovered
  <2>2. QED BY <1>9, <2>1, <1>w DEF PutEnd, Jobs!FinishJob
<1>10. QED
  BY <1>1, <1>2, <1>3, <1>4, <1>5, <1>6, <1>7, <1>8, <1>9 DEF WorkerStep

\* A step of a cancel keeps the types.
LEMMA CancelTypes ==
    ASSUME TypeOK, CancellersKnowWhom, NEW c \in Cancels, CancelStep(c)
    PROVE  TypeOK'
<1> USE DEF TypeOK, Jobs!JobTypeOK, handlers, durable, budgets, history, SetCanceller
<1>n. NoJob \in JobRecord /\ NoResponse \in Stored
  BY DEF NoJob, JobRecord, NoResponse, Stored
<1>c. canceller[c] \in Canceller
  OBVIOUS
<1>i. canceller[c].pc # "new" => canceller[c].id \in Responses
  BY DEF CancellersKnowWhom
<1>1. ASSUME NEW r \in Responses, CancelRead(c, r)  PROVE TypeOK'
  <2>1. [status |-> "cancelling", cancel_requested |-> TRUE] \in JobRecord
    BY DEF JobRecord
  <2>2. QED BY <1>1, <2>1, <1>n DEF CancelRead, Canceller
<1>2. CASE CancelPut(c)
  BY <1>2, <1>c, <1>i DEF CancelPut, Canceller
<1>3. CASE CancelSignal(c)
  <2>1. [canceller[c].copy EXCEPT !.status = "cancelled"] \in JobRecord
    BY <1>c DEF JobRecord, Ends, Canceller
  <2>2. [canceller[c] EXCEPT !.pc = "get", !.copy.status = "cancelled"] \in Canceller
    BY <1>c, <2>1 DEF Canceller
  <2>3. canceller' \in [Cancels -> Canceller]
    BY <1>3, <2>2 DEF CancelSignal
  <2>4. QED BY <1>3, <2>3 DEF CancelSignal, Jobs!CancelJob
<1>4. CASE CancelGetResponse(c)
  <2>1. resp[canceller[c].id] \in Stored
    BY <1>4, <1>i DEF CancelGetResponse
  <2>2. [resp[canceller[c].id] EXCEPT !.status = "cancelled"] \in Stored
    BY <2>1 DEF Stored, Ends
  <2>3. canceller' \in [Cancels -> Canceller]
    BY <1>4, <2>2, <1>n, <1>c DEF CancelGetResponse, Done, Canceller
  <2>4. QED BY <1>4, <2>3 DEF CancelGetResponse
<1>5. CASE CancelPutResponse(c)
  BY <1>5, <1>n, <1>c DEF CancelPutResponse, Canceller
<1>6. CASE CancelPutJob(c)
  BY <1>6, <1>n, <1>c DEF CancelPutJob, Canceller
<1>7. CASE CancelAnswer(c)
  BY <1>7, <1>c DEF CancelAnswer, Canceller
<1>8. QED BY <1>1, <1>2, <1>3, <1>4, <1>5, <1>6, <1>7 DEF CancelStep

\* A step of a delete keeps the types.
LEMMA DeleteTypes ==
    ASSUME TypeOK, DeletersKnowWhom, NEW d \in Deletes, DeleteStep(d)
    PROVE  TypeOK'
<1> USE DEF TypeOK, Jobs!JobTypeOK, handlers, durable, budgets, history, SetDeleter
<1>d. deleter[d] \in Deleter
  OBVIOUS
<1>i. deleter[d].pc # "new" => deleter[d].id \in Responses
  BY DEF DeletersKnowWhom
<1>1. ASSUME NEW r \in Responses, DeleteRead(d, r)  PROVE TypeOK'
  BY <1>1 DEF DeleteRead, Deleter
<1>2. CASE DeleteResponse(d)
  BY <1>2, <1>d, <1>i DEF DeleteResponse, NoResponse, Stored, Deleter
<1>3. CASE DeleteRecord(d)
  BY <1>3, <1>d DEF DeleteRecord, NoJob, JobRecord, Deleter
<1>4. CASE DeleteInput(d)
  BY <1>4, <1>d DEF DeleteInput, Deleter
<1>5. QED BY <1>1, <1>2, <1>3, <1>4 DEF DeleteStep

\* A step of the recovery keeps the types.
LEMMA RecoveryTypes ==
    ASSUME TypeOK, RecoveryStep
    PROVE  TypeOK'
<1> USE DEF TypeOK, handlers, durable, budgets, history
<1>b. BootRecovery \in Recovery
  BY DEF BootRecovery, Recovery, NoJob, JobRecord
<1>1. CASE RecoverNames
  BY <1>1 DEF RecoverNames, Recovery, Jobs!JobTypeOK
<1>2. ASSUME NEW r \in Responses, RecoverRead(r)  PROVE TypeOK'
  <2>1. recovery' \in Recovery
    BY <1>2, <1>b DEF RecoverRead, Recovery
  <2>2. QED BY <1>2, <2>1 DEF RecoverRead, Jobs!JobTypeOK
<1>3. ASSUME NEW r \in Responses, RecoverSpawn(r)  PROVE TypeOK'
  <2>1. recovery.seen[r] \in JobRecord
    BY DEF Recovery
  <2>2. Jobs!JobTypeOK' /\ worker' \in [Responses -> Worker]
    BY <1>3, <2>1, SpawnTypes DEF RecoverSpawn
  <2>3. recovery' \in Recovery
    BY <1>3 DEF RecoverSpawn, Recovery, NoJob, JobRecord
  <2>4. QED BY <1>3, <2>2, <2>3 DEF RecoverSpawn
<1>4. CASE RecoverDone
  <2>1. recovery' \in Recovery
    BY <1>4, <1>b DEF RecoverDone, Recovery
  <2>2. QED BY <1>4, <2>1 DEF RecoverDone, Jobs!JobTypeOK
<1>5. QED BY <1>1, <1>2, <1>3, <1>4 DEF RecoveryStep

\* A failure, a disconnect or a crash keeps the types.
LEMMA TroubleTypes ==
    ASSUME TypeOK, Trouble
    PROVE  TypeOK'
<1> USE BoundsAssumption DEF TypeOK, Jobs!JobTypeOK, handlers, durable, budgets, history
<1>n. NoJob \in JobRecord /\ NoResponse \in Stored /\ NoWorker \in Worker
  BY DEF NoJob, JobRecord, NoResponse, Stored, NoWorker, Worker
<1>1. ASSUME NEW r \in Responses, WorkerFault(r)  PROVE TypeOK'
  <2>1. worker[r] \in Worker
    OBVIOUS
  <2>2. /\ Towards(worker[r], "failed") \in Worker
        /\ [worker[r] EXCEPT !.pc = "job", !.stored = NoResponse] \in Worker
    BY <2>1, <1>n DEF Towards, Worker, Ends
  <2>6. Begins(r, worker[r].copy) \in Worker
    BY <2>1, BeginsTypes DEF Worker
  <2>3. worker' \in [Responses -> Worker]
    BY <1>1, <1>n, <2>2, <2>6 DEF WorkerFault, SetWorker
  <2>4. Jobs!JobTypeOK'
    BY <1>1 DEF WorkerFault, Jobs!FinishJob
  <2>5. QED BY <1>1, <2>3, <2>4 DEF WorkerFault
<1>e. ASSUME NEW c \in Cancels  PROVE Done(canceller[c]) \in Canceller
  BY <1>n DEF Done, Canceller
<1>d. ASSUME NEW d \in Deletes, NEW then \in {"input", "done"}
      PROVE  [deleter[d] EXCEPT !.pc = then, !.background = FALSE] \in Deleter
  BY DEF Deleter
<1> DEFINE HandlersTyped ==
             /\ creator' \in [Responses -> {"new", "record", "response", "spawn", "done"}]
             /\ canceller' \in [Cancels -> Canceller] /\ deleter' \in [Deletes -> Deleter]
<1>f. ASSUME NEW r \in Responses, NEW at, CreatorEnds(r, at)  PROVE HandlersTyped
  BY <1>f DEF CreatorEnds
<1>g. ASSUME NEW c \in Cancels, NEW at, CancellerEnds(c, at)  PROVE HandlersTyped
  BY <1>g, <1>e DEF CancellerEnds, SetCanceller
<1>h. ASSUME NEW d \in Deletes, NEW at, NEW then \in {"input", "done"}, DeleterGoes(d, at, then)
      PROVE  HandlersTyped
  BY <1>h, <1>d DEF DeleterGoes, SetDeleter
<1>2. CASE HandlerFault
  <2>1. HandlersTyped
    <3> HIDE DEF HandlersTyped
    <3>1. QED BY ONLY <1>2, <1>f, <1>g, <1>h DEF HandlerFault
  <2>2. QED BY <1>2, <2>1 DEF HandlerFault
<1>3. CASE HandlerDropped
  <2>1. HandlersTyped
    <3> HIDE DEF HandlersTyped
    <3>1. QED BY ONLY <1>3, <1>f, <1>g, <1>h DEF HandlerDropped
  <2>2. QED BY <1>3, <2>1 DEF HandlerDropped
<1>4. CASE Crash
  <2>1. HandlersTyped
    BY <1>4, <1>e, <1>d DEF Crash
  <2>2. recovery' \in Recovery /\ worker' \in [Responses -> Worker]
    BY <1>4, <1>n DEF Crash, BootRecovery, Recovery
  <2>3. Jobs!JobTypeOK'
    BY <1>4 DEF Crash, Jobs!StopAllJobs
  <2>4. crashes' \in 0..MaxCrashes
    <3>1. crashes < MaxCrashes /\ crashes' = crashes + 1 /\ crashes \in 0..MaxCrashes
      BY <1>4 DEF Crash
    <3>2. QED BY ONLY <3>1, BoundsAssumption
  <2>5. UNCHANGED <<rec, input, resp, faults, drops, asked, removed>>
    BY <1>4 DEF Crash
  <2>6. QED BY <2>1, <2>2, <2>3, <2>4, <2>5
<1>5. QED BY <1>1, <1>2, <1>3, <1>4 DEF Trouble

\* Every step keeps the types.
LEMMA TypeStep ==
    ASSUME TypeOK, CancellersKnowWhom, DeletersKnowWhom, [Next]_vars
    PROVE  TypeOK'
<1>1. CASE UNCHANGED vars
  BY <1>1 DEF vars, durable, handlers, budgets, history, TypeOK, Jobs!JobTypeOK
<1>2. QED
  BY <1>1, CreateTypes, WorkerTypes, CancelTypes, DeleteTypes, RecoveryTypes, TroubleTypes DEF Next

-----------------------------------------------------------------------------
\* Cancels and deletes keep to the response they were called for.
LEMMA HandlersStep ==
    ASSUME IInv, [Next]_vars
    PROVE  CancellersKnowWhom' /\ DeletersKnowWhom'
<1> USE DEF IInv, handlers, history
<1>1. CASE UNCHANGED <<canceller, deleter>> /\ asked \subseteq asked' /\ removed \subseteq removed'
  BY <1>1 DEF CancellersKnowWhom, DeletersKnowWhom
<1>2. ASSUME NEW c \in Cancels, CancelStep(c)
      PROVE  CancellersKnowWhom' /\ DeletersKnowWhom'
  <2> USE DEF TypeOK, Canceller, SetCanceller, CancellersKnowWhom, DeletersKnowWhom
  <2>1. ASSUME NEW r \in Responses, CancelRead(c, r)
        PROVE  CancellersKnowWhom' /\ DeletersKnowWhom'
    BY <2>1 DEF CancelRead
  <2>2. CASE CancelPut(c)
    BY <2>2 DEF CancelPut
  <2>3. CASE CancelSignal(c)
    BY <2>3 DEF CancelSignal
  <2>4. CASE CancelGetResponse(c)
    BY <2>4 DEF CancelGetResponse, Done, Stored
  <2>5. CASE CancelPutResponse(c)
    BY <2>5 DEF CancelPutResponse
  <2>6. CASE CancelPutJob(c)
    BY <2>6 DEF CancelPutJob
  <2>7. CASE CancelAnswer(c)
    BY <2>7 DEF CancelAnswer
  <2>8. QED BY <1>2, <2>1, <2>2, <2>3, <2>4, <2>5, <2>6, <2>7 DEF CancelStep
<1>3. ASSUME NEW d \in Deletes, DeleteStep(d)
      PROVE  CancellersKnowWhom' /\ DeletersKnowWhom'
  <2>1. CancellersKnowWhom'
    BY <1>3 DEF CancellersKnowWhom, DeleteStep, DeleteRead, DeleteResponse, DeleteRecord, DeleteInput, SetDeleter
  <2> USE DEF TypeOK, Deleter, SetDeleter, DeletersKnowWhom
  <2>2. ASSUME NEW r \in Responses, DeleteRead(d, r)  PROVE DeletersKnowWhom'
    BY <2>2 DEF DeleteRead
  <2>3. ASSUME DeleteResponse(d)  PROVE DeletersKnowWhom'
    BY <2>3 DEF DeleteResponse
  <2>4. ASSUME DeleteRecord(d) \/ DeleteInput(d)  PROVE DeletersKnowWhom'
    BY <2>4 DEF DeleteRecord, DeleteInput
  <2>5. QED
    BY <1>3, <2>1, <2>2, <2>3, <2>4 DEF DeleteStep
<1>4. CASE HandlerFault \/ HandlerDropped \/ Crash
  <2>1. UNCHANGED <<asked, removed>>
    BY <1>4 DEF HandlerFault, HandlerDropped, Crash
  <2>2. \A c \in Cancels : \/ canceller'[c] = canceller[c]
                           \/ canceller[c].pc # "new" /\ canceller'[c] = Done(canceller[c])
    BY <1>4 DEF TypeOK, HandlerFault, HandlerDropped, Crash, CreatorEnds, CancellerEnds, DeleterGoes,
                SetCanceller, SetDeleter
  <2>3. \A d \in Deletes : \/ deleter'[d] = deleter[d]
                           \/ /\ deleter[d].pc # "new" /\ deleter'[d].id = deleter[d].id
                              /\ \/ deleter'[d].pc = "done"
                                 \/ deleter[d].pc = "record" /\ deleter'[d].pc = "input"
    <3> USE DEF TypeOK, Deleter
    <3>1. CASE Crash
      BY <3>1 DEF Crash
    <3> DEFINE Stopped == \A e \in Deletes : \/ deleter'[e] = deleter[e]
                                             \/ /\ deleter[e].pc # "new" /\ deleter'[e].id = deleter[e].id
                                                /\ \/ deleter'[e].pc = "done"
                                                   \/ deleter[e].pc = "record" /\ deleter'[e].pc = "input"
    <3>2. ASSUME NEW d \in Deletes, NEW at, DeleterGoes(d, at, "done"), "new" \notin at  PROVE Stopped
      BY <3>2 DEF DeleterGoes, SetDeleter
    <3>3. ASSUME NEW d \in Deletes, DeleterGoes(d, {"record"}, "input")  PROVE Stopped
      BY <3>3 DEF DeleterGoes, SetDeleter
    <3>4. CASE HandlerFault
      <4>1. CASE UNCHANGED deleter
        BY <4>1
      <4>2. CASE \E d \in Deletes : \/ DeleterGoes(d, {"response", "input"}, "done")
                                    \/ DeleterGoes(d, {"record"}, "input")
        BY <4>2, <3>2, <3>3
      <4>3. QED BY <3>4, <4>1, <4>2 DEF HandlerFault, CreatorEnds, CancellerEnds, SetCanceller
    <3>5. CASE HandlerDropped
      <4>1. CASE UNCHANGED deleter
        BY <4>1
      <4>2. CASE \E d \in Deletes : DeleterGoes(d, {"response", "record", "input"}, "done")
        BY <4>2, <3>2
      <4>3. QED BY <3>5, <4>1, <4>2 DEF HandlerDropped, CreatorEnds, CancellerEnds, SetCanceller
    <3>6. QED BY <1>4, <3>1, <3>4, <3>5
  <2>4. \A c \in Cancels : /\ Done(canceller[c]).pc = "done"
                           /\ Done(canceller[c]).id = canceller[c].id
    BY DEF TypeOK, Canceller, Done
  <2>5. QED BY <2>1, <2>2, <2>3, <2>4 DEF CancellersKnowWhom, DeletersKnowWhom
<1>5. QED
  <2>1. ASSUME NEW r \in Responses, CreateStep(r) \/ WorkerStep(r) \/ WorkerFault(r)
        PROVE  UNCHANGED <<canceller, deleter, asked, removed>>
    BY <2>1 DEF CreateStep, CreateInput, CreateRecord, CreateResponse, CreateSpawn, WorkerStep,
                BeginRun, ReadLatest, PutInProgress, GetResponse, PutResponse, LoadInput,
                StoreAnswer, ExecutionEnds, PutEnd, WorkerFault
  <2>2. ASSUME RecoveryStep \/ UNCHANGED vars
        PROVE  UNCHANGED <<canceller, deleter, asked, removed>>
    BY <2>2 DEF RecoveryStep, RecoverNames, RecoverRead, RecoverSpawn, RecoverDone, vars
  <2>3. QED BY <1>1, <1>2, <1>3, <1>4, <2>1, <2>2 DEF Next, Trouble

-----------------------------------------------------------------------------
\* What the invariants say of response q, apart from its handlers.
Untouched(q) ==
    /\ rec'[q] = rec[q] /\ resp'[q] = resp[q] /\ worker'[q] = worker[q]
    /\ token'[q] \in {token[q], "none", "live"}
    /\ recovery'.seen[q] \in {recovery.seen[q], NoJob}
    /\ (q \in asked => q \in asked') /\ (q \in removed => q \in removed') /\ faults' >= faults

\* Steps for another response leave q alone.
LEMMA OtherResponse ==
    ASSUME IInv, NEW q \in Responses, NEW r \in Responses \ {q},
           CreateStep(r) \/ WorkerStep(r) \/ WorkerFault(r) \/ RecoverRead(r) \/ RecoverSpawn(r)
    PROVE  Untouched(q)
<1> USE DEF IInv, TypeOK, Jobs!JobTypeOK, Untouched, handlers, durable, budgets, history
<1>1. CASE CreateStep(r)
  BY <1>1 DEF CreateStep, CreateInput, CreateRecord, CreateResponse, CreateSpawn, Spawn,
              Jobs!EnqueueJob, Jobs!RefuseJob, Jobs!jobVars
<1>2. CASE WorkerStep(r)
  BY <1>2 DEF WorkerStep, SetWorker, BeginRun, ReadLatest, PutInProgress, GetResponse, PutResponse,
              LoadInput, StoreAnswer, ExecutionEnds, PutEnd, Jobs!StartJob, Jobs!FinishJob
<1>3. CASE WorkerFault(r)
  BY <1>3 DEF WorkerFault, SetWorker, Jobs!FinishJob
<1>4. CASE RecoverRead(r)
  BY <1>4 DEF RecoverRead, Recovery, BootRecovery
<1>5. CASE RecoverSpawn(r)
  BY <1>5 DEF RecoverSpawn, Recovery, Spawn, Jobs!EnqueueJob, Jobs!RefuseJob, Jobs!jobVars
<1>6. QED BY <1>1, <1>2, <1>3, <1>4, <1>5

\* What a step makes of the worker of q, and of q in the two stores.
Becomes(q, pc, to, copy, stored) ==
    /\ worker'[q].pc = pc /\ worker'[q].to = to
    /\ worker'[q].copy = copy /\ worker'[q].stored = stored

Stores(q, record, response) == rec'[q] = record /\ resp'[q] = response

Stops(q) == Becomes(q, "none", "none", NoJob, NoResponse) /\ token'[q] = "none"

\* The steps of the worker of q, by what they do to q.
WorkerMove(q) ==
    LET w == worker[q] IN
    \/ /\ w.pc = "spawned" /\ Becomes(q, "latest", w.to, w.copy, w.stored)
       /\ Stores(q, rec[q], resp[q])
    \/ /\ w.pc = "latest" /\ Stores(q, rec[q], resp[q])
       /\ \E copy \in {w.copy, rec[q]} :
             \/ copy.cancel_requested /\ Becomes(q, "get", "cancelled", copy, w.stored)
             \/ token[q] = "cancelled" /\ Becomes(q, "get", "cancelled", copy, w.stored)
             \/ Becomes(q, "begin", w.to, copy, w.stored)
    \/ /\ w.pc = "begin" /\ Becomes(q, "get", "in_progress", w.copy, w.stored)
       /\ resp'[q] = resp[q]
       /\ rec'[q].status = "in_progress"
       /\ rec'[q].cancel_requested => w.copy.cancel_requested
    \/ /\ w.pc = "get" /\ resp[q].status # "none" /\ w.to = "completed"
       /\ Becomes(q, "put", w.to, w.copy, resp[q]) /\ Stores(q, rec[q], resp[q])
    \/ /\ w.pc = "get" /\ resp[q].status # "none" /\ w.to # "completed"
       /\ Becomes(q, "put", w.to, w.copy, worker'[q].stored) /\ Stores(q, rec[q], resp[q])
       /\ worker'[q].stored.status = w.to
    \/ /\ w.pc = "get" /\ resp[q].status = "none" /\ w.to # "in_progress"
       /\ Becomes(q, "job", w.to, w.copy, w.stored) /\ Stores(q, rec[q], resp[q])
    \/ w.pc = "get" /\ w.to = "in_progress" /\ Stops(q) /\ Stores(q, rec[q], resp[q])
    \/ /\ w.pc = "put" /\ Stores(q, rec[q], w.stored)
       /\ Becomes(q, IF w.to = "in_progress" THEN "load" ELSE "job", w.to, w.copy, NoResponse)
    \/ /\ w.pc = "load" /\ Becomes(q, "run", w.to, w.copy, w.stored)
       /\ Stores(q, rec[q], resp[q])
    \/ /\ w.pc \in {"load", "run"} /\ Becomes(q, "get", "failed", w.copy, w.stored)
       /\ Stores(q, rec[q], resp[q])
    \/ /\ w.pc = "run" /\ Becomes(q, "answered", w.to, w.copy, w.stored)
       /\ rec'[q] = rec[q] /\ resp'[q].status = "completed" /\ resp'[q].answered
    \/ /\ w.pc = "answered" /\ Becomes(q, "get", "completed", w.copy, w.stored)
       /\ Stores(q, rec[q], resp[q])
    \/ /\ w.pc \in {"run", "answered"} /\ token[q] = "cancelled"
       /\ Becomes(q, "get", "cancelled", w.copy, w.stored) /\ Stores(q, rec[q], resp[q])
    \/ /\ w.pc = "job" /\ Stops(q) /\ resp'[q] = resp[q] /\ rec'[q].status = w.to
       /\ rec'[q].cancel_requested => w.copy.cancel_requested \/ w.to = "cancelled"

WorkerFrame(q) ==
    /\ UNCHANGED <<creator, canceller, deleter, recovery, asked, removed>>
    /\ token'[q] \in {token[q], "none"}

\* Every step of a worker is one of these.
LEMMA WorkerMoves ==
    ASSUME TypeOK, NEW q \in Responses, WorkerStep(q)
    PROVE  WorkerMove(q) /\ WorkerFrame(q) /\ UNCHANGED faults
<1>w. worker[q] \in Worker /\ rec[q] \in JobRecord /\ resp[q] \in Stored
  BY DEF TypeOK
<1>s. ASSUME NEW w, SetWorker(q, w)  PROVE worker'[q] = w
  BY <1>s DEF SetWorker, TypeOK
<1>r. ASSUME NEW x, rec' = [rec EXCEPT ![q] = x]  PROVE rec'[q] = x
  BY <1>r DEF TypeOK
<1>p. ASSUME NEW x, resp' = [resp EXCEPT ![q] = x]  PROVE resp'[q] = x
  BY <1>p DEF TypeOK
<1>f. ASSUME Jobs!FinishJob(q)  PROVE token'[q] = "none"
  BY <1>f DEF Jobs!FinishJob, TypeOK, Jobs!JobTypeOK
<1>u. UNCHANGED faults /\ UNCHANGED <<creator, canceller, deleter, recovery, asked, removed>>
  BY DEF WorkerStep, BeginRun, ReadLatest, PutInProgress, GetResponse, PutResponse, LoadInput,
         StoreAnswer, ExecutionEnds, PutEnd, handlers, budgets, history
<1>n. WorkerFrame(q)
  BY <1>u, <1>f DEF WorkerStep, BeginRun, ReadLatest, PutInProgress, GetResponse, PutResponse, LoadInput,
         StoreAnswer, ExecutionEnds, PutEnd, Jobs!StartJob, WorkerFrame
<1> SUFFICES WorkerMove(q)
  BY <1>u, <1>n
<1> USE DEF durable, WorkerAt, WorkerMove, Becomes, Stores, Stops
<1>1. CASE BeginRun(q)
  BY <1>1, <1>w, <1>s DEF BeginRun, Worker
<1>2. CASE ReadLatest(q)
  BY <1>2, <1>w, <1>s DEF ReadLatest, Begins, Worker, Towards
<1>3. CASE PutInProgress(q)
  <2>1. worker'[q] = [worker[q] EXCEPT !.pc = "get", !.to = "in_progress"]
    BY <1>3, <1>s DEF PutInProgress, Towards
  <2>2. rec'[q] = [worker[q].copy EXCEPT !.status = "in_progress"]
    BY <1>3, <1>r DEF PutInProgress
  <2>3. worker[q].pc = "begin" /\ resp'[q] = resp[q]
    BY <1>3 DEF PutInProgress
  <2>4. QED BY ONLY <2>1, <2>2, <2>3, <1>w DEF Worker, JobRecord, WorkerMove, Becomes
<1>4. CASE GetResponse(q)
  <2>1. worker[q].pc = "get" /\ Stores(q, rec[q], resp[q])
    BY <1>4 DEF GetResponse
  <2>2. CASE /\ resp[q].status # "none"
             /\ worker'[q] = [worker[q] EXCEPT !.pc = "put",
                                 !.stored = IF worker[q].to = "completed" THEN resp[q]
                                            ELSE [resp[q] EXCEPT !.status = worker[q].to]]
    BY ONLY <2>1, <2>2, <1>w DEF Worker, Stored, WorkerMove, Becomes
  <2>3. CASE /\ resp[q].status = "none" /\ worker[q].to # "in_progress"
             /\ worker'[q] = [worker[q] EXCEPT !.pc = "job"]
    BY ONLY <2>1, <2>3, <1>w DEF Worker, WorkerMove, Becomes
  <2>4. CASE worker[q].to = "in_progress" /\ worker'[q] = NoWorker /\ token'[q] = "none"
    BY <2>1, <2>4 DEF NoWorker
  <2>5. QED BY <1>4, <1>s, <1>f, <2>2, <2>3, <2>4 DEF GetResponse
<1>5. CASE PutResponse(q)
  <2>1. worker'[q] = [worker[q] EXCEPT !.pc = IF worker[q].to = "in_progress" THEN "load" ELSE "job",
                                       !.stored = NoResponse]
    BY <1>5, <1>s DEF PutResponse
  <2>2. resp'[q] = worker[q].stored
    BY <1>5, <1>p DEF PutResponse
  <2>3. worker[q].pc = "put" /\ rec'[q] = rec[q]
    BY <1>5 DEF PutResponse
  <2>4. QED BY ONLY <2>1, <2>2, <2>3, <1>w DEF Worker, WorkerMove, Becomes, Stores
<1>6. CASE LoadInput(q)
  BY <1>6, <1>w, <1>s DEF LoadInput, Worker, Towards
<1>7. CASE StoreAnswer(q)
  <2>1. worker'[q] = [worker[q] EXCEPT !.pc = "answered"]
    BY <1>7, <1>s DEF StoreAnswer
  <2>2. resp'[q] = [status |-> "completed", answered |-> TRUE]
    BY <1>7, <1>p DEF StoreAnswer
  <2>3. worker[q].pc = "run" /\ rec'[q] = rec[q]
    BY <1>7 DEF StoreAnswer
  <2>4. QED BY ONLY <2>1, <2>2, <2>3, <1>w DEF Worker, WorkerMove, Becomes
<1>8. CASE ExecutionEnds(q)
  BY <1>8, <1>w, <1>s DEF ExecutionEnds, Worker, Towards
<1>9. CASE PutEnd(q)
  <2>1. worker'[q] = NoWorker
    BY <1>9, <1>s DEF PutEnd
  <2>2. rec'[q] = EndedJob(worker[q])
    BY <1>9, <1>r DEF PutEnd
  <2>3. /\ rec'[q].status = worker[q].to
        /\ rec'[q].cancel_requested => worker[q].copy.cancel_requested \/ worker[q].to = "cancelled"
    BY ONLY <2>2, <1>w DEF EndedJob, Worker, JobRecord
  <2>4. worker[q].pc = "job" /\ token'[q] = "none" /\ resp'[q] = resp[q]
    BY <1>9, <1>f DEF PutEnd
  <2>5. QED BY <2>1, <2>3, <2>4 DEF NoWorker
<1>10. QED
  <2> HIDE DEF WorkerMove
  <2>1. QED BY <1>1, <1>2, <1>3, <1>4, <1>5, <1>6, <1>7, <1>8, <1>9 DEF WorkerStep

\* A spawn for q: refused, or the start of a worker with the snapshot.
Spawned(q, snapshot) ==
    \/ worker'[q] = worker[q] /\ token'[q] = token[q]
    \/ Becomes(q, "spawned", "none", snapshot, NoResponse) /\ token'[q] = "live"

CreateMove(q) ==
    \/ /\ creator[q] = "new" /\ creator'[q] = "record" /\ Stores(q, rec[q], resp[q])
       /\ worker'[q] = worker[q] /\ token'[q] = token[q]
    \/ /\ creator[q] = "record" /\ creator'[q] = "response" /\ Stores(q, Queued, resp[q])
       /\ worker'[q] = worker[q] /\ token'[q] = token[q]
    \/ /\ creator[q] = "response" /\ creator'[q] = "spawn"
       /\ Stores(q, rec[q], [status |-> "queued", answered |-> FALSE])
       /\ worker'[q] = worker[q] /\ token'[q] = token[q]
    \/ /\ creator[q] = "spawn" /\ creator'[q] = "done" /\ Stores(q, rec[q], resp[q])
       /\ Spawned(q, Queued)

\* The call of JobRuntime::spawn takes the job's key and its token, or finds the
\* response's job already there.
LEMMA SpawnMoves ==
    ASSUME TypeOK, NEW q \in Responses, NEW snapshot, Spawn(q, snapshot)
    PROVE  Spawned(q, snapshot)
<1>1. CASE /\ Jobs!EnqueueJob(q)
           /\ worker' = [worker EXCEPT ![q] = [NoWorker EXCEPT !.pc = "spawned", !.copy = snapshot]]
  <2>1. worker'[q] = [NoWorker EXCEPT !.pc = "spawned", !.copy = snapshot]
    BY <1>1 DEF TypeOK
  <2>2. token'[q] = "live"
    BY <1>1 DEF Jobs!EnqueueJob, TypeOK, Jobs!JobTypeOK
  <2>3. QED BY <2>1, <2>2 DEF Spawned, Becomes, NoWorker
<1>2. CASE Jobs!RefuseJob(q) /\ UNCHANGED worker
  BY <1>2 DEF Jobs!RefuseJob, Jobs!jobVars, Spawned
<1>3. QED BY <1>1, <1>2 DEF Spawn

\* Every step of create is one of these.
LEMMA CreateMoves ==
    ASSUME TypeOK, NEW q \in Responses, CreateStep(q)
    PROVE  CreateMove(q) /\ UNCHANGED <<canceller, deleter, recovery, asked, removed, faults>>
<1>u. UNCHANGED <<canceller, deleter, recovery, asked, removed, faults>>
  BY DEF CreateStep, CreateInput, CreateRecord, CreateResponse, CreateSpawn, budgets, history
<1> SUFFICES CreateMove(q)
  BY <1>u
<1> USE DEF TypeOK, CreateMove, Stores, durable
<1>1. CASE CreateInput(q)
  BY <1>1 DEF CreateInput
<1>2. CASE CreateRecord(q)
  BY <1>2 DEF CreateRecord
<1>3. CASE CreateResponse(q)
  <2>1. resp'[q] = [status |-> "queued", answered |-> FALSE]
    BY <1>3 DEF CreateResponse, NoResponse
  <2>2. QED BY <1>3, <2>1 DEF CreateResponse
<1>4. CASE CreateSpawn(q)
  BY <1>4, SpawnMoves DEF CreateSpawn
<1>5. QED BY <1>1, <1>2, <1>3, <1>4 DEF CreateStep

\* A cancel leaves q alone, or it has been called for q and q is asked for by now.
LEMMA CancelMoves ==
    ASSUME TypeOK, CancellersKnowWhom, NEW q \in Responses, NEW c \in Cancels, CancelStep(c)
    PROVE  /\ \/ rec'[q] = rec[q] /\ resp'[q] = resp[q] /\ token'[q] = token[q]
              \/ canceller[c].pc # "new" /\ canceller[c].id = q /\ q \in asked'
           /\ asked \subseteq asked'
           /\ q \in asked' => q \in asked \/ (canceller[c].pc # "new" /\ canceller[c].id = q)
           /\ UNCHANGED <<worker, creator, deleter, recovery, removed, faults>>
<1>1. UNCHANGED <<worker, creator, deleter, recovery, removed, faults>>
  BY DEF CancelStep, CancelRead, CancelPut, CancelSignal, CancelGetResponse, CancelPutResponse,
         CancelPutJob, CancelAnswer, SetCanceller, budgets, history
<1>2. asked' = asked \/ (canceller[c].pc = "begin" /\ asked' = asked \cup {canceller[c].id})
  <2>1. CASE CancelPut(c)
    BY <2>1 DEF CancelPut
  <2>2. QED
    BY <2>1 DEF CancelStep, CancelRead, CancelSignal, CancelGetResponse, CancelPutResponse,
       CancelPutJob, CancelAnswer, history
<1>3. \/ rec'[q] = rec[q] /\ resp'[q] = resp[q] /\ token'[q] = token[q]
      \/ canceller[c].pc # "new" /\ canceller[c].id = q
  <2> USE DEF TypeOK, Jobs!JobTypeOK, durable
  <2>1. ASSUME NEW r \in Responses, CancelRead(c, r)
        PROVE  rec'[q] = rec[q] /\ resp'[q] = resp[q] /\ token'[q] = token[q]
    BY <2>1 DEF CancelRead
  <2>2. CASE CancelPut(c)
    BY <2>2 DEF CancelPut
  <2>3. CASE CancelSignal(c)
    BY <2>3 DEF CancelSignal, Jobs!CancelJob
  <2>4. CASE CancelGetResponse(c) \/ CancelAnswer(c)
    BY <2>4 DEF CancelGetResponse, CancelAnswer
  <2>5. CASE CancelPutResponse(c)
    BY <2>5 DEF CancelPutResponse
  <2>6. CASE CancelPutJob(c)
    BY <2>6 DEF CancelPutJob
  <2>7. QED BY <2>1, <2>2, <2>3, <2>4, <2>5, <2>6 DEF CancelStep
<1>4. ASSUME canceller[c].id = q, canceller[c].pc # "new"
      PROVE  q \in asked' \/ (rec'[q] = rec[q] /\ resp'[q] = resp[q] /\ token'[q] = token[q])
  <2>1. CASE canceller[c].pc \notin {"new", "begin", "done"}
    BY <1>2, <1>4, <2>1 DEF CancellersKnowWhom
  <2>2. CASE CancelPut(c)
    BY <1>2, <1>4, <2>2 DEF CancelPut, history
  <2>3. QED
    BY <1>4, <2>1, <2>2 DEF CancelStep, CancelRead, CancelSignal, CancelGetResponse,
       CancelPutResponse, CancelPutJob, CancelAnswer
<1>5. QED BY <1>1, <1>2, <1>3, <1>4

\* A delete leaves q alone, or q is deleted by now.
LEMMA DeleteMoves ==
    ASSUME TypeOK, DeletersKnowWhom, NEW q \in Responses, NEW d \in Deletes, DeleteStep(d)
    PROVE  /\ rec'[q] = rec[q] \/ (rec'[q] = NoJob /\ q \in removed')
           /\ \/ resp'[q] = resp[q]
              \/ resp'[q] = NoResponse /\ (q \in removed' \/ resp[q].status = "none")
           /\ removed \subseteq removed'
           /\ q \in removed' => q \in removed \/ resp[q].status # "none"
           /\ UNCHANGED <<worker, token, job, creator, canceller, recovery, asked, faults>>
<1>1. UNCHANGED <<worker, token, job, creator, canceller, recovery, asked, faults>>
  BY DEF DeleteStep, DeleteRead, DeleteResponse, DeleteRecord, DeleteInput, SetDeleter, budgets, history
<1> USE DEF durable, history
<1>2. CASE DeleteResponse(d)
  <2>1. /\ rec' = rec /\ resp' = [resp EXCEPT ![deleter[d].id] = NoResponse]
        /\ removed' = IF resp[deleter[d].id].status = "none" THEN removed
                      ELSE removed \cup {deleter[d].id}
    BY <1>2 DEF DeleteResponse
  <2>2. QED BY <1>1, <2>1 DEF TypeOK
<1>3. CASE DeleteRecord(d)
  <2>1. /\ rec' = [rec EXCEPT ![deleter[d].id] = NoJob] /\ resp' = resp /\ removed' = removed
        /\ deleter[d].id \in removed
    BY <1>3 DEF DeleteRecord, DeletersKnowWhom
  <2>2. QED BY <1>1, <2>1 DEF TypeOK
<1>4. ASSUME DeleteInput(d) \/ \E r \in Responses : DeleteRead(d, r)
      PROVE  rec' = rec /\ resp' = resp /\ removed' = removed
  BY <1>4 DEF DeleteInput, DeleteRead
<1>5. QED BY <1>1, <1>2, <1>3, <1>4 DEF DeleteStep

\* The recovery reads the record of q, or starts the job with what it has read.
LEMMA RecoveryMoves ==
    ASSUME TypeOK, NEW q \in Responses, RecoveryStep
    PROVE  /\ Stores(q, rec[q], resp[q])
           /\ \/ /\ worker'[q] = worker[q] /\ token'[q] = token[q]
                 /\ recovery'.seen[q] \in {recovery.seen[q], rec[q], NoJob}
              \/ /\ recovery.seen[q].status \in Recovered
                 /\ Spawned(q, recovery.seen[q]) /\ recovery'.seen[q] = NoJob
           /\ UNCHANGED <<creator, canceller, deleter, asked, removed, faults>>
<1>1. Stores(q, rec[q], resp[q]) /\ UNCHANGED <<creator, canceller, deleter, asked, removed, faults>>
  BY DEF RecoveryStep, RecoverNames, RecoverRead, RecoverSpawn, RecoverDone, Stores, durable,
         handlers, budgets, history
<1> DEFINE Reads == /\ worker'[q] = worker[q] /\ token'[q] = token[q]
                    /\ recovery'.seen[q] \in {recovery.seen[q], rec[q], NoJob}
<1>2. CASE RecoverNames \/ RecoverDone
  <2>1. Reads
    <3>1. CASE RecoverNames
      BY <3>1 DEF RecoverNames, Recovery, TypeOK
    <3>2. CASE RecoverDone
      BY <3>2 DEF RecoverDone, BootRecovery
    <3>3. QED BY <1>2, <3>1, <3>2
  <2>2. QED BY <1>1, <2>1
<1>3. ASSUME NEW r \in Responses, RecoverRead(r)  PROVE Reads
  BY <1>3 DEF RecoverRead, Recovery, BootRecovery, TypeOK
<1>4. ASSUME NEW r \in Responses, RecoverSpawn(r), r # q  PROVE Reads
  <2>1. worker'[q] = worker[q] /\ token'[q] = token[q]
    BY <1>4 DEF RecoverSpawn, Spawn, Jobs!EnqueueJob, Jobs!RefuseJob, Jobs!jobVars, TypeOK, Jobs!JobTypeOK
  <2>2. recovery'.seen[q] = recovery.seen[q]
    BY <1>4 DEF RecoverSpawn, Recovery, TypeOK
  <2>3. QED BY <2>1, <2>2
<1>5. ASSUME RecoverSpawn(q)
      PROVE  /\ recovery.seen[q].status \in Recovered
             /\ Spawned(q, recovery.seen[q]) /\ recovery'.seen[q] = NoJob
  BY <1>5, SpawnMoves DEF RecoverSpawn, Recovery, TypeOK
<1>6. QED BY <1>1, <1>2, <1>3, <1>4, <1>5 DEF RecoveryStep

\* A failing call of the worker, which is counted.
LEMMA FaultMoves ==
    ASSUME TypeOK, NEW q \in Responses, WorkerFault(q)
    PROVE  /\ faults' > 0 /\ Stores(q, rec[q], resp[q]) /\ WorkerFrame(q)
           /\ \/ Stops(q) /\ (worker[q].pc \in {"begin", "job"} \/ worker[q].to = "in_progress")
              \/ /\ worker[q].pc = "latest"
                 /\ \/ /\ worker[q].copy.cancel_requested \/ token[q] = "cancelled"
                       /\ Becomes(q, "get", "cancelled", worker[q].copy, worker[q].stored)
                    \/ Becomes(q, "begin", worker[q].to, worker[q].copy, worker[q].stored)
              \/ worker[q].pc = "load" /\ Becomes(q, "get", "failed", worker[q].copy, worker[q].stored)
              \/ /\ worker[q].pc \in {"get", "put"} /\ worker[q].to # "in_progress"
                 /\ Becomes(q, "job", worker[q].to, worker[q].copy, NoResponse)
<1>w. worker[q] \in Worker /\ faults \in Nat
  BY BoundsAssumption DEF TypeOK
<1>s. ASSUME NEW w, SetWorker(q, w)  PROVE worker'[q] = w
  BY <1>s DEF SetWorker, TypeOK
<1>f. ASSUME Jobs!FinishJob(q)  PROVE token'[q] = "none"
  BY <1>f DEF Jobs!FinishJob, TypeOK, Jobs!JobTypeOK
<1>1. faults' > 0 /\ Stores(q, rec[q], resp[q]) /\ WorkerFrame(q)
  <2>1. faults' = faults + 1 /\ UNCHANGED <<rec, resp, handlers, recovery, history>>
    BY DEF WorkerFault, durable
  <2>2. token'[q] \in {token[q], "none"}
    BY <1>f DEF WorkerFault
  <2>3. QED BY <1>w, <2>1, <2>2 DEF Stores, WorkerFrame, handlers, history
<1>2. CASE /\ worker[q].pc \in {"begin", "job"} \/ worker[q].to = "in_progress"
           /\ SetWorker(q, NoWorker) /\ Jobs!FinishJob(q)
  <2>1. worker'[q] = NoWorker /\ token'[q] = "none"
    BY <1>2, <1>s, <1>f
  <2>2. QED BY <1>1, <1>2, <2>1 DEF Stops, Becomes, NoWorker
<1>3. CASE worker[q].pc = "load" /\ SetWorker(q, Towards(worker[q], "failed"))
  <2>1. worker'[q] = [worker[q] EXCEPT !.pc = "get", !.to = "failed"]
    BY <1>3, <1>s DEF Towards
  <2>2. QED BY <1>1, <1>3, <1>w, <2>1 DEF Becomes, Worker
<1>4. CASE /\ worker[q].pc \in {"get", "put"} /\ worker[q].to # "in_progress"
           /\ SetWorker(q, [worker[q] EXCEPT !.pc = "job", !.stored = NoResponse])
  <2>1. worker'[q] = [worker[q] EXCEPT !.pc = "job", !.stored = NoResponse]
    BY <1>4, <1>s
  <2>2. QED BY <1>1, <1>4, <1>w, <2>1 DEF Becomes, Worker
<1>5. CASE worker[q].pc = "latest" /\ SetWorker(q, Begins(q, worker[q].copy))
  <2>1. worker'[q] = Begins(q, worker[q].copy)
    BY <1>5, <1>s
  <2>2. QED BY <1>1, <1>5, <1>w, <2>1 DEF Becomes, Begins, Towards, Worker
<1>6. QED BY <1>2, <1>3, <1>4, <1>5 DEF WorkerFault

\* A failing or dropped handler stops, and leaves the response alone.
LEMMA HandlerMoves ==
    ASSUME TypeOK, HandlerFault \/ HandlerDropped
    PROVE  /\ UNCHANGED <<rec, resp, job, token, worker, recovery, asked, removed>>
           /\ faults' >= faults
           /\ \A r \in Responses : creator'[r] \in {creator[r], "done"}
           /\ \A c \in Cancels : /\ canceller'[c].id = canceller[c].id
                                 /\ canceller'[c].pc # canceller[c].pc =>
                                       canceller[c].pc # "new" /\ canceller'[c].pc = "done"
<1>1. UNCHANGED <<rec, resp, job, token, worker, recovery, asked, removed>> /\ faults' >= faults
  BY BoundsAssumption DEF HandlerFault, HandlerDropped, durable, history, TypeOK
<1> DEFINE Stopped(c) == /\ canceller'[c].id = canceller[c].id
                         /\ canceller'[c].pc # canceller[c].pc =>
                               canceller[c].pc # "new" /\ canceller'[c].pc = "done"
<1>2. ASSUME NEW at, "new" \notin at, NEW c \in Cancels, CancellerEnds(c, at), NEW e \in Cancels
      PROVE  Stopped(e)
  <2>1. canceller' = [canceller EXCEPT ![c] = Done(canceller[c])] /\ canceller[c].pc # "new"
    BY <1>2 DEF CancellerEnds, SetCanceller
  <2>2. Done(canceller[c]).pc = "done" /\ Done(canceller[c]).id = canceller[c].id
    BY DEF Done, TypeOK, Canceller
  <2>3. QED BY <2>1, <2>2 DEF TypeOK
<1>3. ASSUME NEW at, NEW c \in Cancels, CancellerEnds(c, at)
      PROVE  UNCHANGED creator
  BY <1>3 DEF CancellerEnds, SetCanceller
<1>4. ASSUME NEW at, NEW r \in Responses, CreatorEnds(r, at)
      PROVE  UNCHANGED canceller /\ \A q \in Responses : creator'[q] \in {creator[q], "done"}
  BY <1>4 DEF CreatorEnds, TypeOK
<1>5. ASSUME NEW at, NEW then, NEW d \in Deletes, DeleterGoes(d, at, then)
      PROVE  UNCHANGED <<creator, canceller>>
  BY <1>5 DEF DeleterGoes, SetDeleter
<1>6. CASE HandlerFault
  BY <1>1, <1>2, <1>3, <1>4, <1>5, <1>6 DEF HandlerFault
<1>7. CASE HandlerDropped
  BY <1>1, <1>2, <1>3, <1>4, <1>5, <1>7 DEF HandlerDropped
<1>8. QED BY <1>6, <1>7

\* After a crash there is no worker, no token, no copy.
LEMMA CrashMoves ==
    ASSUME TypeOK, NEW q \in Responses, Crash
    PROVE  /\ Stops(q) /\ Stores(q, rec[q], resp[q]) /\ recovery'.seen[q] = NoJob
           /\ creator'[q] = (IF creator[q] = "new" THEN "new" ELSE "done")
           /\ UNCHANGED <<asked, removed, faults>>
           /\ \A c \in Cancels : /\ canceller'[c].id = canceller[c].id
                                 /\ canceller'[c].pc # canceller[c].pc =>
                                       canceller[c].pc # "new" /\ canceller'[c].pc = "done"
<1>1. worker'[q] = NoWorker /\ token'[q] = "none" /\ recovery'.seen[q] = NoJob
  BY DEF Crash, Jobs!StopAllJobs, BootRecovery
<1>2. /\ Stores(q, rec[q], resp[q]) /\ UNCHANGED <<asked, removed, faults>>
      /\ creator'[q] = (IF creator[q] = "new" THEN "new" ELSE "done")
  BY DEF Crash, Stores, durable, history
<1>3. ASSUME NEW c \in Cancels
      PROVE  /\ canceller'[c].id = canceller[c].id
             /\ canceller'[c].pc # canceller[c].pc =>
                   canceller[c].pc # "new" /\ canceller'[c].pc = "done"
  <2>1. Done(canceller[c]).pc = "done" /\ Done(canceller[c]).id = canceller[c].id
    BY DEF Done, TypeOK, Canceller
  <2>2. canceller'[c] = canceller[c] \/ (canceller[c].pc # "new" /\ canceller'[c] = Done(canceller[c]))
    BY DEF Crash
  <2>3. QED BY <2>1, <2>2
<1>4. QED BY <1>1, <1>2, <1>3 DEF Stops, Becomes, NoWorker

-----------------------------------------------------------------------------
\* A stutter, or a step that is for another response.
LEMMA StepsElsewhere ==
    ASSUME IInv, NEW q \in Responses, [Next]_vars
    PROVE  \/ CreateStep(q) \/ WorkerStep(q) \/ WorkerFault(q) \/ RecoveryStep
           \/ \E c \in Cancels : CancelStep(c)
           \/ \E d \in Deletes : DeleteStep(d)
           \/ HandlerFault \/ HandlerDropped \/ Crash
           \/ Untouched(q) /\ UNCHANGED <<canceller, asked, removed>> /\ creator'[q] = creator[q]
<1>1. CASE UNCHANGED vars
  BY <1>1 DEF vars, durable, handlers, budgets, history, Untouched, IInv, TypeOK, BoundsAssumption
<1>2. ASSUME NEW r \in Responses \ {q}, CreateStep(r) \/ WorkerStep(r) \/ WorkerFault(r)
      PROVE  Untouched(q) /\ UNCHANGED <<canceller, asked, removed>> /\ creator'[q] = creator[q]
  <2>1. Untouched(q)
    BY <1>2, OtherResponse
  <2>2. CASE CreateStep(r)
    <3>1. UNCHANGED <<canceller, asked, removed>>
      BY <2>2, CreateMoves DEF IInv
    <3>2. creator'[q] = creator[q]
      BY <2>2 DEF CreateStep, CreateInput, CreateRecord, CreateResponse, CreateSpawn, IInv, TypeOK
    <3>3. QED BY <2>1, <3>1, <3>2
  <2>3. CASE WorkerStep(r) \/ WorkerFault(r)
    BY <2>1, <2>3, WorkerMoves, FaultMoves DEF IInv, WorkerFrame
  <2>4. QED BY <1>2, <2>2, <2>3
<1>3. QED BY <1>1, <1>2 DEF Next, Trouble

\* Whatever happens, a cancellation comes from a client.
LEMMA CancelsStep ==
    ASSUME IInv, [Next]_vars
    PROVE  CancelsComeFromClients'
<1> SUFFICES ASSUME NEW q \in Responses  PROVE CancelComesFromClient(q)'
  BY DEF CancelsComeFromClients
<1>q. CancelComesFromClient(q)
  BY DEF IInv, CancelsComeFromClients
<1>i. TypeOK /\ CancellersKnowWhom /\ DeletersKnowWhom
  BY DEF IInv
<1>t. worker[q].to # "cancelling"
  BY <1>i DEF TypeOK, Worker, Ends
<1>n. ~SaysCancelled(NoJob) /\ ~SaysCancelled(Queued)
  BY DEF SaysCancelled, NoJob, Queued
<1>0. CASE Untouched(q)
  BY <1>0, <1>q, <1>n DEF Untouched, CancelComesFromClient
<1>1. CASE CreateStep(q)
  <2>1. CreateMove(q) /\ UNCHANGED <<recovery, asked>>
    BY <1>1, <1>i, CreateMoves
  <2>2. QED
    BY ONLY <2>1, <1>q, <1>n DEF CreateMove, Spawned, Becomes, Stores, CancelComesFromClient, NoResponse
<1>2. CASE WorkerStep(q)
  <2>1. WorkerMove(q) /\ UNCHANGED <<recovery, asked>> /\ token'[q] \in {token[q], "none"}
    BY <1>2, <1>i, WorkerMoves DEF WorkerFrame
  <2>2. QED
    BY ONLY <2>1, <1>q, <1>t DEF WorkerMove, Becomes, Stops, Stores, CancelComesFromClient,
                                 SaysCancelled, NoResponse, NoJob
<1>3. ASSUME NEW c \in Cancels, CancelStep(c)  PROVE CancelComesFromClient(q)'
  BY <1>3, <1>i, <1>q, CancelMoves DEF CancelComesFromClient
<1>4. ASSUME NEW d \in Deletes, DeleteStep(d)  PROVE CancelComesFromClient(q)'
  BY <1>4, <1>i, <1>q, <1>n, DeleteMoves DEF CancelComesFromClient, NoResponse
<1>5. CASE RecoveryStep
  <2>1. /\ Stores(q, rec[q], resp[q]) /\ UNCHANGED asked
        /\ \/ /\ worker'[q] = worker[q] /\ token'[q] = token[q]
              /\ recovery'.seen[q] \in {recovery.seen[q], rec[q], NoJob}
           \/ Spawned(q, recovery.seen[q]) /\ recovery'.seen[q] = NoJob
    BY <1>5, <1>i, RecoveryMoves
  <2>2. QED
    BY ONLY <2>1, <1>q, <1>n DEF Stores, Spawned, Becomes, CancelComesFromClient, NoResponse
<1>6. CASE WorkerFault(q)
  <2>1. /\ Stores(q, rec[q], resp[q]) /\ UNCHANGED <<recovery, asked>>
        /\ token'[q] \in {token[q], "none"}
        /\ worker'[q].to \in {worker[q].to, "none", "failed"}
              \/ worker[q].copy.cancel_requested \/ token[q] = "cancelled"
        /\ worker'[q].copy \in {worker[q].copy, NoJob}
        /\ worker'[q].stored \in {worker[q].stored, NoResponse}
    BY <1>6, <1>i, FaultMoves DEF WorkerFrame, Stops, Becomes
  <2>2. QED
    BY ONLY <2>1, <1>q, <1>n DEF Stores, SaysCancelled, CancelComesFromClient, NoResponse
<1>7. CASE HandlerFault \/ HandlerDropped
  BY <1>7, <1>i, <1>q, HandlerMoves DEF CancelComesFromClient
<1>8. CASE Crash
  BY <1>8, <1>i, <1>q, <1>n, CrashMoves DEF Stops, Becomes, Stores, CancelComesFromClient, NoResponse
<1>9. QED
  BY <1>0, <1>1, <1>2, <1>3, <1>4, <1>5, <1>6, <1>7, <1>8, StepsElsewhere

\* Nobody comes to know of a response whose queued version is not stored.
LEMMA UnknownStep ==
    ASSUME IInv, [Next]_vars
    PROVE  UnknownUntilQueued'
<1> DEFINE Early(r) ==
      /\ creator[r] \in {"new", "record", "response"} => NobodyKnows(r)
      /\ creator[r] \in {"new", "record"} =>
            rec[r].status = "none" /\ recovery.seen[r].status = "none" /\ worker[r].pc = "none"
<1> SUFFICES ASSUME NEW q \in Responses  PROVE Early(q)'
  BY DEF UnknownUntilQueued
<1>q. Early(q)
  BY DEF IInv, UnknownUntilQueued
<1>i. TypeOK /\ CancellersKnowWhom /\ DeletersKnowWhom
  BY DEF IInv
<1>a. \/ q \in asked
      \/ ~SaysCancelled(worker[q].copy) /\ ~SaysCancelled(rec[q]) /\ token[q] # "cancelled"
  BY DEF IInv, CancelsComeFromClients, CancelComesFromClient
<1>n. NoJob.status = "none" /\ Queued.status = "queued" /\ NoResponse.status = "none"
  BY DEF NoJob, Queued, NoResponse
<1> HIDE DEF Early
<1>s. ASSUME q \in asked' => q \in asked, q \in removed' => q \in removed,
             creator'[q] \in {creator[q], "done"}, Stores(q, rec[q], resp[q]),
             recovery'.seen[q] \in {recovery.seen[q], NoJob},
             worker'[q] = worker[q] \/ worker'[q].pc = "none",
             \A c \in Cancels : canceller'[c].id = q /\ canceller'[c].pc # "new" =>
                                   canceller[c].id = q /\ canceller[c].pc # "new"
      PROVE  Early(q)'
  BY ONLY <1>s, <1>q, <1>n DEF Early, NobodyKnows, Stores
<1>1. CASE CreateStep(q)
  <2>1. CreateMove(q) /\ UNCHANGED <<canceller, recovery, asked, removed>>
    BY <1>1, <1>i, CreateMoves
  <2>2. QED
    BY ONLY <2>1, <1>q, <1>n DEF CreateMove, Spawned, Becomes, Stores, Early, NobodyKnows, Ends
<1>2. CASE WorkerStep(q)
  <2>1. WorkerMove(q) /\ UNCHANGED <<canceller, creator, recovery, asked, removed>>
    BY <1>2, <1>i, WorkerMoves DEF WorkerFrame
  <2>2. QED
    BY ONLY <2>1, <1>q, <1>a DEF WorkerMove, Becomes, Stops, Stores, Early, NobodyKnows, SaysCancelled, Ends
<1>3. ASSUME NEW c \in Cancels, CancelStep(c)  PROVE Early(q)'
  <2>1. CASE creator[q] \in {"new", "record", "response"}
    <3>1. ~(canceller[c].pc # "new" /\ canceller[c].id = q) /\ resp[q].status = "none" /\ q \notin removed
      BY <1>q, <2>1 DEF Early, NobodyKnows
    <3>2. /\ rec'[q] = rec[q] /\ resp'[q] = resp[q] /\ q \notin asked'
          /\ UNCHANGED <<worker, creator, recovery, removed>>
      BY <1>3, <1>i, <1>q, <2>1, <3>1, CancelMoves DEF Early, NobodyKnows
    <3>3. canceller' = [canceller EXCEPT ![c] = canceller'[c]]
      BY <1>3, <1>i DEF CancelStep, CancelRead, CancelPut, CancelSignal, CancelGetResponse,
         CancelPutResponse, CancelPutJob, CancelAnswer, SetCanceller, TypeOK
    <3>4. canceller'[c].id # q \/ canceller'[c].pc = "new"
      <4>1. ASSUME NEW r \in Responses, CancelRead(c, r)  PROVE canceller'[c].id # q
        BY <3>1, <4>1, <1>i DEF CancelRead, Known, SetCanceller, TypeOK
      <4>2. ASSUME \/ CancelPut(c) \/ CancelSignal(c) \/ CancelGetResponse(c)
                   \/ CancelPutResponse(c) \/ CancelPutJob(c) \/ CancelAnswer(c)
            PROVE  canceller[c].pc # "new" /\ canceller'[c].id = canceller[c].id
        <5>1. canceller[c] \in Canceller
          BY <1>i DEF TypeOK
        <5>2. \E entry : /\ canceller' = [canceller EXCEPT ![c] = entry]
                         /\ entry.id = canceller[c].id
          BY <4>2, <5>1 DEF CancelPut, CancelSignal, CancelGetResponse,
             CancelPutResponse, CancelPutJob, CancelAnswer, SetCanceller, Done, Canceller
        <5>3. QED
          BY <4>2, <5>2, <1>i DEF TypeOK, CancelPut, CancelSignal, CancelGetResponse,
             CancelPutResponse, CancelPutJob, CancelAnswer
      <4>3. QED BY <1>3, <3>1, <4>1, <4>2 DEF CancelStep
    <3>5. ASSUME NEW e \in Cancels, canceller'[e].id = q, canceller'[e].pc # "new"
          PROVE  canceller[e].id = q /\ canceller[e].pc # "new"
      BY <1>i, <3>3, <3>4, <3>5 DEF TypeOK
    <3>6. QED BY <1>s, <3>2, <3>5 DEF Stores
  <2>2. CASE creator[q] \notin {"new", "record", "response"}
    BY <1>3, <1>i, <2>2, CancelMoves DEF Early
  <2>3. QED BY <2>1, <2>2
<1>4. ASSUME NEW d \in Deletes, DeleteStep(d)  PROVE Early(q)'
  BY <1>4, <1>i, <1>q, <1>n, DeleteMoves DEF Early, NobodyKnows, Ends
<1>5. CASE RecoveryStep
  <2>1. /\ Stores(q, rec[q], resp[q]) /\ UNCHANGED <<creator, canceller, asked, removed>>
        /\ \/ /\ worker'[q] = worker[q] /\ token'[q] = token[q]
              /\ recovery'.seen[q] \in {recovery.seen[q], rec[q], NoJob}
           \/ /\ recovery.seen[q].status \in Recovered
              /\ Spawned(q, recovery.seen[q]) /\ recovery'.seen[q] = NoJob
    BY <1>5, <1>i, RecoveryMoves
  <2>2. QED
    BY ONLY <2>1, <1>q, <1>n DEF Stores, Spawned, Becomes, Early, NobodyKnows, Recovered
<1>6. CASE WorkerFault(q)
  <2>1. /\ Stores(q, rec[q], resp[q]) /\ UNCHANGED <<creator, canceller, recovery, asked, removed>>
        /\ \/ Stops(q)
           \/ /\ worker[q].pc = "latest"
              /\ \/ worker'[q].pc = "begin"
                 \/ worker[q].copy.cancel_requested \/ token[q] = "cancelled"
           \/ worker[q].pc = "load"
           \/ worker[q].pc \in {"get", "put"} /\ worker[q].to # "in_progress"
    BY <1>6, <1>i, FaultMoves DEF WorkerFrame, Becomes
  <2>2. QED
    BY ONLY <2>1, <1>q, <1>a DEF Stores, Stops, Becomes, Early, NobodyKnows, SaysCancelled
<1>7. CASE HandlerFault \/ HandlerDropped
  BY <1>7, <1>i, <1>s, HandlerMoves DEF Stores
<1>8. CASE Crash
  BY <1>8, <1>i, <1>s, CrashMoves DEF Stops, Becomes
<1>9. CASE Untouched(q) /\ UNCHANGED <<canceller, asked, removed>> /\ creator'[q] = creator[q]
  BY <1>9, <1>s DEF Untouched, Stores
<1>10. QED
  BY <1>1, <1>2, <1>3, <1>4, <1>5, <1>6, <1>7, <1>8, <1>9, StepsElsewhere

\* A completed status is never stored, or held for storing, without the answer.
LEMMA AnswerStep ==
    ASSUME IInv, [Next]_vars
    PROVE  CompletedIsAnswered'
<1> SUFFICES ASSUME NEW q \in Responses  PROVE AnswerComesWithStatus(q)'
  BY DEF CompletedIsAnswered
<1>q. AnswerComesWithStatus(q)
  BY DEF IInv, CompletedIsAnswered
<1>i. TypeOK /\ CancellersKnowWhom /\ DeletersKnowWhom
  BY DEF IInv
<1>n. NoResponse.status = "none"
  BY DEF NoResponse
<1> USE DEF AnswerComesWithStatus
<1>1. CASE CreateStep(q)
  <2>1. CreateMove(q)
    BY <1>1, <1>i, CreateMoves
  <2>2. QED BY ONLY <2>1, <1>q, <1>n DEF CreateMove, Spawned, Becomes, Stores
<1>2. CASE WorkerStep(q)
  <2>1. WorkerMove(q)
    BY <1>2, <1>i, WorkerMoves
  <2>2. QED BY ONLY <2>1, <1>q, <1>n DEF WorkerMove, Becomes, Stops, Stores
<1>3. ASSUME NEW c \in Cancels, CancelStep(c)  PROVE AnswerComesWithStatus(q)'
  <2>1. worker' = worker
    BY <1>3, <1>i, CancelMoves
  <2>2. CASE resp'[q] = resp[q]
    BY <1>q, <2>1, <2>2
  <2>3. CASE resp'[q] # resp[q]
    <3>1. CancelPutResponse(c)
      BY <1>3, <2>3 DEF CancelStep, CancelRead, CancelPut, CancelSignal, CancelGetResponse,
         CancelPutJob, CancelAnswer, durable
    <3>2. canceller[c].stored.status = "cancelled" /\ resp'[q] = canceller[c].stored
      BY <1>i, <2>3, <3>1 DEF CancelPutResponse, CancellersKnowWhom, TypeOK
    <3>3. QED BY <1>q, <2>1, <3>2
  <2>4. QED BY <2>2, <2>3
<1>4. ASSUME NEW d \in Deletes, DeleteStep(d)  PROVE AnswerComesWithStatus(q)'
  BY <1>4, <1>i, <1>q, <1>n, DeleteMoves
<1>5. CASE RecoveryStep
  <2>1. Stores(q, rec[q], resp[q]) /\ (worker'[q] = worker[q] \/ Spawned(q, recovery.seen[q]))
    BY <1>5, <1>i, RecoveryMoves
  <2>2. QED BY ONLY <2>1, <1>q, <1>n DEF Stores, Spawned, Becomes
<1>6. CASE WorkerFault(q)
  BY <1>6, <1>i, <1>q, <1>n, FaultMoves DEF Stops, Becomes, Stores
<1>7. CASE HandlerFault \/ HandlerDropped
  BY <1>7, <1>i, <1>q, HandlerMoves
<1>8. CASE Crash
  BY <1>8, <1>i, <1>q, <1>n, CrashMoves DEF Stops, Becomes, Stores
<1>9. CASE Untouched(q)
  BY <1>9, <1>q DEF Untouched
<1>10. QED
  BY <1>1, <1>2, <1>3, <1>4, <1>5, <1>6, <1>7, <1>8, <1>9, StepsElsewhere

\* As long as nobody disturbs it, the worker brings the two stores forward
\* together, and ends both with the same status.
LEMMA InStepStep ==
    ASSUME IInv, [Next]_vars
    PROVE  WorkersInStep'
<1> SUFFICES ASSUME NEW q \in Responses  PROVE StoresInStep(q)'
  BY DEF WorkersInStep
<1>q. StoresInStep(q)
  BY DEF IInv, WorkersInStep
<1>i. TypeOK /\ CancellersKnowWhom /\ DeletersKnowWhom
  BY DEF IInv
<1>a. \/ q \in asked
      \/ ~SaysCancelled(worker[q].copy) /\ ~SaysCancelled(rec[q]) /\ token[q] # "cancelled"
  BY DEF IInv, CancelsComeFromClients, CancelComesFromClient
<1>u. /\ creator[q] \in {"new", "record", "response"} => NobodyKnows(q)
      /\ creator[q] \in {"new", "record"} =>
            rec[q].status = "none" /\ recovery.seen[q].status = "none" /\ worker[q].pc = "none"
  BY DEF IInv, UnknownUntilQueued
<1>n. NoJob.status = "none" /\ Queued.status = "queued" /\ NoResponse.status = "none"
  BY DEF NoJob, Queued, NoResponse
<1>f. faults \in Nat /\ faults' \in Nat
  BY <1>i, TypeStep, BoundsAssumption DEF TypeOK
<1>1. CASE CreateStep(q)
  <2>1. CreateMove(q) /\ UNCHANGED <<asked, removed, faults>>
    BY <1>1, <1>i, CreateMoves
  <2>2. QED
    BY ONLY <2>1, <1>q, <1>u, <1>n DEF CreateMove, Spawned, Becomes, Stores, StoresInStep,
                                       WorkerInStep, Disturbed, NobodyKnows, Ends
<1>2. CASE WorkerStep(q)
  <2>1. WorkerMove(q) /\ UNCHANGED <<asked, removed, faults>>
    BY <1>2, <1>i, WorkerMoves DEF WorkerFrame
  <2>2. CASE Disturbed(q)
    BY ONLY <2>1, <2>2 DEF Disturbed, StoresInStep
  <2>3. CASE ~Disturbed(q)
    BY ONLY <2>1, <2>3, <1>q, <1>a DEF WorkerMove, Becomes, Stops, Stores, StoresInStep,
                                       WorkerInStep, Disturbed, SaysCancelled, Ends
  <2>4. QED BY <2>2, <2>3
<1>3. ASSUME NEW c \in Cancels, CancelStep(c)  PROVE StoresInStep(q)'
  <2>1. /\ q \in asked' \/ (rec'[q] = rec[q] /\ resp'[q] = resp[q])
        /\ asked \subseteq asked' /\ UNCHANGED <<worker, removed, faults>>
    BY <1>3, <1>i, CancelMoves
  <2>2. QED BY ONLY <2>1, <1>q DEF StoresInStep, WorkerInStep, Disturbed
<1>4. ASSUME NEW d \in Deletes, DeleteStep(d)  PROVE StoresInStep(q)'
  <2>1. /\ rec'[q] = rec[q] \/ (rec'[q] = NoJob /\ q \in removed')
        /\ \/ resp'[q] = resp[q]
           \/ resp'[q] = NoResponse /\ (q \in removed' \/ resp[q].status = "none")
        /\ removed \subseteq removed' /\ UNCHANGED <<worker, asked, faults>>
    BY <1>4, <1>i, DeleteMoves
  <2>2. QED BY ONLY <2>1, <1>q, <1>n DEF StoresInStep, WorkerInStep, Disturbed
<1>5. CASE RecoveryStep
  <2>1. /\ Stores(q, rec[q], resp[q]) /\ UNCHANGED <<asked, removed, faults>>
        /\ worker'[q] = worker[q] \/ Spawned(q, recovery.seen[q])
    BY <1>5, <1>i, RecoveryMoves
  <2>2. QED
    BY ONLY <2>1, <1>q DEF Stores, Spawned, Becomes, StoresInStep, WorkerInStep, Disturbed
<1>6. CASE WorkerFault(q)
  BY <1>6, <1>i, FaultMoves DEF StoresInStep, Disturbed
<1>7. CASE HandlerFault \/ HandlerDropped
  <2>1. UNCHANGED <<rec, resp, worker, asked, removed>> /\ faults' >= faults
    BY <1>7, <1>i, <1>f, HandlerMoves DEF HandlerFault, HandlerDropped
  <2>2. QED BY ONLY <2>1, <1>q, <1>f DEF StoresInStep, WorkerInStep, Disturbed
<1>8. CASE Crash
  <2>1. Stops(q) /\ Stores(q, rec[q], resp[q]) /\ UNCHANGED <<asked, removed, faults>>
    BY <1>8, <1>i, CrashMoves
  <2>2. QED
    BY ONLY <2>1, <1>q DEF Stops, Stores, Becomes, StoresInStep, WorkerInStep, Disturbed
<1>9. CASE Untouched(q) /\ UNCHANGED <<asked, removed>>
  BY <1>9, <1>q, <1>f DEF Untouched, StoresInStep, WorkerInStep, Disturbed
<1>10. QED
  BY <1>1, <1>2, <1>3, <1>4, <1>5, <1>6, <1>7, <1>8, <1>9, StepsElsewhere

-----------------------------------------------------------------------------
\* Each part of the invariant holds at the start.
LEMMA InvInit == Init => IInv /\ NoJobNoWorker
<1> SUFFICES ASSUME Init  PROVE IInv /\ NoJobNoWorker
  OBVIOUS
<1> USE DEF Init, NoJob, NoResponse, NoWorker
<1>1. TypeOK
  <2>1. NoJob \in JobRecord /\ NoResponse \in Stored /\ NoWorker \in Worker
    BY DEF JobRecord, Stored, Worker
  <2>2. BootRecovery \in Recovery
    BY DEF BootRecovery, Recovery, JobRecord
  <2>3. /\ [pc |-> "new", id |-> None, copy |-> NoJob, stored |-> NoResponse] \in Canceller
        /\ [pc |-> "new", id |-> None, background |-> FALSE] \in Deleter
    BY DEF Canceller, Deleter, JobRecord, Stored
  <2> HIDE DEF NoJob, NoResponse, NoWorker
  <2>4. QED
    BY <2>1, <2>2, <2>3, BoundsAssumption DEF TypeOK, Jobs!JobTypeOK, Jobs!JobInit
<1>2. CancelsComeFromClients /\ CompletedIsAnswered
  BY DEF CancelsComeFromClients, CancelComesFromClient, SaysCancelled, BootRecovery, Jobs!JobInit,
         CompletedIsAnswered, AnswerComesWithStatus
<1>3. CancellersKnowWhom /\ DeletersKnowWhom
  BY DEF CancellersKnowWhom, DeletersKnowWhom
<1>4. UnknownUntilQueued
  BY DEF UnknownUntilQueued, NobodyKnows, BootRecovery, Ends
<1>5. WorkersInStep
  BY DEF WorkersInStep, StoresInStep, WorkerInStep, Ends
<1>6. QED BY <1>1, <1>2, <1>3, <1>4, <1>5 DEF IInv, NoJobNoWorker

\* Every step keeps the invariant.
LEMMA InvStep ==
    ASSUME IInv, [Next]_vars
    PROVE  IInv'
BY TypeStep, HandlersStep, CancelsStep, UnknownStep, AnswerStep, InStepStep DEF IInv

\* The invariant holds in every state of every behaviour.
LEMMA Invariance == Spec => []IInv
<1>1. IInv /\ [Next]_vars => IInv'
  BY InvStep
<1>2. QED BY InvInit, <1>1, PTL DEF Spec

\* Every variable of the background responses keeps its type.
THEOREM TypeCorrect == Spec => []TypeOK
<1>1. IInv => TypeOK
  BY DEF IInv
<1>2. QED BY Invariance, <1>1, PTL

\* A cancelled status, or the mark of a cancel, is never stored for a response
\* that no client has cancelled, whatever the worker, the recovery and the
\* handlers hold in their copies.
THEOREM CancelledIsTrue == Spec => []CancelledWasAsked
<1>1. IInv => CancelledWasAsked
  BY DEF IInv, CancelsComeFromClients, CancelComesFromClient, SaysCancelled, CancelledWasAsked
<1>2. QED BY Invariance, <1>1, PTL

\* The two stores agree on how a job has ended unless somebody has cancelled or
\* deleted the response or a store call has failed, and a completed response
\* always has its answer: StatusIsTrue of the run.
THEOREM StatusAlwaysTrue == Spec => []StatusIsTrue
<1>1. IInv => PolledStatusIsTrue
  BY DEF IInv, CompletedIsAnswered, AnswerComesWithStatus, WorkersInStep, StoresInStep, Disturbed,
         PolledStatusIsTrue
<1>2. IInv => TypeOK
  BY DEF IInv
<1>3. QED BY Invariance, CancelledIsTrue, <1>1, <1>2, PTL DEF StatusIsTrue

-----------------------------------------------------------------------------
\* Which steps change the job of q.
LEMMA JobMoves ==
    ASSUME TypeOK, NEW q \in Responses, [Next]_vars
    PROVE  \/ job'[q] = job[q]
           \/ CreateStep(q) \/ WorkerStep(q) \/ WorkerFault(q) \/ RecoverSpawn(q) \/ Crash
<1> USE DEF TypeOK, Jobs!JobTypeOK
<1>1. CASE UNCHANGED vars
  BY <1>1 DEF vars
<1>2. ASSUME NEW r \in Responses, CreateStep(r) \/ WorkerStep(r), r # q
      PROVE  job'[q] = job[q]
  <2>1. CASE CreateStep(r)
    BY <1>2, <2>1 DEF CreateStep, CreateInput, CreateRecord, CreateResponse, CreateSpawn, Spawn,
       Jobs!EnqueueJob, Jobs!RefuseJob, Jobs!jobVars
  <2>2. CASE WorkerStep(r)
    BY <1>2, <2>2 DEF WorkerStep, BeginRun, ReadLatest, PutInProgress, GetResponse, PutResponse,
       LoadInput, StoreAnswer, ExecutionEnds, PutEnd, Jobs!StartJob, Jobs!FinishJob
  <2>3. QED BY <1>2, <2>1, <2>2
<1>3. ASSUME NEW c \in Cancels, CancelStep(c)  PROVE job'[q] = job[q]
  BY <1>3 DEF CancelStep, CancelRead, CancelPut, CancelSignal, CancelGetResponse, CancelPutResponse,
     CancelPutJob, CancelAnswer, Jobs!CancelJob
<1>4. ASSUME NEW d \in Deletes, DeleteStep(d)  PROVE job'[q] = job[q]
  BY <1>4 DEF DeleteStep, DeleteRead, DeleteResponse, DeleteRecord, DeleteInput
<1>5. ASSUME RecoveryStep, ~RecoverSpawn(q)  PROVE job'[q] = job[q]
  BY <1>5 DEF RecoveryStep, RecoverNames, RecoverRead, RecoverSpawn, RecoverDone, Spawn,
     Jobs!EnqueueJob, Jobs!RefuseJob, Jobs!jobVars
<1>6. ASSUME NEW r \in Responses, WorkerFault(r), r # q  PROVE job'[q] = job[q]
  BY <1>6 DEF WorkerFault, Jobs!FinishJob
<1>7. ASSUME HandlerFault \/ HandlerDropped  PROVE job'[q] = job[q]
  BY <1>7 DEF HandlerFault, HandlerDropped
<1>8. QED BY <1>1, <1>2, <1>3, <1>4, <1>5, <1>6, <1>7 DEF Next, Trouble

\* No step leaves a worker without its job.
LEMMA JobsStep ==
    ASSUME IInv, NoJobNoWorker, [Next]_vars
    PROVE  NoJobNoWorker'
<1> SUFFICES ASSUME NEW q \in Responses, job'[q] = "idle"  PROVE worker'[q].pc = "none"
  BY DEF NoJobNoWorker
<1>q. job[q] = "idle" => worker[q].pc = "none"
  BY DEF NoJobNoWorker
<1>i. TypeOK /\ CancellersKnowWhom /\ DeletersKnowWhom
  BY DEF IInv
<1> USE DEF TypeOK, Jobs!JobTypeOK
<1>1. CASE CreateStep(q) \/ RecoverSpawn(q)
  <2>1. UNCHANGED <<job, worker>>
    BY <1>1, <1>i DEF CreateStep, CreateInput, CreateRecord, CreateResponse, CreateSpawn, RecoverSpawn,
       Spawn, Jobs!EnqueueJob, Jobs!RefuseJob, Jobs!jobVars
  <2>2. QED BY <2>1, <1>q
<1>2. CASE WorkerStep(q)
  <2>1. CASE job'[q] = job[q]
    <3>1. worker[q].pc = "none"
      BY <1>q, <2>1
    <3>2. QED BY <1>2, <1>i, <3>1, WorkerMoves DEF WorkerMove
  <2>2. CASE job'[q] # job[q]
    <3>1. worker'[q] = NoWorker
      BY <1>2, <1>i, <2>2 DEF WorkerStep, BeginRun, ReadLatest, PutInProgress, GetResponse, PutResponse,
         LoadInput, StoreAnswer, ExecutionEnds, PutEnd, Jobs!StartJob, SetWorker
    <3>2. QED BY <3>1 DEF NoWorker
  <2>3. QED BY <2>1, <2>2
<1>3. CASE WorkerFault(q)
  <2>1. CASE job'[q] = job[q]
    <3>1. job[q] = "idle" /\ worker[q].pc = "none" /\ ~Jobs!FinishJob(q)
      BY <1>q, <2>1 DEF Jobs!FinishJob
    <3>2. QED BY <1>3, <3>1 DEF WorkerFault
  <2>2. CASE job'[q] # job[q]
    <3>1. worker'[q] = NoWorker
      BY <1>3, <1>i, <2>2 DEF WorkerFault, SetWorker
    <3>2. QED BY <3>1 DEF NoWorker
  <2>3. QED BY <2>1, <2>2
<1>4. CASE Crash
  BY <1>4, <1>i, CrashMoves DEF Stops, Becomes
<1>5. CASE ~CreateStep(q) /\ ~WorkerStep(q) /\ ~WorkerFault(q) /\ ~Crash /\ ~RecoverSpawn(q)
  <2>1. worker'[q] = worker[q]
    <3>1. CASE RecoveryStep
      BY <1>5, <1>i, <3>1 DEF RecoveryStep, RecoverNames, RecoverRead, RecoverSpawn, RecoverDone, Spawn,
         Jobs!EnqueueJob, Jobs!RefuseJob, Jobs!jobVars
    <3>2. QED
      BY <1>5, <1>i, <3>1, StepsElsewhere, CancelMoves, DeleteMoves, HandlerMoves DEF Untouched
  <2>2. job'[q] = job[q]
    BY <1>5, <1>i, JobMoves
  <2>3. QED BY <1>q, <2>1, <2>2
<1>6. QED BY <1>1, <1>2, <1>3, <1>4, <1>5

\* A cancel does nothing to a settled response, except to answer.
LEMMA SettledCancel ==
    ASSUME TypeOK, NEW q \in Responses, Settled(q), NEW c \in Cancels, CancelStep(c)
    PROVE  /\ rec'[q] = rec[q] /\ resp'[q] = resp[q]
           /\ \A e \in Cancels : canceller'[e].id = q => canceller'[e].pc \in {"answer", "ok", "done"}
<1>s. \A e \in Cancels : canceller[e].id = q => canceller[e].pc \in {"answer", "ok", "done"}
  BY DEF Settled
<1>r. rec[q].status \in Ends \cup {"none"}
  BY DEF Settled, ActiveJob, TypeOK, JobRecord
<1>c. canceller[c] \in Canceller
  BY DEF TypeOK
<1> USE DEF TypeOK, SetCanceller, durable
<1>1. ASSUME NEW r \in Responses, CancelRead(c, r)
      PROVE  /\ rec' = rec /\ resp' = resp /\ canceller' = [canceller EXCEPT ![c] = canceller'[c]]
             /\ canceller'[c].id # q
  BY <1>r, <1>1 DEF CancelRead
<1>2. CASE CancelAnswer(c)
  <2>1. rec' = rec /\ resp' = resp
    BY <1>2 DEF CancelAnswer
  <2>2. /\ canceller' = [canceller EXCEPT ![c] = canceller'[c]]
        /\ canceller'[c].pc \in {"ok", "done"}
    BY <1>2, <1>c DEF CancelAnswer, Canceller
  <2>3. QED BY <1>s, <2>1, <2>2
<1>3. ASSUME \/ CancelPut(c) \/ CancelSignal(c) \/ CancelGetResponse(c)
             \/ CancelPutResponse(c) \/ CancelPutJob(c)
      PROVE  /\ canceller[c].id # q
             /\ canceller' = [canceller EXCEPT ![c] = canceller'[c]]
             /\ canceller'[c].id = canceller[c].id
  <2>1. canceller[c].id # q
    BY <1>s, <1>3 DEF CancelPut, CancelSignal, CancelGetResponse, CancelPutResponse, CancelPutJob
  <2>2. CASE CancelGetResponse(c)
    BY <1>c, <2>1, <2>2 DEF CancelGetResponse, Done, Canceller
  <2>3. CASE CancelSignal(c)
    BY <1>c, <2>1, <2>3 DEF CancelSignal, Canceller
  <2>4. CASE CancelPut(c)
    BY <1>c, <2>1, <2>4 DEF CancelPut, Canceller
  <2>5. CASE CancelPutResponse(c)
    BY <1>c, <2>1, <2>5 DEF CancelPutResponse, Canceller
  <2>6. CASE CancelPutJob(c)
    BY <1>c, <2>1, <2>6 DEF CancelPutJob, Canceller
  <2>7. QED BY <1>3, <2>2, <2>3, <2>4, <2>5, <2>6
<1>4. ASSUME \/ CancelPut(c) \/ CancelSignal(c) \/ CancelGetResponse(c)
             \/ CancelPutResponse(c) \/ CancelPutJob(c)
      PROVE  rec'[q] = rec[q] /\ resp'[q] = resp[q]
  BY <1>3, <1>4 DEF CancelPut, CancelSignal, CancelGetResponse, CancelPutResponse, CancelPutJob
<1>5. QED BY <1>s, <1>1, <1>2, <1>3, <1>4 DEF CancelStep

\* Nothing but a deletion changes a settled response.
LEMMA SettledStep ==
    ASSUME IInv, NoJobNoWorker, NEW q \in Responses, Settled(q), [Next]_vars
    PROVE  /\ rec'[q] \in {rec[q], NoJob} /\ resp'[q] \in {resp[q], NoResponse}
           /\ Settled(q)'
<1>i. TypeOK /\ CancellersKnowWhom /\ DeletersKnowWhom
  BY DEF IInv
<1>w. worker[q].pc = "none" /\ job[q] = "idle" /\ creator[q] = "done"
  BY DEF NoJobNoWorker, Settled
<1>r. rec[q].status \notin Recovered \cup {"cancelling"} /\ recovery.seen[q].status \notin Recovered
  BY DEF Settled, ActiveJob
<1>n. NoJob.status = "none"
  BY DEF NoJob
<1> DEFINE NoCopies == \A c \in Cancels : canceller'[c].id = q => canceller'[c].pc \in {"answer", "ok", "done"}
           Kept == /\ rec'[q] \in {rec[q], NoJob} /\ resp'[q] \in {resp[q], NoResponse}
                   /\ creator'[q] = "done" /\ job'[q] = "idle"
                   /\ recovery'.seen[q] \in {recovery.seen[q], rec[q], NoJob}
<1>k. ASSUME Kept, NoCopies
      PROVE  /\ rec'[q] \in {rec[q], NoJob} /\ resp'[q] \in {resp[q], NoResponse}
             /\ Settled(q)'
  BY ONLY <1>k, <1>r, <1>n DEF Settled, ActiveJob, Recovered
<1>c. NoCopies \/ canceller' # canceller
  BY DEF Settled
<1>1. ~CreateStep(q) /\ ~WorkerStep(q) /\ ~WorkerFault(q) /\ ~RecoverSpawn(q)
  <2>1. ~CreateStep(q)
    BY <1>w, <1>i, CreateMoves DEF CreateMove
  <2>2. ~WorkerStep(q)
    BY <1>w, <1>i, WorkerMoves DEF WorkerMove
  <2>3. ~WorkerFault(q)
    BY <1>w DEF WorkerFault, Jobs!FinishJob
  <2>4. ~RecoverSpawn(q)
    BY <1>r DEF RecoverSpawn
  <2>5. QED BY <2>1, <2>2, <2>3, <2>4
<1>2. CASE Crash
  <2>1. job'[q] = "idle"
    BY <1>2 DEF Crash, Jobs!StopAllJobs
  <2>2. Kept
    BY <1>2, <1>i, <1>w, <2>1, CrashMoves DEF Stores
  <2>3. NoCopies
    BY <1>2, <1>i, CrashMoves DEF Settled
  <2>4. QED BY <1>k, <2>2, <2>3
<1>3. job'[q] = "idle" \/ Crash
  BY <1>1, <1>i, <1>w, JobMoves
<1>4. ASSUME NEW c \in Cancels, CancelStep(c), ~Crash
      PROVE  Kept /\ NoCopies
  <2>1. UNCHANGED <<creator, recovery>>
    BY <1>4, <1>i, CancelMoves
  <2>2. QED BY <1>3, <1>4, <1>i, <1>w, <2>1, SettledCancel
<1>5. ASSUME NEW d \in Deletes, DeleteStep(d), ~Crash
      PROVE  Kept /\ NoCopies
  BY <1>3, <1>5, <1>i, <1>w, <1>c, DeleteMoves
<1>6. ASSUME RecoveryStep, ~Crash
      PROVE  Kept /\ NoCopies
  <2>1. /\ Stores(q, rec[q], resp[q]) /\ UNCHANGED <<creator, canceller>>
        /\ recovery'.seen[q] \in {recovery.seen[q], rec[q], NoJob}
    BY <1>6, <1>i, <1>r, RecoveryMoves
  <2>2. QED BY <1>3, <1>6, <1>w, <1>c, <2>1 DEF Stores
<1>7. ASSUME HandlerFault \/ HandlerDropped, ~Crash
      PROVE  Kept /\ NoCopies
  <2>1. NoCopies
    BY <1>7, <1>i, HandlerMoves DEF Settled
  <2>2. QED BY <1>3, <1>7, <1>i, <1>w, <2>1, HandlerMoves
<1>8. ASSUME Untouched(q), UNCHANGED canceller, creator'[q] = creator[q], ~Crash
      PROVE  Kept /\ NoCopies
  BY <1>3, <1>8, <1>w, <1>c DEF Untouched
<1>9. QED
  <2> HIDE DEF Kept, NoCopies
  <2>1. QED BY <1>k, <1>1, <1>2, <1>4, <1>5, <1>6, <1>7, <1>8, StepsElsewhere

\* A response that has ended or is deleted, and of which nobody holds an older
\* copy, changes by deletion only: through later calls, failures and restarts,
\* an answer is not lost and a deleted response does not come back.
THEOREM SettledStays == Spec => SettledIsFinal
<1>1. IInv /\ NoJobNoWorker /\ [Next]_vars => IInv' /\ NoJobNoWorker'
  BY InvStep, JobsStep
<1>2. IInv /\ NoJobNoWorker /\ [Next]_vars =>
         [\A r \in Responses : Settled(r) =>
             /\ rec'[r] \in {rec[r], NoJob} /\ resp'[r] \in {resp[r], NoResponse}
             /\ Settled(r)']_vars
  BY SettledStep
<1>3. QED BY InvInit, <1>1, <1>2, PTL DEF Spec, SettledIsFinal

-----------------------------------------------------------------------------
(* Sequences of sequences.  FlattenSeq is a recursive function on the       *)
(* numbers of the sequences; that there is one, and what holds of it,       *)
(* follows from the least number for which it would fail.                   *)

Elements(s) == {s[i] : i \in 1..Len(s)}
IsSeq(s) == s \in Seq(Elements(s))
AreSeqs(ss) == IsSeq(ss) /\ \A i \in 1..Len(ss) : IsSeq(ss[i])

\* A set of natural numbers that is not empty has a least element.
HasLeast(T) == \E x \in T : \A y \in T : x <= y

\* It is that of a well-founded order.
LEMMA LeastExists ==
    ASSUME NEW T \in SUBSET Nat, T # {}
    PROVE  HasLeast(T)
<1>1. PICK x \in T : \A y \in T : <<y, x>> \notin OpToRel(<, Nat)
  BY NatLessThanWellFounded, WFMin
<1>2. \A i, j \in Nat : i < j => <<i, j>> \in OpToRel(<, Nat)
  BY DEF OpToRel
<1>3. ASSUME NEW y \in T PROVE x <= y
  <2>1. x \in Nat /\ y \in Nat
    OBVIOUS
  <2>2. ~(y < x)
    BY <1>1, <1>2, <2>1
  <2>3. QED BY <2>1, <2>2
<1>4. QED BY <1>3 DEF HasLeast

\* Hence what holds at 1 and is passed on holds everywhere.
LEMMA Upwards ==
    ASSUME NEW n \in Nat, NEW Good, 1 \in Good,
           \A m \in 2..n : m - 1 \in Good => m \in Good
    PROVE  \A m \in 1..n : m \in Good
<1> DEFINE Bad == {m \in 1..n : m \notin Good}
<1>1. CASE Bad = {}
  BY <1>1
<1>2. CASE Bad # {}
  <2>1. HasLeast(Bad)
    BY <1>2, LeastExists
  <2>2. PICK m \in Bad : \A k \in Bad : m <= k
    BY <2>1 DEF HasLeast
  <2>3. m \in 2..n
    BY <2>2
  <2>4. m - 1 \in 1..n /\ m - 1 \notin Bad
    BY <2>2, <2>3
  <2>5. QED BY <2>2, <2>3, <2>4
<1>3. QED BY <1>1, <1>2

\* Every sequence is one over its own elements.
LEMMA AnySeq ==
    ASSUME NEW S, NEW s \in Seq(S)
    PROVE  IsSeq(s)
<1>1. Len(s) \in Nat /\ DOMAIN s = 1..Len(s) /\ \A i \in 1..Len(s) : s[i] \in Elements(s)
  BY DEF Elements
<1>2. s = [i \in 1..Len(s) |-> s[i]]
  BY <1>1
<1>3. [i \in 1..Len(s) |-> s[i]] \in Seq(Elements(s))
  BY <1>1
<1>4. QED BY <1>2, <1>3 DEF IsSeq

\* The elements of a sequence are those at its places.
LEMMA SeqParts ==
    ASSUME NEW s, IsSeq(s)
    PROVE  /\ Len(s) \in Nat /\ DOMAIN s = 1..Len(s)
           /\ s = [i \in 1..Len(s) |-> s[i]]
BY DEF IsSeq

\* Two sequences joined: the elements of the one, then those of the other.
LEMMA Joined ==
    ASSUME NEW a, NEW b, IsSeq(a), IsSeq(b)
    PROVE  /\ IsSeq(a \o b)
           /\ Len(a \o b) = Len(a) + Len(b)
           /\ \A i \in 1..Len(a) : (a \o b)[i] = a[i]
           /\ \A i \in 1..Len(b) : (a \o b)[Len(a) + i] = b[i]
           /\ \A k \in 1..(Len(a) + Len(b)) : k \in 1..Len(a) \/ \E i \in 1..Len(b) : k = Len(a) + i
<1> DEFINE S == Elements(a) \cup Elements(b)
<1>1. a \in Seq(Elements(a)) /\ b \in Seq(Elements(b))
  BY DEF IsSeq
<1>2. a \in Seq(S) /\ b \in Seq(S)
  <2>1. \A x \in {a, b} : x \in Seq(Elements(x)) /\ Elements(x) \subseteq S
    BY <1>1
  <2> HIDE DEF S
  <2>2. ASSUME NEW x \in {a, b} PROVE x \in Seq(S)
    <3>1. x \in Seq(Elements(x)) /\ Elements(x) \subseteq S
      BY <2>1
    <3>2. Len(x) \in Nat /\ DOMAIN x = 1..Len(x) /\ \A i \in 1..Len(x) : x[i] \in S
      BY <3>1
    <3>3. x = [i \in 1..Len(x) |-> x[i]]
      BY <3>1
    <3>4. [i \in 1..Len(x) |-> x[i]] \in Seq(S)
      BY <3>2
    <3>5. QED BY <3>3, <3>4
  <2>3. QED BY <2>2
<1> HIDE DEF S
<1>3. a \o b \in Seq(S) /\ Len(a \o b) = Len(a) + Len(b)
  BY <1>2
<1>4. Len(a) \in Nat /\ Len(b) \in Nat
  BY <1>2
<1>5. \A i \in 1..Len(a) : (a \o b)[i] = a[i]
  BY <1>2, <1>4
<1>6. \A i \in 1..Len(b) : (a \o b)[Len(a) + i] = b[i]
  BY <1>2, <1>4
<1>7. ASSUME NEW k \in 1..(Len(a) + Len(b)), k \notin 1..Len(a)
      PROVE  \E i \in 1..Len(b) : k = Len(a) + i
  <2>1. k - Len(a) \in 1..Len(b) /\ k = Len(a) + (k - Len(a))
    BY <1>4, <1>7
  <2>2. QED BY <2>1
<1>8. IsSeq(a \o b)
  BY <1>3, AnySeq
<1>9. QED BY <1>3, <1>5, <1>6, <1>7, <1>8

\* The recursive function of FlattenSeq, up to the sequence number n.
IsTable(ss, f, n) == f = [i \in 1..n |-> IF i = 1 THEN ss[i] ELSE f[i - 1] \o ss[i]]
HasTable(ss, n) == \E f : IsTable(ss, f, n)

\* The joins of the first sequences, up to any number of them, form a table.
LEMMA TableExists ==
    ASSUME NEW ss, NEW n \in Nat
    PROVE  \A m \in 1..n : HasTable(ss, m)
<1> DEFINE Good == {m \in 1..n : HasTable(ss, m)}
<1>1. n >= 1 => 1 \in Good
  <2>1. IsTable(ss, [i \in 1..1 |-> ss[i]], 1)
    BY DEF IsTable
  <2>2. QED BY <2>1 DEF HasTable
<1>2. ASSUME NEW m \in 2..n, m - 1 \in Good PROVE m \in Good
  <2>1. PICK f : IsTable(ss, f, m - 1)
    BY <1>2 DEF HasTable
  <2> DEFINE g == [i \in 1..m |-> IF i = m THEN f[m - 1] \o ss[m] ELSE f[i]]
  <2>2. \A i \in 1..m : g[i] = IF i = 1 THEN ss[i] ELSE g[i - 1] \o ss[i]
    <3> SUFFICES ASSUME NEW i \in 1..m
                 PROVE  g[i] = IF i = 1 THEN ss[i] ELSE g[i - 1] \o ss[i]
      OBVIOUS
    <3>1. CASE i = m
      <4>1. i # 1 /\ i - 1 # m /\ i - 1 \in 1..m
        BY <3>1
      <4>2. QED BY <3>1, <4>1
    <3>2. CASE i # m
      <4>1. i \in 1..(m - 1) /\ (i # 1 => i - 1 \in 1..m /\ i - 1 # m)
        BY <3>2
      <4>2. f[i] = IF i = 1 THEN ss[i] ELSE f[i - 1] \o ss[i]
        BY <2>1, <4>1 DEF IsTable
      <4>3. QED BY <3>2, <4>1, <4>2
    <3>3. QED BY <3>1, <3>2
  <2>3. g = [i \in 1..m |-> g[i]]
    OBVIOUS
  <2>4. g = [i \in 1..m |-> IF i = 1 THEN ss[i] ELSE g[i - 1] \o ss[i]]
    <3> HIDE DEF g
    <3>1. QED BY <2>2, <2>3
  <2>5. IsTable(ss, g, m)
    BY <2>4 DEF IsTable
  <2>6. QED BY <2>5 DEF HasTable
<1>3. CASE n = 0
  BY <1>3
<1>4. CASE n # 0
  <2>1. 1 \in Good
    BY <1>1, <1>4
  <2> HIDE DEF Good
  <2>2. \A m \in 1..n : m \in Good
    BY <1>2, <2>1, Upwards
  <2>3. QED BY <2>2 DEF Good
<1>5. QED BY <1>3, <1>4

\* So FlattenSeq is the last entry of such a table.
FlatBy(ss, f) == IsTable(ss, f, Len(ss)) /\ FlattenSeq(ss) = f[Len(ss)]

\* FlattenSeq is the last entry of that table.
LEMMA FlatTable ==
    ASSUME NEW ss, Len(ss) \in Nat, Len(ss) # 0
    PROVE  \E f : FlatBy(ss, f)
<1> DEFINE f == CHOOSE h : IsTable(ss, h, Len(ss))
<1>1. HasTable(ss, Len(ss))
  <2>1. Len(ss) \in 1..Len(ss)
    OBVIOUS
  <2>2. QED BY <2>1, TableExists
<1>2. IsTable(ss, f, Len(ss))
  BY <1>1 DEF HasTable
<1>3. FlattenSeq(ss) = f[Len(ss)]
  BY DEF FlattenSeq, IsTable
<1>4. FlatBy(ss, f)
  BY <1>2, <1>3 DEF FlatBy
<1>5. QED BY <1>4

\* Where the elements of the first n sequences are in s: nothing is lost, nothing
\* is put in the same place, and there is nothing else.
Placed(ss, n, s, place) ==
    /\ \A i \in 1..n : \A j \in 1..Len(ss[i]) :
          place[i][j] \in 1..Len(s) /\ s[place[i][j]] = ss[i][j]
    /\ \A i, k \in 1..n : \A j \in 1..Len(ss[i]), l \in 1..Len(ss[k]) :
          place[i][j] = place[k][l] => i = k /\ j = l
    /\ \A at \in 1..Len(s) : \E i \in 1..n : \E j \in 1..Len(ss[i]) : at = place[i][j]

HasPlaces(ss, n, s) == IsSeq(s) /\ \E place : Placed(ss, n, s, place)

\* One more sequence is put behind the others.
LEMMA OneMorePlaced ==
    ASSUME NEW ss, AreSeqs(ss), NEW n \in 2..Len(ss), NEW s, HasPlaces(ss, n - 1, s)
    PROVE  HasPlaces(ss, n, s \o ss[n])
<1> DEFINE more == s \o ss[n]
<1>1. PICK place : Placed(ss, n - 1, s, place)
  BY DEF HasPlaces
<1> DEFINE new == [i \in 1..n |-> IF i = n THEN [j \in 1..Len(ss[n]) |-> Len(s) + j] ELSE place[i]]
<1>2. IsSeq(s) /\ IsSeq(ss[n]) /\ Len(ss) \in Nat
  <2>1. Len(ss) \in Nat /\ n \in 1..Len(ss)
    BY SeqParts DEF AreSeqs
  <2>2. QED BY <2>1 DEF HasPlaces, AreSeqs
<1>3. /\ IsSeq(more) /\ Len(more) = Len(s) + Len(ss[n])
      /\ \A i \in 1..Len(s) : more[i] = s[i]
      /\ \A i \in 1..Len(ss[n]) : more[Len(s) + i] = ss[n][i]
      /\ \A k \in 1..Len(more) : k \in 1..Len(s) \/ \E i \in 1..Len(ss[n]) : k = Len(s) + i
  BY <1>2, Joined
<1>4. Len(s) \in Nat /\ Len(ss[n]) \in Nat /\ n \in Nat /\ n - 1 \in Nat
  BY <1>2, SeqParts
<1>5. /\ \A i \in 1..(n - 1) : new[i] = place[i]
      /\ \A j \in 1..Len(ss[n]) : new[n][j] = Len(s) + j
  BY <1>4
<1> HIDE DEF new, more
<1>6. \A i \in 1..n : i \in 1..(n - 1) \/ i = n
  BY <1>4
<1>7. ASSUME NEW i \in 1..n, NEW j \in 1..Len(ss[i])
      PROVE  /\ new[i][j] \in 1..Len(more) /\ more[new[i][j]] = ss[i][j]
             /\ i # n => new[i][j] \in 1..Len(s)
             /\ i = n => new[i][j] = Len(s) + j
  <2>1. CASE i = n
    <3>1. new[i][j] = Len(s) + j /\ j \in 1..Len(ss[n])
      BY <1>5, <2>1
    <3>2. Len(s) + j \in 1..(Len(s) + Len(ss[n]))
      BY <1>4, <3>1
    <3>3. QED BY <1>3, <2>1, <3>1, <3>2
  <2>2. CASE i # n
    <3>1. i \in 1..(n - 1)
      BY <1>6, <2>2
    <3>2. new[i][j] \in 1..Len(s) /\ s[new[i][j]] = ss[i][j]
      BY <1>1, <1>5, <3>1 DEF Placed
    <3>3. new[i][j] \in 1..(Len(s) + Len(ss[n]))
      BY <1>4, <3>2
    <3>4. QED BY <1>3, <2>2, <3>2, <3>3
  <2>3. QED BY <2>1, <2>2
<1>8. ASSUME NEW i \in 1..n, NEW k \in 1..n, NEW j \in 1..Len(ss[i]), NEW l \in 1..Len(ss[k]),
             new[i][j] = new[k][l]
      PROVE  i = k /\ j = l
  <2>1. CASE i = n /\ k = n
    <3>1. Len(s) + j = Len(s) + l
      BY <1>7, <1>8, <2>1
    <3>2. QED BY <1>4, <2>1, <3>1
  <2>2. CASE i # n /\ k # n
    <3>1. i \in 1..(n - 1) /\ k \in 1..(n - 1)
      BY <1>6, <2>2
    <3>2. place[i][j] = place[k][l]
      BY <1>5, <1>8, <3>1
    <3>3. QED BY <1>1, <3>1, <3>2 DEF Placed
  <2>3. CASE i = n /\ k # n
    <3>1. new[i][j] = Len(s) + j /\ new[k][l] \in 1..Len(s)
      BY <1>7, <2>3
    <3>2. QED BY <1>4, <1>8, <2>3, <3>1
  <2>4. CASE i # n /\ k = n
    <3>1. new[k][l] = Len(s) + l /\ new[i][j] \in 1..Len(s)
      BY <1>7, <2>4
    <3>2. QED BY <1>4, <1>8, <2>4, <3>1
  <2>5. QED BY <2>1, <2>2, <2>3, <2>4
<1>9. ASSUME NEW at \in 1..Len(more)
      PROVE  \E i \in 1..n : \E j \in 1..Len(ss[i]) : at = new[i][j]
  <2>1. CASE at \in 1..Len(s)
    <3>1. PICK i \in 1..(n - 1) : \E j \in 1..Len(ss[i]) : at = place[i][j]
      BY <1>1, <2>1 DEF Placed
    <3>2. i \in 1..n /\ new[i] = place[i]
      BY <1>4, <1>5, <3>1
    <3>3. QED BY <3>1, <3>2
  <2>2. CASE \E i \in 1..Len(ss[n]) : at = Len(s) + i
    <3>1. n \in 1..n
      BY <1>4
    <3>2. QED BY <1>5, <2>2, <3>1
  <2>3. QED BY <1>3, <1>9, <2>1, <2>2
<1>10. Placed(ss, n, more, new)
  BY <1>7, <1>8, <1>9 DEF Placed
<1>11. QED BY <1>3, <1>10 DEF HasPlaces, more

\* Every element of the flat sequence has its place in one of the sequences,
\* and every place there has an element.
LEMMA FlatPlaces ==
    ASSUME NEW ss, AreSeqs(ss), Len(ss) # 0
    PROVE  HasPlaces(ss, Len(ss), FlattenSeq(ss))
<1>1. Len(ss) \in Nat
  BY SeqParts DEF AreSeqs
<1>2. PICK f : FlatBy(ss, f)
  BY <1>1, FlatTable
<1>3. \A i \in 1..Len(ss) : f[i] = IF i = 1 THEN ss[i] ELSE f[i - 1] \o ss[i]
  BY <1>2 DEF FlatBy, IsTable
<1> DEFINE Good == {n \in 1..Len(ss) : HasPlaces(ss, n, f[n])}
<1>4. 1 \in Good
  <2>1. 1 \in 1..Len(ss)
    BY <1>1
  <2>2. f[1] = ss[1] /\ IsSeq(ss[1])
    BY <1>3, <2>1 DEF AreSeqs
  <2>3. Placed(ss, 1, ss[1], [i \in 1..1 |-> [j \in 1..Len(ss[1]) |-> j]])
    BY DEF Placed
  <2>4. QED BY <2>1, <2>2, <2>3 DEF HasPlaces
<1>5. ASSUME NEW n \in 2..Len(ss), n - 1 \in Good PROVE n \in Good
  <2>1. HasPlaces(ss, n, f[n - 1] \o ss[n])
    BY <1>5, OneMorePlaced
  <2>2. n \in 1..Len(ss) /\ n # 1
    BY <1>1
  <2>3. QED BY <1>3, <2>1, <2>2
<1> HIDE DEF Good
<1>6. Len(ss) \in Good
  BY <1>1, <1>4, <1>5, Upwards
<1>7. QED BY <1>2, <1>6 DEF Good, FlatBy

\* What is in a flat sequence has been in one of the sequences.
LEMMA FlatFrom ==
    ASSUME NEW ss, AreSeqs(ss)
    PROVE  /\ IsSeq(FlattenSeq(ss))
           /\ \A k \in 1..Len(FlattenSeq(ss)) :
                 \E i \in 1..Len(ss) : \E j \in 1..Len(ss[i]) : FlattenSeq(ss)[k] = ss[i][j]
<1>1. CASE Len(ss) = 0
  <2>1. FlattenSeq(ss) = ss /\ IsSeq(ss)
    BY <1>1 DEF FlattenSeq, AreSeqs
  <2>2. QED BY <1>1, <2>1
<1>2. CASE Len(ss) # 0
  <2>1. HasPlaces(ss, Len(ss), FlattenSeq(ss))
    BY <1>2, FlatPlaces
  <2>2. PICK place : Placed(ss, Len(ss), FlattenSeq(ss), place)
    BY <2>1 DEF HasPlaces
  <2>3. ASSUME NEW k \in 1..Len(FlattenSeq(ss))
        PROVE  \E i \in 1..Len(ss) : \E j \in 1..Len(ss[i]) : FlattenSeq(ss)[k] = ss[i][j]
    <3>1. PICK i \in 1..Len(ss) : \E j \in 1..Len(ss[i]) : k = place[i][j]
      BY <2>2 DEF Placed
    <3>2. PICK j \in 1..Len(ss[i]) : k = place[i][j]
      BY <3>1
    <3>3. FlattenSeq(ss)[place[i][j]] = ss[i][j]
      BY <2>2 DEF Placed
    <3>4. QED BY <3>2, <3>3
  <2>4. QED BY <2>1, <2>3 DEF HasPlaces
<1>3. QED BY <1>1, <1>2

\* If all sequences but the first are empty, nothing is added to it.
LEMMA FlatHead ==
    ASSUME NEW ss, AreSeqs(ss), Len(ss) # 0, \A i \in 2..Len(ss) : ss[i] = <<>>
    PROVE  FlattenSeq(ss) = ss[1]
<1>1. Len(ss) \in Nat
  BY SeqParts DEF AreSeqs
<1>2. PICK f : FlatBy(ss, f)
  BY <1>1, FlatTable
<1>3. \A i \in 1..Len(ss) : f[i] = IF i = 1 THEN ss[i] ELSE f[i - 1] \o ss[i]
  BY <1>2 DEF FlatBy, IsTable
<1>4. ss[1] \o <<>> = ss[1]
  <2>1. ss[1] \in Seq(Elements(ss[1]))
    BY <1>1 DEF AreSeqs, IsSeq
  <2>2. QED BY <2>1
<1> DEFINE Good == {n \in 1..Len(ss) : f[n] = ss[1]}
<1>5. 1 \in Good
  BY <1>1, <1>3
<1>6. ASSUME NEW n \in 2..Len(ss), n - 1 \in Good PROVE n \in Good
  <2>1. n \in 1..Len(ss) /\ n # 1
    BY <1>1
  <2>2. QED BY <1>3, <1>4, <1>6, <2>1
<1> HIDE DEF Good
<1>7. Len(ss) \in Good
  BY <1>1, <1>5, <1>6, Upwards
<1>8. QED BY <1>2, <1>7 DEF Good, FlatBy

\* What is chosen: ss has each element of s, alone or not at all.
Choice(s, ss) ==
    /\ IsSeq(ss) /\ Len(ss) = Len(s)
    /\ \A i \in 1..Len(s) : ss[i] = <<s[i]>> \/ ss[i] = <<>>

IsChosen(s, ss, i) == ss[i] = <<s[i]>>

\* What is chosen of a sequence passes the test and comes from the sequence.
LEMMA ChosenFrom ==
    ASSUME NEW s, IsSeq(s), NEW ss, Choice(s, ss)
    PROVE  /\ IsSeq(FlattenSeq(ss))
           /\ \A k \in 1..Len(FlattenSeq(ss)) :
                 \E i \in 1..Len(s) : IsChosen(s, ss, i) /\ FlattenSeq(ss)[k] = s[i]
<1>1. \A i \in 1..Len(ss) : ss[i] = <<>> \/ ss[i] = <<s[i]>>
  BY DEF Choice
<1>2. AreSeqs(ss)
  <2>1. ASSUME NEW i \in 1..Len(ss) PROVE IsSeq(ss[i])
    <3>1. <<>> \in Seq({s[i]}) /\ <<s[i]>> \in Seq({s[i]})
      OBVIOUS
    <3>2. ss[i] \in Seq({s[i]})
      BY <1>1, <3>1
    <3>3. QED BY <3>2, AnySeq
  <2>2. QED BY <2>1 DEF AreSeqs, Choice
<1>3. ASSUME NEW k \in 1..Len(FlattenSeq(ss))
      PROVE  \E i \in 1..Len(s) : IsChosen(s, ss, i) /\ FlattenSeq(ss)[k] = s[i]
  <2>1. PICK i \in 1..Len(ss) : \E j \in 1..Len(ss[i]) : FlattenSeq(ss)[k] = ss[i][j]
    BY <1>2, FlatFrom
  <2>2. PICK j \in 1..Len(ss[i]) : FlattenSeq(ss)[k] = ss[i][j]
    BY <2>1
  <2>3. ss[i] = <<s[i]>>
    BY <1>1, <2>2
  <2>4. FlattenSeq(ss)[k] = s[i]
    BY <2>2, <2>3
  <2>5. QED BY <2>3, <2>4 DEF Choice, IsChosen
<1>4. QED BY <1>2, <1>3, FlatFrom

-----------------------------------------------------------------------------
(* The ids of responses.                                                    *)

\* The shape of the variables that the ids depend on.
IsCall(x) ==
    x = [phase |-> x.phase, id |-> x.id, parts |-> x.parts, direct |-> x.direct, sent |-> x.sent,
         prompt |-> x.prompt, asText |-> x.asText, conversation |-> x.conversation, told |-> x.told]

Shape ==
    /\ restarts \in Nat
    /\ said = [c \in Chats |-> said[c]] /\ parent = [c \in Chats |-> parent[c]]
    /\ call = [c \in Chats |-> call[c]]
    /\ \A c \in Chats : IsSeq(said[c]) /\ IsCall(call[c])

\* A request in flight has the next id of its conversation.
FreshIds ==
    \A c \in Chats : /\ call[c].phase \in {"none", "asked", "kv", "memory"}
                     /\ call[c].phase # "none" => call[c].id = FreshId(c)

\* An id, as the gateway made it, that no request will get any more.
Past(own) ==
    /\ own[1] \in Chats /\ own[2] \in Nat /\ own[3] \in Nat
    /\ \/ own[3] < restarts
       \/ own[3] = restarts /\ own[2] <= Len(said[own[1]])

InKv(named) == KvKey(named[1], named[2])

\* What is in SurrealKV belongs to the past or to a request that puts it into
\* memory next, and so does what is being deleted, which is no longer there.
KeysInv ==
    /\ \A named \in gone : /\ Past(named[2][2])
                           /\ InKv(named) \notin DOMAIN kv /\ InMemory(named) \notin DOMAIN memory
    /\ \A key \in DOMAIN memory : Past(key[2])
    /\ \A key \in DOMAIN kv : Past(key[2][2]) \/ Storing(InMemory(key))
    /\ deleting # <<>> => /\ InKv(deleting) \notin DOMAIN kv
                          /\ Past(deleting[2][2]) \/ Storing(InMemory(deleting))

\* What is stored for a client to read is a dialogue.
Readable(s) == \A key \in DOMAIN s : IsSeq(s[key].turns)

IdsInv == Shape /\ FreshIds /\ KeysInv /\ Readable(kv) /\ Readable(memory)

\* Two elements form a sequence.
LEMMA PairSeq ==
    ASSUME NEW a, NEW b
    PROVE  IsSeq(<<a, b>>) /\ Len(<<a, b>>) = 2
<1>1. <<a, b>> \in Seq({a, b})
  OBVIOUS
<1>2. QED BY <1>1, AnySeq

\* The empty sequence is one.
LEMMA EmptyIsSeq ==
    ASSUME NEW s, s = <<>>
    PROVE  IsSeq(s) /\ Len(s) = 0
<1>1. s \in Seq(Nat)
  OBVIOUS
<1>2. QED BY <1>1, AnySeq

\* A client that reads an answer has two turns more.
LEMMA LearnsTwo ==
    ASSUME Shape, NEW c \in Chats, NEW told, NEW id, Learn(c, told, id)
    PROVE  /\ said' = [d \in Chats |-> said'[d]] /\ parent' = [d \in Chats |-> parent'[d]]
           /\ \A d \in Chats : IsSeq(said'[d])
           /\ Len(said'[c]) = Len(said[c]) + 2
           /\ \A d \in Chats : d # c => said'[d] = said[d]
<1> DEFINE new == <<Turn("user", call[c].parts), Turn("assistant", told)>>
<1>1. IsSeq(new) /\ Len(new) = 2
  BY PairSeq
<1> HIDE DEF new
<1>2. said' = [said EXCEPT ![c] = said[c] \o new] /\ parent' = [parent EXCEPT ![c] = id]
  BY DEF Learn, Talk, new
<1>3. IsSeq(said[c] \o new) /\ Len(said[c] \o new) = Len(said[c]) + 2
  <2>1. IsSeq(said[c])
    BY DEF Shape
  <2>2. IsSeq(said[c] \o new) /\ Len(said[c] \o new) = Len(said[c]) + Len(new)
    BY ONLY <1>1, <2>1, Joined
  <2>3. QED BY <1>1, <2>2
<1>4. /\ said' = [d \in Chats |-> said'[d]] /\ parent' = [d \in Chats |-> parent'[d]]
      /\ said'[c] = said[c] \o new
      /\ \A d \in Chats : d # c => said'[d] = said[d]
  BY <1>2 DEF Shape
<1>5. \A d \in Chats : IsSeq(said'[d])
  BY <1>3, <1>4 DEF Shape
<1>6. QED BY <1>3, <1>4, <1>5

\* Nothing that is said is taken back, and restarts are counted.
Grows ==
    \/ restarts' = restarts /\ \A c \in Chats : Len(said[c]) <= Len(said'[c])
    \/ restarts' = restarts + 1

\* How many turns there are is a number.
LEMMA LengthsAreNat ==
    ASSUME Shape
    PROVE  \A c \in Chats : Len(said[c]) \in Nat
<1>1. \A c \in Chats : IsSeq(said[c])
  BY DEF Shape
<1>2. QED BY <1>1, SeqParts

\* What is past stays past.
LEMMA PastStays ==
    ASSUME Shape, Shape', Grows, NEW own, Past(own)
    PROVE  Past(own)'
<1>1. restarts \in Nat /\ restarts' \in Nat
  BY DEF Shape
<1>2. Len(said[own[1]]) \in Nat /\ Len(said'[own[1]]) \in Nat
  BY SeqParts DEF Shape, Past
<1>3. CASE restarts' = restarts + 1
  BY <1>1, <1>2, <1>3 DEF Past
<1>4. CASE restarts' = restarts /\ \A c \in Chats : Len(said[c]) <= Len(said'[c])
  BY <1>1, <1>2, <1>4 DEF Past
<1>5. QED BY <1>3, <1>4 DEF Grows

\* The next id of a conversation is not past.
LEMMA FreshIsNotPast ==
    ASSUME Shape, NEW c \in Chats
    PROVE  ~Past(FreshId(c)[2]) /\ FreshId(c)[2][1] = c
BY SeqParts DEF Shape, Past, FreshId

\* A dialogue with one more answer is stored, or none any more.
LEMMA PutReadable ==
    ASSUME NEW s, Readable(s), NEW key, NEW r, IsSeq(r.turns)
    PROVE  Readable(Put(s, key, r))
BY DEF Readable, Put

LEMMA DropReadable ==
    ASSUME NEW s, Readable(s), NEW key
    PROVE  Readable(Drop(s, key))
BY DEF Readable, Drop

LEMMA ToPutReadable ==
    ASSUME Shape, NEW c \in Chats
    PROVE  IsSeq(ToPut(c).turns)
<1> DEFINE new == <<Turn("user", call[c].parts), Turn("assistant", call[c].told)>>
<1>1. IsSeq(new)
  BY PairSeq
<1> HIDE DEF new
<1>2. IsSeq(said[c] \o new)
  BY <1>1, Joined DEF Shape
<1>3. QED BY <1>2 DEF ToPut, Response, Talk, new

\* A step that leaves the stores alone.
LEMMA KeysKept ==
    ASSUME Shape, Shape', Grows, KeysInv, UNCHANGED <<kv, memory, gone, deleting>>,
           \A key : Storing(key) => Storing(key)'
    PROVE  KeysInv'
BY PastStays DEF KeysInv, InKv, InMemory, KvKey, MemoryKey

\* A request gets the next id of its conversation.
LEMMA AskIds ==
    ASSUME IdsInv, NEW c \in Chats, Ask(c)
    PROVE  IdsInv'
<1>1. /\ UNCHANGED <<said, parent, kv, memory, gone, deleting, restarts, tenant>>
      /\ call[c].phase = "none"
      /\ \A d \in Chats : d # c => call'[d] = call[d]
      /\ call'[c].phase = "asked" /\ call'[c].id = FreshId(c) /\ IsCall(call'[c])
      /\ call' = [d \in Chats |-> call'[d]]
  BY DEF IdsInv, Shape, Ask, store, setup, IsCall
<1>2. Shape' /\ FreshIds'
  BY <1>1 DEF IdsInv, Shape, FreshIds, FreshId
<1>3. \A key : Storing(key) => Storing(key)'
  BY <1>1 DEF Storing, MemoryKey
<1>4. Grows
  BY <1>1, LengthsAreNat DEF Grows, IdsInv
<1>5. KeysInv'
  BY <1>1, <1>2, <1>3, <1>4, KeysKept DEF IdsInv
<1>6. QED BY <1>1, <1>2, <1>5 DEF IdsInv, Readable

\* A request that fails stores nothing, or only into SurrealKV what it will
\* never tell.
LEMMA FailIds ==
    ASSUME IdsInv, NEW c \in Chats, Fail(c)
    PROVE  IdsInv'
<1>1. /\ UNCHANGED <<said, parent, kv, memory, gone, deleting, restarts, tenant>>
      /\ call[c].phase \in {"asked", "kv"}
      /\ \A d \in Chats : d # c => call'[d] = call[d]
      /\ call'[c].phase = "none" /\ IsCall(call'[c])
      /\ call' = [d \in Chats |-> call'[d]]
  BY DEF IdsInv, Shape, Fail, store, setup, IsCall, NoCall
<1>2. Shape' /\ FreshIds'
  BY <1>1 DEF IdsInv, Shape, FreshIds, FreshId
<1>3. \A key : Storing(key) => Storing(key)'
  BY <1>1 DEF Storing, MemoryKey
<1>4. Grows
  BY <1>1, LengthsAreNat DEF Grows, IdsInv
<1>5. KeysInv'
  BY <1>1, <1>2, <1>3, <1>4, KeysKept DEF IdsInv
<1>6. QED BY <1>1, <1>2, <1>5 DEF IdsInv, Readable

\* An answer that is stored before it is told, and one that is told at once.
KeepsAnswer(c, told, conversation) ==
    /\ call' = [call EXCEPT ![c].phase = IF hasKv THEN "kv" ELSE "memory",
                            ![c].told = told, ![c].sent = <<>>,
                            ![c].conversation = conversation]
    /\ UNCHANGED <<said, parent>>

TellsAnswer(c, told) == Learn(c, told, NoId) /\ call' = [call EXCEPT ![c] = NoCall]

Told(c, a, passed) ==
    IF call[c].direct THEN DirectParts(PassedThrough(c, a)) ELSE ToldByKernel(c, a, passed)

Kept(c, a, passed) ==
    IF call[c].direct THEN KeptDirectly(PassedThrough(c, a)) ELSE KeptParts(c, a, passed)

Continued(c, a, passed) == Append(call[c].conversation, AssistantTurn(Kept(c, a, passed)))

\* The two outcomes of an answer.
LEMMA AnswerKeepsOrTells ==
    ASSUME NEW c, AnswerCall(c)
    PROVE  /\ UNCHANGED <<setup, store, restarts>> /\ call[c].phase = "asked"
           /\ \E a \in Answers(c), passed \in BOOLEAN :
                 \/ KeepsAnswer(c, Told(c, a, passed), Continued(c, a, passed))
                 \/ TellsAnswer(c, Told(c, a, passed))
<1>1. UNCHANGED <<setup, store, restarts>> /\ call[c].phase = "asked"
  BY ONLY AnswerCall(c) DEF AnswerCall
<1>2. \E a \in Answers(c), passed \in BOOLEAN :
         \/ KeepsAnswer(c, Told(c, a, passed), Continued(c, a, passed))
         \/ TellsAnswer(c, Told(c, a, passed))
  BY ZenonT(30) DEF AnswerCall, KeepsAnswer, TellsAnswer, Told, Kept, Continued
<1>3. QED BY <1>1, <1>2

\* A request whose answer is to be stored changes in its phase and in what it
\* holds of the answer.
LEMMA KeepsAnswerParts ==
    ASSUME Shape, NEW c \in Chats, NEW told, NEW conversation, KeepsAnswer(c, told, conversation)
    PROVE  /\ UNCHANGED <<said, parent>>
           /\ \A d \in Chats : d # c => call'[d] = call[d]
           /\ call' = [d \in Chats |-> call'[d]]
           /\ call'[c] = [phase |-> IF hasKv THEN "kv" ELSE "memory", id |-> call[c].id,
                          parts |-> call[c].parts, direct |-> call[c].direct, sent |-> <<>>,
                          prompt |-> call[c].prompt, asText |-> call[c].asText,
                          conversation |-> conversation, told |-> told]
<1>1. c \in DOMAIN call /\ IsCall(call[c]) /\ call = [d \in Chats |-> call[d]]
  BY DEF Shape
<1> DEFINE phase == IF hasKv THEN "kv" ELSE "memory"
           Rec(p, m, t, n) == [phase |-> p, id |-> call[c].id, parts |-> call[c].parts,
                               direct |-> call[c].direct, sent |-> m, prompt |-> call[c].prompt,
                               asText |-> call[c].asText, conversation |-> n, told |-> t]
           one == [call[c] EXCEPT !.phase = phase]
           two == [one EXCEPT !.told = told]
           three == [two EXCEPT !.sent = <<>>]
           new == [three EXCEPT !.conversation = conversation]
<1>2. call' = [call EXCEPT ![c] = new]
  BY <1>1 DEF KeepsAnswer
<1>3. call[c] = Rec(call[c].phase, call[c].sent, call[c].told, call[c].conversation)
  BY <1>1 DEF IsCall
<1>4. one = Rec(phase, call[c].sent, call[c].told, call[c].conversation)
  BY <1>3
<1> HIDE DEF one
<1>5. two = Rec(phase, call[c].sent, told, call[c].conversation)
  BY <1>4
<1> HIDE DEF two
<1>6. three = Rec(phase, <<>>, told, call[c].conversation)
  BY <1>5
<1> HIDE DEF three
<1>7. new = Rec(phase, <<>>, told, conversation)
  BY <1>6
<1> HIDE DEF new
<1>8. QED BY <1>1, <1>2, <1>7 DEF KeepsAnswer

\* An answer stores nothing yet.
LEMMA AnswerIds ==
    ASSUME IdsInv, NEW c \in Chats, AnswerCall(c)
    PROVE  IdsInv'
<1>1. /\ UNCHANGED <<kv, memory, gone, deleting, restarts, tenant>>
      /\ call[c].phase = "asked"
      /\ \E told, conversation : KeepsAnswer(c, told, conversation) \/ TellsAnswer(c, told)
  BY AnswerKeepsOrTells DEF store, setup
<1>2. ASSUME NEW told, NEW conversation, KeepsAnswer(c, told, conversation)
      PROVE  IdsInv'
  <2>1. /\ UNCHANGED <<said, parent>>
        /\ \A d \in Chats : d # c => call'[d] = call[d]
        /\ call'[c].phase \in {"kv", "memory"} /\ call'[c].id = call[c].id /\ IsCall(call'[c])
        /\ call' = [d \in Chats |-> call'[d]]
    <3>1. Shape
      BY DEF IdsInv
    <3>2. /\ UNCHANGED <<said, parent>>
          /\ \A d \in Chats : d # c => call'[d] = call[d]
          /\ call' = [d \in Chats |-> call'[d]]
          /\ call'[c] = [phase |-> IF hasKv THEN "kv" ELSE "memory", id |-> call[c].id,
                         parts |-> call[c].parts, direct |-> call[c].direct, sent |-> <<>>,
                         prompt |-> call[c].prompt, asText |-> call[c].asText,
                         conversation |-> conversation, told |-> told]
      BY <1>2, <3>1, KeepsAnswerParts
    <3>3. QED BY <3>2 DEF IsCall
  <2>2. Shape' /\ FreshIds'
    BY <1>1, <2>1 DEF IdsInv, Shape, FreshIds, FreshId
  <2>3. \A key : Storing(key) => Storing(key)'
    BY <1>1, <2>1 DEF Storing, MemoryKey
  <2>4. Grows
    BY <1>1, <2>1, LengthsAreNat DEF Grows, IdsInv
  <2>5. KeysInv'
    BY <1>1, <2>2, <2>3, <2>4, KeysKept DEF IdsInv
  <2>6. QED BY <1>1, <2>2, <2>5 DEF IdsInv, Readable
<1>3. ASSUME NEW told, TellsAnswer(c, told)
      PROVE  IdsInv'
  <2>1. /\ said' = [d \in Chats |-> said'[d]] /\ parent' = [d \in Chats |-> parent'[d]]
        /\ \A d \in Chats : IsSeq(said'[d])
        /\ Len(said'[c]) = Len(said[c]) + 2
        /\ \A d \in Chats : d # c => said'[d] = said[d]
    BY <1>3, LearnsTwo DEF IdsInv, TellsAnswer
  <2>2. /\ \A d \in Chats : d # c => call'[d] = call[d]
        /\ call'[c].phase = "none" /\ IsCall(call'[c])
        /\ call' = [d \in Chats |-> call'[d]]
    BY <1>3 DEF IdsInv, Shape, IsCall, NoCall, TellsAnswer
  <2>3. Shape' /\ FreshIds'
    BY <1>1, <2>1, <2>2 DEF IdsInv, Shape, FreshIds, FreshId
  <2>4. \A key : Storing(key) => Storing(key)'
    BY <1>1, <2>2 DEF Storing, MemoryKey
  <2>5. Grows
    BY <1>1, <2>1, LengthsAreNat DEF Grows, IdsInv
  <2>6. KeysInv'
    BY <1>1, <2>3, <2>4, <2>5, KeysKept DEF IdsInv
  <2>7. QED BY <1>1, <2>3, <2>6 DEF IdsInv, Readable
<1>4. QED BY <1>1, <1>2, <1>3

\* What is put into SurrealKV has the id of the request that goes on to put it
\* into memory.
LEMMA PutKvIds ==
    ASSUME IdsInv, NEW c \in Chats, PutKv(c)
    PROVE  IdsInv'
<1>0. PICK key, r, own : /\ key = KvKey(tenant[c], call[c].id) /\ r = ToPut(c)
                         /\ own = call[c].id[2]
  OBVIOUS
<1>1. /\ UNCHANGED <<said, parent, memory, gone, deleting, restarts, tenant>>
      /\ call[c].phase = "kv"
      /\ kv' = Put(kv, key, r) /\ DOMAIN kv' = DOMAIN kv \cup {key}
      /\ call' = [call EXCEPT ![c].phase = "memory"]
  BY <1>0 DEF PutKv, setup, Put
<1>2. /\ \A d \in Chats : d # c => call'[d] = call[d]
      /\ call'[c].phase = "memory" /\ call'[c].id = call[c].id /\ IsCall(call'[c])
      /\ call' = [d \in Chats |-> call'[d]]
  <2>1. IsCall(call[c]) /\ call = [d \in Chats |-> call[d]]
    BY DEF IdsInv, Shape
  <2>2. call'[c] = [call[c] EXCEPT !.phase = "memory"]
    BY <1>1, <2>1
  <2>3. call'[c].phase = "memory" /\ call'[c].id = call[c].id /\ IsCall(call'[c])
    BY <2>1, <2>2 DEF IsCall
  <2>4. QED BY <1>1, <2>1, <2>3
<1>3. Shape' /\ FreshIds'
  BY <1>1, <1>2 DEF IdsInv, Shape, FreshIds, FreshId
<1>4. ~Past(own) /\ own[1] = c
  BY <1>0, <1>1, FreshIsNotPast DEF IdsInv, FreshIds
<1>5. Storing(InMemory(key))' /\ \A k : Storing(k) => Storing(k)'
  BY <1>0, <1>1, <1>2 DEF Storing, InMemory, MemoryKey, KvKey
<1>6. ASSUME NEW named, Storing(InMemory(named)) PROVE InKv(named) # key
  <2>1. PICK d \in Chats : call[d].phase = "memory"
                           /\ MemoryKey(tenant[d], call[d].id) = InMemory(named)
    BY <1>6 DEF Storing
  <2>2. d # c /\ call[d].id[2] = named[2][2]
    BY <1>1, <2>1 DEF InMemory, MemoryKey
  <2>3. call[d].id[2][1] = d
    BY <2>1, FreshIsNotPast DEF IdsInv, FreshIds
  <2>4. QED BY <1>0, <1>4, <2>2, <2>3 DEF InKv, KvKey
<1>7. Grows
  BY <1>1, LengthsAreNat DEF Grows, IdsInv
<1>8. \A k : Past(k) => Past(k)'
  BY <1>3, <1>7, PastStays DEF IdsInv
<1>9. \A named : Past(named[2][2]) => InKv(named) # key
  BY <1>0, <1>4 DEF InKv, KvKey
<1>10. KeysInv'
  <2>1. \A k \in gone' : /\ Past(k[2][2])'
                         /\ InKv(k) \notin DOMAIN kv' /\ InMemory(k) \notin DOMAIN memory'
    BY <1>1, <1>8, <1>9 DEF IdsInv, KeysInv
  <2>2. \A k \in DOMAIN memory' : Past(k[2])'
    BY <1>1, <1>8 DEF IdsInv, KeysInv
  <2>3. \A k \in DOMAIN kv' : Past(k[2][2])' \/ Storing(InMemory(k))'
    BY <1>1, <1>5, <1>8 DEF IdsInv, KeysInv
  <2>4. (deleting # <<>> => /\ InKv(deleting) \notin DOMAIN kv
                            /\ Past(deleting[2][2]) \/ Storing(InMemory(deleting)))'
    BY <1>1, <1>5, <1>6, <1>8, <1>9 DEF IdsInv, KeysInv
  <2>5. QED BY <2>1, <2>2, <2>3, <2>4 DEF KeysInv, InKv, InMemory, KvKey, MemoryKey
<1>11. Readable(kv)' /\ Readable(memory)'
  <2>1. IsSeq(r.turns) /\ Readable(kv) /\ Readable(memory)
    BY <1>0, ToPutReadable DEF IdsInv
  <2>2. QED BY <1>1, <2>1, PutReadable
<1>12. QED BY <1>3, <1>10, <1>11 DEF IdsInv

\* What is put into memory has an id that is past from then on.
LEMMA PutMemoryIds ==
    ASSUME IdsInv, NEW c \in Chats, PutMemory(c)
    PROVE  IdsInv'
<1>0. PICK key, r, own : /\ key = MemoryKey(tenant[c], call[c].id) /\ r = ToPut(c)
                         /\ own = call[c].id[2]
  OBVIOUS
<1>1. /\ UNCHANGED <<kv, gone, deleting, restarts, tenant>>
      /\ call[c].phase = "memory"
      /\ memory' = Put(memory, key, r) /\ DOMAIN memory' = DOMAIN memory \cup {key}
      /\ Learn(c, call[c].told, call[c].id)
      /\ call' = [call EXCEPT ![c] = NoCall]
  BY <1>0 DEF PutMemory, setup, Put
<1>2. /\ said' = [d \in Chats |-> said'[d]] /\ parent' = [d \in Chats |-> parent'[d]]
      /\ \A d \in Chats : IsSeq(said'[d])
      /\ Len(said'[c]) = Len(said[c]) + 2
      /\ \A d \in Chats : d # c => said'[d] = said[d]
  BY <1>1, LearnsTwo DEF IdsInv
<1>3. /\ \A d \in Chats : d # c => call'[d] = call[d]
      /\ call'[c].phase = "none" /\ IsCall(call'[c])
      /\ call' = [d \in Chats |-> call'[d]]
  BY <1>1 DEF IdsInv, Shape, IsCall, NoCall
<1>4. Shape' /\ FreshIds'
  BY <1>1, <1>2, <1>3 DEF IdsInv, Shape, FreshIds, FreshId
<1>5. ~Past(own) /\ Past(own)'
  <2>1. call[c].id = FreshId(c) /\ restarts \in Nat /\ Len(said[c]) \in Nat
    BY <1>1, LengthsAreNat DEF IdsInv, FreshIds, Shape
  <2>2. Past(own)'
    BY <1>0, <1>1, <1>2, <2>1 DEF Past, FreshId
  <2>3. QED BY <1>0, <2>1, <2>2, FreshIsNotPast DEF IdsInv
<1>6. key[2] = own /\ \A k : Storing(k) => k[2] = own \/ Storing(k)'
  <2>1. key[2] = own
    BY <1>0 DEF MemoryKey
  <2>2. ASSUME NEW k, Storing(k) PROVE k = key \/ Storing(k)'
    <3>1. PICK d \in Chats : call[d].phase = "memory" /\ MemoryKey(tenant[d], call[d].id) = k
      BY <2>2 DEF Storing
    <3>2. CASE d = c
      BY <1>0, <3>1, <3>2
    <3>3. CASE d # c
      BY <1>1, <1>3, <3>1, <3>3 DEF Storing
    <3>4. QED BY <3>2, <3>3
  <2>3. QED BY <2>1, <2>2
<1>7. Grows
  BY <1>1, <1>2, LengthsAreNat DEF Grows, IdsInv
<1>8. \A k : Past(k) => Past(k)'
  BY <1>4, <1>7, PastStays DEF IdsInv
<1>9. \A named : InMemory(named)[2] = named[2][2]
  BY DEF InMemory, MemoryKey
<1>10. KeysInv'
  <2>1. \A k \in gone' : /\ Past(k[2][2])'
                         /\ InKv(k) \notin DOMAIN kv' /\ InMemory(k) \notin DOMAIN memory'
    BY <1>1, <1>5, <1>6, <1>8, <1>9 DEF IdsInv, KeysInv
  <2>2. \A k \in DOMAIN memory' : Past(k[2])'
    BY <1>1, <1>5, <1>6, <1>8 DEF IdsInv, KeysInv
  <2>3. \A k \in DOMAIN kv' : Past(k[2][2])' \/ Storing(InMemory(k))'
    BY <1>1, <1>5, <1>6, <1>8, <1>9 DEF IdsInv, KeysInv
  <2>4. (deleting # <<>> => /\ InKv(deleting) \notin DOMAIN kv
                            /\ Past(deleting[2][2]) \/ Storing(InMemory(deleting)))'
    BY <1>1, <1>5, <1>6, <1>8, <1>9 DEF IdsInv, KeysInv
  <2>5. QED BY <2>1, <2>2, <2>3, <2>4 DEF KeysInv, InKv, InMemory, KvKey, MemoryKey
<1>11. Readable(kv)' /\ Readable(memory)'
  <2>1. IsSeq(r.turns) /\ Readable(kv) /\ Readable(memory)
    BY <1>0, ToPutReadable DEF IdsInv
  <2>2. QED BY <1>1, <2>1, PutReadable
<1>12. QED BY <1>4, <1>10, <1>11 DEF IdsInv

\* What a client finds under an id is a dialogue.
LEMMA GetReadable ==
    ASSUME Readable(kv), Readable(memory), NEW t, NEW id
    PROVE  IsSeq(Get(t, id).turns)
<1>1. ASSUME NEW s, Readable(s), NEW key PROVE IsSeq(Found(s, key).turns)
  BY <1>1, EmptyIsSeq DEF Readable, Found, NoEntry, Response
<1>2. IsSeq(Found(kv, KvKey(t, id)).turns) /\ IsSeq(Found(memory, MemoryKey(t, id)).turns)
  BY <1>1
<1>3. QED BY <1>2 DEF Get

\* A client that learns an id of another one does not go back.
LEMMA AdoptIds ==
    ASSUME IdsInv, NEW c \in Chats, NEW d \in Chats, Adopt(c, d)
    PROVE  IdsInv'
<1>1. PICK id, turns : /\ parent' = [parent EXCEPT ![c] = id] /\ said' = [said EXCEPT ![c] = turns]
                       /\ IsSeq(turns)
  <2>1. PICK id : /\ parent' = [parent EXCEPT ![c] = id]
                  /\ said' = [said EXCEPT ![c] = Get(tenant[c], id).turns]
    BY DEF Adopt
  <2>2. QED BY <2>1, GetReadable DEF IdsInv
<1>2. /\ UNCHANGED <<call, kv, memory, gone, deleting, restarts, tenant>>
      /\ said[c] = <<>> /\ call[c].phase = "none"
  BY DEF Adopt, setup, store, NoCall
<1>3. /\ said' = [e \in Chats |-> said'[e]] /\ parent' = [e \in Chats |-> parent'[e]]
      /\ \A e \in Chats : e # c => said'[e] = said[e]
      /\ said'[c] = turns
  BY <1>1 DEF IdsInv, Shape
<1>4. \A e \in Chats : IsSeq(said'[e]) /\ Len(said[e]) <= Len(said'[e])
  <2>1. \A e \in Chats : IsSeq(said[e])
    BY DEF IdsInv, Shape
  <2>2. Len(said[c]) = 0 /\ Len(turns) \in Nat /\ \A e \in Chats : Len(said[e]) \in Nat
    BY <1>1, <1>2, <2>1, SeqParts, EmptyIsSeq
  <2>3. QED BY <1>1, <1>3, <2>1, <2>2
<1>5. Shape'
  BY <1>2, <1>3, <1>4 DEF IdsInv, Shape
<1>6. FreshIds'
  BY <1>2, <1>3 DEF IdsInv, FreshIds, FreshId
<1>7. \A key : Storing(key) => Storing(key)'
  BY <1>2 DEF Storing, MemoryKey
<1>8. Grows
  BY <1>2, <1>4 DEF Grows
<1>9. KeysInv'
  BY <1>2, <1>5, <1>7, <1>8, KeysKept DEF IdsInv
<1>10. QED BY <1>2, <1>5, <1>6, <1>9 DEF IdsInv, Readable

\* What can be found is there.
LEMMA FindableIsThere ==
    ASSUME NEW t, NEW id \in Findable(t)
    PROVE  KvKey(t, id) \in DOMAIN kv \/ MemoryKey(t, id) \in DOMAIN memory
BY DEF Findable, Get, Found

\* What is being deleted is no longer in SurrealKV.
LEMMA DeleteKvIds ==
    ASSUME IdsInv, DeleteKv
    PROVE  IdsInv'
<1>1. /\ UNCHANGED <<said, parent, call, memory, gone, restarts, tenant>> /\ deleting = <<>>
      /\ \E c \in Chats : \E id \in Findable(tenant[c]) :
            kv' = Drop(kv, KvKey(tenant[c], id)) /\ deleting' = <<tenant[c], id>>
  BY DEF DeleteKv, setup, clients
<1>2. PICK t, id : /\ id \in Findable(t)
                   /\ kv' = Drop(kv, KvKey(t, id)) /\ deleting' = <<t, id>>
  BY <1>1
<1>3. DOMAIN kv' = DOMAIN kv \ {KvKey(t, id)} /\ InKv(deleting') = KvKey(t, id)
      /\ InMemory(deleting') = MemoryKey(t, id) /\ deleting'[2] = id
  BY <1>2 DEF Drop, InKv, InMemory
<1>4. Shape' /\ FreshIds'
  BY <1>1 DEF IdsInv, Shape, FreshIds, FreshId
<1>5. \A k : Past(k) <=> Past(k)'
  BY <1>1 DEF Past
<1>6. \A k : Storing(k) <=> Storing(k)'
  BY <1>1 DEF Storing, MemoryKey
<1>7. Past(id[2]) \/ Storing(MemoryKey(t, id))
  <2>1. CASE KvKey(t, id) \in DOMAIN kv
    <3>1. KvKey(t, id)[2] = id /\ InMemory(KvKey(t, id)) = MemoryKey(t, id)
      BY DEF KvKey, InMemory
    <3>2. QED BY <2>1, <3>1 DEF IdsInv, KeysInv
  <2>2. CASE MemoryKey(t, id) \in DOMAIN memory
    <3>1. MemoryKey(t, id)[2] = id[2]
      BY DEF MemoryKey
    <3>2. QED BY <2>2, <3>1 DEF IdsInv, KeysInv
  <2>3. QED BY <1>2, <2>1, <2>2, FindableIsThere
<1>8. KeysInv'
  <2>1. \A k \in gone' : /\ Past(k[2][2])'
                         /\ InKv(k) \notin DOMAIN kv' /\ InMemory(k) \notin DOMAIN memory'
    BY <1>1, <1>3, <1>5 DEF IdsInv, KeysInv
  <2>2. \A k \in DOMAIN memory' : Past(k[2])'
    BY <1>1, <1>5 DEF IdsInv, KeysInv
  <2>3. \A k \in DOMAIN kv' : Past(k[2][2])' \/ Storing(InMemory(k))'
    BY <1>3, <1>5, <1>6 DEF IdsInv, KeysInv
  <2>4. (deleting # <<>> => /\ InKv(deleting) \notin DOMAIN kv
                            /\ Past(deleting[2][2]) \/ Storing(InMemory(deleting)))'
    BY <1>3, <1>5, <1>6, <1>7
  <2>5. QED BY <2>1, <2>2, <2>3, <2>4 DEF KeysInv, InKv, InMemory, KvKey, MemoryKey
<1>9. Readable(kv)' /\ Readable(memory)'
  BY <1>1, <1>2, DropReadable DEF IdsInv
<1>10. QED BY <1>4, <1>8, <1>9 DEF IdsInv

\* What has been deleted is nowhere, and nobody is about to put it.
LEMMA DeleteMemoryIds ==
    ASSUME IdsInv, DeleteMemory
    PROVE  IdsInv'
<1>1. /\ UNCHANGED <<said, parent, call, kv, restarts, tenant>>
      /\ deleting # <<>> /\ deleting' = <<>>
      /\ memory' = Drop(memory, InMemory(deleting))
      /\ DOMAIN memory' = DOMAIN memory \ {InMemory(deleting)}
      /\ gone' = IF Storing(InMemory(deleting)) THEN gone ELSE gone \cup {deleting}
  BY DEF DeleteMemory, setup, clients, Drop
<1>2. Shape' /\ FreshIds'
  BY <1>1 DEF IdsInv, Shape, FreshIds, FreshId
<1>3. \A k : Past(k) <=> Past(k)'
  BY <1>1 DEF Past
<1>4. \A k : Storing(k) <=> Storing(k)'
  BY <1>1 DEF Storing, MemoryKey
<1>5. KeysInv'
  <2>1. \A k \in gone' : /\ Past(k[2][2])
                         /\ InKv(k) \notin DOMAIN kv /\ InMemory(k) \notin DOMAIN memory'
    BY <1>1 DEF IdsInv, KeysInv
  <2>2. \A k \in DOMAIN memory' : Past(k[2])
    BY <1>1 DEF IdsInv, KeysInv
  <2>3. \A k \in DOMAIN kv : Past(k[2][2]) \/ Storing(InMemory(k))
    BY DEF IdsInv, KeysInv
  <2>4. QED BY <1>1, <1>3, <1>4, <2>1, <2>2, <2>3 DEF KeysInv, InKv, InMemory, KvKey, MemoryKey
<1>6. Readable(kv)' /\ Readable(memory)'
  BY <1>1, DropReadable DEF IdsInv
<1>7. QED BY <1>2, <1>5, <1>6 DEF IdsInv

\* After a restart all ids so far are past.
LEMMA RestartIds ==
    ASSUME IdsInv, Restart
    PROVE  IdsInv'
<1>1. /\ UNCHANGED <<said, parent, kv, gone, tenant>> /\ restarts' = restarts + 1
      /\ call' = [c \in Chats |-> NoCall] /\ memory' = <<>> /\ DOMAIN memory' = {}
      /\ deleting' = <<>>
  BY DEF Restart, setup
<1>2. Shape' /\ FreshIds'
  <2>1. \A c \in Chats : call'[c].phase = "none" /\ IsCall(call'[c])
    BY <1>1 DEF IsCall, NoCall
  <2>2. call' = [c \in Chats |-> call'[c]] /\ restarts' \in Nat
    BY <1>1 DEF IdsInv, Shape
  <2>3. QED BY <1>1, <2>1, <2>2 DEF IdsInv, Shape, FreshIds
<1>3. Grows
  BY <1>1 DEF Grows
<1>4. \A k : Past(k) => Past(k)'
  BY <1>2, <1>3, PastStays DEF IdsInv
<1>5. \A k : Storing(k) => Past(k[2])'
  <2>1. ASSUME NEW c \in Chats, call[c].phase = "memory", NEW k, MemoryKey(tenant[c], call[c].id) = k
        PROVE  Past(k[2])'
    <3>1. call[c].id = FreshId(c) /\ restarts \in Nat /\ Len(said[c]) \in Nat
      BY <2>1, LengthsAreNat DEF IdsInv, FreshIds, Shape
    <3>2. k[2] = <<c, Len(said[c]) + 2, restarts>>
      BY <2>1, <3>1 DEF MemoryKey, FreshId
    <3>3. QED BY <1>1, <3>1, <3>2 DEF Past
  <2>2. QED BY <2>1 DEF Storing
<1>6. KeysInv'
  <2>1. \A k \in gone : /\ Past(k[2][2])'
                        /\ InKv(k) \notin DOMAIN kv /\ InMemory(k) \notin DOMAIN memory'
    BY <1>1, <1>4 DEF IdsInv, KeysInv
  <2>2. \A k : InMemory(k)[2] = k[2][2]
    BY DEF InMemory, MemoryKey
  <2>3. \A k \in DOMAIN kv : Past(k[2][2])'
    BY <1>4, <1>5, <2>2 DEF IdsInv, KeysInv
  <2>4. QED BY <1>1, <2>1, <2>3 DEF KeysInv, InKv, InMemory, KvKey, MemoryKey
<1>7. QED BY <1>1, <1>2, <1>6 DEF IdsInv, Readable

\* Ids of responses only grow, and what has been deleted is past and in no
\* store (ResponsesStore::put, ResponsesStore::delete).
THEOREM IdsInvariance == TalkSpec => []IdsInv
<1>1. TalkInit => IdsInv
  <2> SUFFICES ASSUME TalkInit PROVE IdsInv
    OBVIOUS
  <2>1. /\ said = [c \in Chats |-> <<>>] /\ parent = [c \in Chats |-> NoId]
        /\ call = [c \in Chats |-> NoCall]
        /\ DOMAIN kv = {} /\ DOMAIN memory = {} /\ deleting = <<>> /\ gone = {} /\ restarts = 0
    BY DEF TalkInit
  <2>2. Shape
    BY <2>1, EmptyIsSeq DEF Shape, IsCall, NoCall
  <2>3. QED BY <2>1, <2>2 DEF IdsInv, FreshIds, KeysInv, Readable, NoCall
<1>2. IdsInv /\ [TalkNext]_talkVars => IdsInv'
  <2> SUFFICES ASSUME IdsInv, [TalkNext]_talkVars PROVE IdsInv'
    OBVIOUS
  <2>1. CASE TalkNext
    BY <2>1, AskIds, FailIds, AnswerIds, PutKvIds, PutMemoryIds, AdoptIds, DeleteKvIds,
       DeleteMemoryIds, RestartIds DEF TalkNext
  <2>2. CASE UNCHANGED talkVars
    BY <2>2 DEF talkVars, setup, clients, store, IdsInv, Shape, FreshIds, FreshId, KeysInv, Past,
       Storing, Readable, InKv, InMemory, KvKey, MemoryKey
  <2>3. QED BY <2>1, <2>2
<1>3. QED BY <1>1, <1>2, PTL DEF TalkSpec

\* DeletedStaysDeleted: a response whose deletion was confirmed is in neither
\* store, whatever requests and restarts follow.
THEOREM DeletedIsGone == TalkSpec => []DeletedStaysDeleted
<1>1. IdsInv => DeletedStaysDeleted
  BY DEF IdsInv, KeysInv, InKv, DeletedStaysDeleted
<1>2. QED BY <1>1, IdsInvariance, PTL

-----------------------------------------------------------------------------
(* What is said stays with those who may know it.                           *)

\* What clients of the conversations M and their providers say, what else is in
\* the parts of a dialogue, and what a provider is shown.
Uttered(M) ==
    {<<w, d, n>> : w \in {"says", "image", "file", "answer"}, d \in M, n \in Nat}
    \cup {<<"result", d, n, k>> : d \in M, n \in Nat, k \in Nat}

Own(M) ==
    Uttered(M) \cup {<<"rules", d>> : d \in M} \cup Tools
    \cup {Search, ReadFile, Shell, NoBody, Attached}

OwnShown(M) == Own(M) \cup {Foreign(b) : b \in Uttered(M)}

GoodPart(x, M) ==
    /\ x = Part(x.kind, x.id, x.body)
    /\ x.kind \in {"text", "image", "file", "call", "result"}
    /\ x.body \in Own(M) /\ (x.kind = "file" => x.body \in Uttered(M))

GoodParts(s, M) == IsSeq(s) /\ \A i \in 1..Len(s) : GoodPart(s[i], M)

GoodMessage(m, M) ==
    /\ m = Message(m.role, m.content, m.calls, m.answers)
    /\ GoodParts(m.content, M) /\ GoodParts(m.calls, M)
    /\ \A i \in 1..Len(m.calls) : m.calls[i].kind = "call"

GoodMessages(ms, M) == IsSeq(ms) /\ \A i \in 1..Len(ms) : GoodMessage(ms[i], M)

GoodTurn(t, M) == GoodParts(t.parts, M) /\ t.who \in {"user", "assistant"}
GoodTurns(ts, M) == IsSeq(ts) /\ \A i \in 1..Len(ts) : GoodTurn(ts[i], M)

\* Nobody but the gateway speaks as the system.
Unruly(ms) == \A i \in 1..Len(ms) : ms[i].role \notin {"system", "developer"}

\* What a provider is shown.
GoodSent(ms, M) ==
    IsSeq(ms) /\ \A i \in 1..Len(ms) :
       /\ IsSeq(ms[i].content) /\ \A j \in 1..Len(ms[i].content) : ms[i].content[j].body \in OwnShown(M)
       /\ IsSeq(ms[i].calls) /\ \A j \in 1..Len(ms[i].calls) : ms[i].calls[j].body \in OwnShown(M)

Storable(ms, M) == GoodMessages(ms, M) /\ Unruly(ms)

\* The conversations of a tenant and of those whose name is its own, a colon and
\* more.
Members(t) == {d \in Chats : IsPrefix(t, tenant[d])}

\* What client c has heard and its request: all of it comes from M.
GoodTalk(turns, request, c, M) ==
    /\ GoodTurns(turns, M)
    /\ GoodParts(request.parts, M) /\ GoodParts(request.told, M)
    /\ Storable(request.conversation, M)
    /\ GoodSent(request.sent, M)
    /\ request.phase = "asked" => request.prompt = <<Rules(c)>>

GoodEntry(r, M) == Storable(r.messages, M) /\ GoodTurns(r.turns, M)
GoodEntries(s) == \A key \in DOMAIN s : GoodEntry(s[key], Members(key[1]))

\* Names of tenants, and ids that clients hold, are written with colons or without.
NamesInv ==
    /\ tenant \in [Chats -> Tenants]
    /\ \A c \in Chats : parent[c] = NoId \/ parent[c][1] \in Seq(STRING)

\* What a client and what the store keep has been said by conversations of their
\* tenant, or of one whose name goes on behind it.
BodiesInv ==
    /\ \A c \in Chats : GoodTalk(said[c], call[c], c, Members(tenant[c]))
    /\ GoodEntries(kv) /\ GoodEntries(memory)

\* What is shown has been said by those conversations or by nobody.
LEMMA ShownIsOwn ==
    ASSUME NEW M, NEW b \in OwnShown(M), NEW d \in SpokenBy(b)
    PROVE  d \in M
<1>1. CASE b \in Uttered(M)
  <2>1. CASE \E w \in {"says", "image", "file", "answer"}, e \in M, n \in Nat : b = <<w, e, n>>
    BY <2>1 DEF SpokenBy
  <2>2. CASE \E e \in M, n \in Nat, k \in Nat : b = <<"result", e, n, k>>
    BY <2>2 DEF SpokenBy
  <2>3. QED BY <1>1, <2>1, <2>2 DEF Uttered
<1>2. CASE \E e \in M : b = <<"rules", e>>
  BY <1>2 DEF SpokenBy
<1>3. CASE b \in Tools \cup {Search, ReadFile, Shell, NoBody, Attached}
  <2>1. Len(b) = 1
    BY <1>3, ToolsAssumption DEF Search, ReadFile, Shell, NoBody, Attached
  <2>2. Len(b) \notin {3, 4} /\ Len(b) # 2
    BY <2>1
  <2>3. SpokenBy(b) = {}
    BY ONLY <2>2 DEF SpokenBy
  <2>4. QED BY <2>3
<1>4. CASE \E u \in Uttered(M) : b = Foreign(u)
  <2>1. PICK u \in Uttered(M) : b = <<"json", u>>
    BY <1>4 DEF Foreign
  <2>2. u[2] \in M
    BY DEF Uttered
  <2>3. Len(b) = 2 /\ b[1] = "json" /\ b[2] = u
    BY <2>1
  <2>4. QED BY <2>2, <2>3 DEF SpokenBy
<1>5. QED BY <1>1, <1>2, <1>3, <1>4 DEF OwnShown, Own

\* A sequence that is built by its elements.
LEMMA Built ==
    ASSUME NEW n \in Nat, NEW s, s = [i \in 1..n |-> s[i]]
    PROVE  IsSeq(s) /\ Len(s) = n
<1>1. s \in Seq({s[i] : i \in 1..n})
  OBVIOUS
<1>2. Len(s) = n
  OBVIOUS
<1>3. QED BY <1>1, <1>2, AnySeq

\* A sequence of one element.
LEMMA OneSeq ==
    ASSUME NEW a, NEW s, s = <<a>>
    PROVE  IsSeq(s) /\ Len(s) = 1 /\ s[1] = a /\ \A i \in 1..Len(s) : s[i] = a
<1>1. s \in Seq({a})
  OBVIOUS
<1>2. Len(s) = 1 /\ s[1] = a
  OBVIOUS
<1>3. IsSeq(s)
  BY <1>1, AnySeq
<1>4. \A i \in 1..1 : i = 1
  OBVIOUS
<1>5. QED BY <1>2, <1>3, <1>4

\* A sequence with one element more.
LEMMA Appended ==
    ASSUME NEW s, NEW a, IsSeq(s)
    PROVE  /\ IsSeq(Append(s, a)) /\ Len(Append(s, a)) = Len(s) + 1
           /\ \A i \in 1..Len(s) : Append(s, a)[i] = s[i]
           /\ Append(s, a)[Len(s) + 1] = a
           /\ \A i \in 1..Len(Append(s, a)) : i \in 1..Len(s) \/ i = Len(s) + 1
<1>1. Len(s) \in Nat /\ s = [i \in 1..Len(s) |-> s[i]]
  BY SeqParts
<1>2. s \in Seq(Elements(s) \cup {a}) /\ a \in Elements(s) \cup {a}
  <2>1. \A i \in 1..Len(s) : s[i] \in Elements(s) \cup {a}
    BY DEF Elements
  <2>2. [i \in 1..Len(s) |-> s[i]] \in Seq(Elements(s) \cup {a})
    BY <1>1, <2>1
  <2>3. s \in Seq(Elements(s) \cup {a})
    BY <1>1, <2>2
  <2>4. QED BY <2>3
<1> DEFINE S == Elements(s) \cup {a}
<1> HIDE DEF S
<1>3. s \in Seq(S) /\ a \in S
  BY <1>2 DEF S
<1>4. Append(s, a) \in Seq(S) /\ Len(Append(s, a)) = Len(s) + 1
  BY <1>3
<1>5. (\A i \in 1..Len(s) : Append(s, a)[i] = s[i]) /\ Append(s, a)[Len(s) + 1] = a
  BY <1>1, <1>3
<1>6. IsSeq(Append(s, a))
  BY <1>4, AnySeq
<1>7. \A i \in 1..(Len(s) + 1) : i \in 1..Len(s) \/ i = Len(s) + 1
  BY <1>1
<1>8. QED BY <1>4, <1>5, <1>6, <1>7

-----------------------------------------------------------------------------
(* Parts that are chosen.                                                   *)

\* The parts of some kinds are of these kinds and come from all parts.
LEMMA ThoseFrom ==
    ASSUME NEW parts, IsSeq(parts), NEW kinds
    PROVE  /\ IsSeq(Those(parts, kinds))
           /\ \A k \in 1..Len(Those(parts, kinds)) :
                 /\ Those(parts, kinds)[k].kind \in kinds
                 /\ \E i \in 1..Len(parts) : Those(parts, kinds)[k] = parts[i]
<1> DEFINE one == [i \in 1..Len(parts) |-> IF parts[i].kind \in kinds THEN <<parts[i]>> ELSE <<>>]
<1>1. PICK ss : ss = one
  OBVIOUS
<1>2. Those(parts, kinds) = FlattenSeq(ss)
  BY <1>1 DEF Those, Chosen, Map
<1>3. \A i \in 1..Len(parts) : ss[i] = IF parts[i].kind \in kinds THEN <<parts[i]>> ELSE <<>>
  BY <1>1
<1>4. IsSeq(ss) /\ Len(ss) = Len(parts)
  BY <1>1, SeqParts, Built
<1>5. Choice(parts, ss)
  BY <1>3, <1>4 DEF Choice
<1>6. \A i \in 1..Len(parts) : IsChosen(parts, ss, i) => parts[i].kind \in kinds
  <2>1. \A x : Len(<<x>>) = 1 /\ Len(<<>>) = 0
    BY ONLY TRUE
  <2>2. \A x : <<x>> # <<>>
    BY <2>1
  <2>3. QED BY ONLY <1>3, <2>2 DEF IsChosen
<1>7. /\ IsSeq(FlattenSeq(ss))
      /\ \A k \in 1..Len(FlattenSeq(ss)) :
            \E i \in 1..Len(parts) : IsChosen(parts, ss, i) /\ FlattenSeq(ss)[k] = parts[i]
  BY ONLY IsSeq(parts), <1>5, ChosenFrom
<1>8. QED BY ONLY <1>2, <1>6, <1>7

\* Of good parts those of some kinds are good.
LEMMA GoodThose ==
    ASSUME NEW M, NEW parts, GoodParts(parts, M), NEW kinds
    PROVE  GoodParts(Those(parts, kinds), M)
BY ThoseFrom DEF GoodParts

\* The messages of the others come from all messages.
LEMMA OfOthersFrom ==
    ASSUME NEW ms, IsSeq(ms)
    PROVE  /\ IsSeq(OfOthers(ms))
           /\ \A k \in 1..Len(OfOthers(ms)) : \E i \in 1..Len(ms) : OfOthers(ms)[k] = ms[i]
<1> DEFINE ss == [i \in 1..Len(ms) |-> IF ms[i].role # "system" THEN <<ms[i]>> ELSE <<>>]
<1>1. OfOthers(ms) = FlattenSeq(ss)
  BY DEF OfOthers, Chosen, Map
<1>2. Len(ms) \in Nat
  BY SeqParts
<1>3. \A i \in 1..Len(ms) : ss[i] = IF ms[i].role # "system" THEN <<ms[i]>> ELSE <<>>
  OBVIOUS
<1>4. IsSeq(ss) /\ Len(ss) = Len(ms)
  BY <1>2, Built
<1> HIDE DEF ss
<1>5. Choice(ms, ss)
  BY <1>3, <1>4 DEF Choice
<1>6. QED BY <1>1, <1>5, ChosenFrom

\* What is in two sequences joined comes from one of them.
LEMMA JoinedFrom ==
    ASSUME NEW a, NEW b, IsSeq(a), IsSeq(b)
    PROVE  /\ IsSeq(a \o b)
           /\ \A k \in 1..Len(a \o b) : \/ \E i \in 1..Len(a) : (a \o b)[k] = a[i]
                                        \/ \E i \in 1..Len(b) : (a \o b)[k] = b[i]
<1>1. ASSUME NEW k \in 1..Len(a \o b)
      PROVE  \/ \E i \in 1..Len(a) : (a \o b)[k] = a[i]
             \/ \E i \in 1..Len(b) : (a \o b)[k] = b[i]
  <2>1. k \in 1..(Len(a) + Len(b))
    BY Joined
  <2>2. CASE k \in 1..Len(a)
    BY <2>2, Joined
  <2>3. CASE \E i \in 1..Len(b) : k = Len(a) + i
    BY <2>3, Joined
  <2>4. QED BY <2>1, <2>2, <2>3, Joined
<1>2. QED BY <1>1, Joined

-----------------------------------------------------------------------------
(* Good parts and messages stay good wherever they are put.                 *)

\* Good parts may be joined.
LEMMA GoodPartsJoined ==
    ASSUME NEW M, NEW a, NEW b, GoodParts(a, M), GoodParts(b, M)
    PROVE  GoodParts(a \o b, M)
<1>1. IsSeq(a) /\ IsSeq(b)
  BY DEF GoodParts
<1>2. ASSUME NEW k \in 1..Len(a \o b) PROVE GoodPart((a \o b)[k], M)
  <2>1. CASE \E i \in 1..Len(a) : (a \o b)[k] = a[i]
    BY <2>1 DEF GoodParts
  <2>2. CASE \E i \in 1..Len(b) : (a \o b)[k] = b[i]
    BY <2>2 DEF GoodParts
  <2>3. QED BY <1>1, <2>1, <2>2, JoinedFrom
<1>3. QED BY <1>1, <1>2, JoinedFrom DEF GoodParts

\* A good part alone.
LEMMA OneGoodPart ==
    ASSUME NEW M, NEW x, GoodPart(x, M)
    PROVE  GoodParts(<<x>>, M)
BY OneSeq DEF GoodParts

\* No parts at all are good.
LEMMA NoGoodParts ==
    ASSUME NEW M
    PROVE  GoodParts(<<>>, M)
BY EmptyIsSeq DEF GoodParts

\* A message that may be kept.
KeptMessage(m, M) == GoodMessage(m, M) /\ m.role \notin {"system", "developer"}

\* What may be stored, message by message.
LEMMA StorableMessages ==
    ASSUME NEW M, NEW ms
    PROVE  Storable(ms, M) <=> IsSeq(ms) /\ \A i \in 1..Len(ms) : KeptMessage(ms[i], M)
BY DEF Storable, GoodMessages, Unruly, KeptMessage

\* What may be stored may be joined.
LEMMA StorableJoined ==
    ASSUME NEW M, NEW a, NEW b, Storable(a, M), Storable(b, M)
    PROVE  Storable(a \o b, M)
<1>1. /\ IsSeq(a) /\ \A i \in 1..Len(a) : KeptMessage(a[i], M)
      /\ IsSeq(b) /\ \A i \in 1..Len(b) : KeptMessage(b[i], M)
  BY StorableMessages
<1>2. ASSUME NEW k \in 1..Len(a \o b) PROVE KeptMessage((a \o b)[k], M)
  <2>1. CASE \E i \in 1..Len(a) : (a \o b)[k] = a[i]
    BY <1>1, <2>1
  <2>2. CASE \E i \in 1..Len(b) : (a \o b)[k] = b[i]
    BY <1>1, <2>2
  <2>3. QED BY <1>1, <2>1, <2>2, JoinedFrom
<1>3. IsSeq(a \o b)
  BY <1>1, JoinedFrom
<1>4. QED BY <1>2, <1>3, StorableMessages

\* A message that may be kept, alone.
LEMMA OneStorable ==
    ASSUME NEW M, NEW m, KeptMessage(m, M)
    PROVE  Storable(<<m>>, M)
<1>1. IsSeq(<<m>>) /\ \A i \in 1..Len(<<m>>) : <<m>>[i] = m
  BY OneSeq
<1>2. QED BY <1>1, StorableMessages

\* Nothing may be stored.
LEMMA NoneStorable ==
    ASSUME NEW M
    PROVE  Storable(<<>>, M)
<1>1. IsSeq(<<>>) /\ Len(<<>>) = 0
  BY EmptyIsSeq
<1>2. QED BY <1>1, StorableMessages

\* What may be stored may be joined, whatever the number.
LEMMA FlatStorable ==
    ASSUME NEW M, NEW ss, IsSeq(ss), \A i \in 1..Len(ss) : Storable(ss[i], M)
    PROVE  Storable(FlattenSeq(ss), M)
<1>1. \A i \in 1..Len(ss) : IsSeq(ss[i]) /\ \A j \in 1..Len(ss[i]) : KeptMessage(ss[i][j], M)
  BY StorableMessages
<1>2. AreSeqs(ss)
  BY <1>1 DEF AreSeqs
<1>3. ASSUME NEW k \in 1..Len(FlattenSeq(ss)) PROVE KeptMessage(FlattenSeq(ss)[k], M)
  <2>1. PICK i \in 1..Len(ss) : \E j \in 1..Len(ss[i]) : FlattenSeq(ss)[k] = ss[i][j]
    BY <1>2, FlatFrom
  <2>2. QED BY <1>1, <2>1
<1>4. IsSeq(FlattenSeq(ss))
  BY <1>2, FlatFrom
<1>5. QED BY <1>3, <1>4, StorableMessages

\* Good parts may be joined, whatever the number.
LEMMA FlatGoodParts ==
    ASSUME NEW M, NEW ss, IsSeq(ss), \A i \in 1..Len(ss) : GoodParts(ss[i], M)
    PROVE  GoodParts(FlattenSeq(ss), M)
<1>1. \A i \in 1..Len(ss) : IsSeq(ss[i]) /\ \A j \in 1..Len(ss[i]) : GoodPart(ss[i][j], M)
  BY DEF GoodParts
<1>2. AreSeqs(ss)
  BY <1>1 DEF AreSeqs
<1>3. ASSUME NEW k \in 1..Len(FlattenSeq(ss)) PROVE GoodPart(FlattenSeq(ss)[k], M)
  <2>1. PICK i \in 1..Len(ss) : \E j \in 1..Len(ss[i]) : FlattenSeq(ss)[k] = ss[i][j]
    BY <1>2, FlatFrom
  <2>2. QED BY <1>1, <2>1
<1>4. IsSeq(FlattenSeq(ss))
  BY <1>2, FlatFrom
<1>5. QED BY <1>3, <1>4 DEF GoodParts

\* A sequence that is computed from another one, element by element.
LEMMA MapSeq ==
    ASSUME NEW s, IsSeq(s), NEW r, r = [i \in 1..Len(s) |-> r[i]]
    PROVE  IsSeq(r) /\ Len(r) = Len(s)
BY SeqParts, Built

-----------------------------------------------------------------------------
(* What a client sends.                                                     *)

\* A text of something that belongs there is good.
LEMMA TextIsGood ==
    ASSUME NEW M, NEW b \in Own(M)
    PROVE  GoodPart(Text(b), M) /\ Text(b).kind = "text" /\ Text(b).body = b
BY DEF GoodPart, Text, Part

\* A message of good parts may be kept.
LEMMA PlainIsKept ==
    ASSUME NEW M, NEW role, role \notin {"system", "developer"}, NEW content, GoodParts(content, M)
    PROVE  KeptMessage(Plain(role, content), M)
<1>1. GoodParts(<<>>, M) /\ Len(<<>>) = 0
  BY NoGoodParts, EmptyIsSeq
<1>2. QED BY <1>1 DEF KeptMessage, GoodMessage, Plain, Message

\* So may one with calls.
LEMMA WithCallsIsKept ==
    ASSUME NEW M, NEW role, role \notin {"system", "developer"},
           NEW content, GoodParts(content, M), NEW calls, GoodParts(calls, M),
           \A i \in 1..Len(calls) : calls[i].kind = "call", NEW answers
    PROVE  KeptMessage(Message(role, content, calls, answers), M)
BY DEF KeptMessage, GoodMessage, Message

\* The calls among good parts are good and are calls.
LEMMA CallsAreCalls ==
    ASSUME NEW M, NEW parts, GoodParts(parts, M)
    PROVE  /\ GoodParts(Those(parts, {"call"}), M)
           /\ \A i \in 1..Len(Those(parts, {"call"})) : Those(parts, {"call"})[i].kind = "call"
<1>1. IsSeq(parts)
  BY DEF GoodParts
<1>2. QED BY <1>1, GoodThose, ThoseFrom

\* The message of a result says what the result says.
LEMMA ResultMessageIsKept ==
    ASSUME NEW M, NEW turns, NEW x, GoodPart(x, M)
    PROVE  KeptMessage(ResultMessage(turns, x), M)
<1>1. GoodParts(<<Text(x.body)>>, M)
  BY TextIsGood, OneGoodPart DEF GoodPart
<1>2. GoodParts(<<>>, M) /\ Len(<<>>) = 0
  BY NoGoodParts, EmptyIsSeq
<1>3. \A answers : \A role \in {"tool", "function"} :
         KeptMessage(Message(role, <<Text(x.body)>>, <<>>, answers), M)
  BY <1>1, <1>2 DEF KeptMessage, GoodMessage, Message
<1>4. QED BY <1>3 DEF ResultMessage

\* So do the messages of several results.
LEMMA ResultMessagesStorable ==
    ASSUME NEW M, NEW turns, NEW xs, GoodParts(xs, M),
           NEW r, r = [i \in 1..Len(xs) |-> ResultMessage(turns, xs[i])]
    PROVE  Storable(r, M)
<1>1. IsSeq(xs) /\ \A i \in 1..Len(xs) : GoodPart(xs[i], M)
  BY DEF GoodParts
<1>2. \A i \in 1..Len(xs) : r[i] = ResultMessage(turns, xs[i])
  OBVIOUS
<1>3. r = [i \in 1..Len(xs) |-> r[i]]
  OBVIOUS
<1>4. IsSeq(r) /\ Len(r) = Len(xs)
  BY ONLY <1>1, <1>3, MapSeq
<1>5. \A i \in 1..Len(r) : KeptMessage(r[i], M)
  BY ONLY <1>1, <1>2, <1>4, ResultMessageIsKept
<1>6. QED BY ONLY <1>4, <1>5, StorableMessages

\* What a turn says beside its results.
LEMMA PlainIfAny ==
    ASSUME NEW M, NEW others, GoodParts(others, M)
    PROVE  Storable(IF others = <<>> THEN <<>> ELSE <<Plain("user", others)>>, M)
<1>1. Storable(<<>>, M)
  BY NoneStorable
<1>2. Storable(<<Plain("user", others)>>, M)
  BY PlainIsKept, OneStorable
<1>3. QED BY <1>1, <1>2

\* A turn in the chat format (ChatTurn) says what the turn says, and not as the
\* system.
LEMMA ChatTurnStorable ==
    ASSUME NEW M, NEW turns, NEW t, GoodTurn(t, M)
    PROVE  Storable(ChatTurn(turns, t), M)
<1> DEFINE others == Those(t.parts, {"text", "image", "file"})
           calls == Those(t.parts, {"call"})
           results == Those(t.parts, {"result"})
           answers == [i \in 1..Len(results) |-> ResultMessage(turns, results[i])]
           rest == IF others = <<>> THEN <<>> ELSE <<Plain("user", others)>>
<1>1. GoodParts(others, M) /\ GoodParts(results, M) /\ GoodParts(calls, M)
      /\ \A i \in 1..Len(calls) : calls[i].kind = "call"
  BY GoodThose, CallsAreCalls DEF GoodTurn
<1>2. Storable(answers, M)
  BY <1>1, ResultMessagesStorable
<1>3. Storable(rest, M)
  BY <1>1, PlainIfAny
<1>4. Storable(<<Message("assistant", others, calls, NoId)>>, M)
  <2> HIDE DEF others, calls
  <2>1. KeptMessage(Message("assistant", others, calls, NoId), M)
    BY <1>1, WithCallsIsKept
  <2>2. QED BY <2>1, OneStorable
<1>5. ChatTurn(turns, t) = IF t.who = "assistant" THEN <<Message("assistant", others, calls, NoId)>>
                           ELSE answers \o rest
  BY DEF ChatTurn, Map
<1>6. Storable(answers \o rest, M)
  BY ONLY <1>2, <1>3, StorableJoined
<1>7. QED BY ONLY <1>4, <1>5, <1>6

\* So do all turns.
LEMMA ChatTurnsStorable ==
    ASSUME NEW M, NEW turns, GoodTurns(turns, M)
    PROVE  Storable(ChatTurns(turns), M)
<1>1. PICK ss : ss = [i \in 1..Len(turns) |-> ChatTurn(turns, turns[i])]
  OBVIOUS
<1>2. ChatTurns(turns) = FlattenSeq(ss)
  BY <1>1 DEF ChatTurns, Map
<1>3. IsSeq(turns) /\ \A i \in 1..Len(turns) : GoodTurn(turns[i], M)
  BY DEF GoodTurns
<1>4. ss = [i \in 1..Len(turns) |-> ss[i]] /\ \A i \in 1..Len(turns) : ss[i] = ChatTurn(turns, turns[i])
  BY <1>1
<1>5. IsSeq(ss) /\ Len(ss) = Len(turns)
  BY ONLY <1>3, <1>4, MapSeq
<1>6. \A i \in 1..Len(ss) : Storable(ss[i], M)
  BY ONLY <1>3, <1>4, <1>5, ChatTurnStorable
<1>7. QED BY ONLY <1>2, <1>5, <1>6, FlatStorable

\* The turns as messages of the Messages API.
LEMMA TurnMessagesStorable ==
    ASSUME NEW M, NEW turns, GoodTurns(turns, M)
    PROVE  Storable(Map(turns, LAMBDA t : Plain(t.who, t.parts)), M)
<1>1. PICK r : r = [i \in 1..Len(turns) |-> Plain(turns[i].who, turns[i].parts)]
  OBVIOUS
<1>2. IsSeq(turns) /\ \A i \in 1..Len(turns) : GoodTurn(turns[i], M)
  BY DEF GoodTurns
<1>3. /\ r = [i \in 1..Len(turns) |-> r[i]]
      /\ \A i \in 1..Len(turns) : r[i] = Plain(turns[i].who, turns[i].parts)
  BY <1>1
<1>4. IsSeq(r) /\ Len(r) = Len(turns)
  BY ONLY <1>2, <1>3, MapSeq
<1>5. ASSUME NEW i \in 1..Len(r) PROVE KeptMessage(r[i], M)
  <2>1. GoodParts(turns[i].parts, M) /\ turns[i].who \notin {"system", "developer"}
    BY <1>2, <1>4 DEF GoodTurn
  <2>2. KeptMessage(Plain(turns[i].who, turns[i].parts), M)
    BY ONLY <2>1, PlainIsKept
  <2>3. QED BY <1>3, <1>4, <2>2
<1>6. Storable(r, M)
  BY ONLY <1>4, <1>5, StorableMessages
<1>7. QED BY <1>1, <1>6 DEF Map

\* An item of a known kind, of a client that speaks as a user or reads its assistant.
GoodItem(item, M) ==
    /\ item.type \in {"message", "function_call", "local_shell_call",
                      "function_call_output", "local_shell_call_output"}
    /\ item.body \in Own(M) /\ GoodParts(item.content, M)
    /\ item.type = "message" => item.role \in {"user", "assistant"}

GoodItems(items, M) == IsSeq(items) /\ \A i \in 1..Len(items) : GoodItem(items[i], M)

\* Good items may be joined.
LEMMA GoodItemsJoined ==
    ASSUME NEW M, NEW a, NEW b, GoodItems(a, M), GoodItems(b, M)
    PROVE  GoodItems(a \o b, M)
<1>1. IsSeq(a) /\ IsSeq(b)
  BY DEF GoodItems
<1>2. ASSUME NEW k \in 1..Len(a \o b) PROVE GoodItem((a \o b)[k], M)
  <2>1. CASE \E i \in 1..Len(a) : (a \o b)[k] = a[i]
    BY <2>1 DEF GoodItems
  <2>2. CASE \E i \in 1..Len(b) : (a \o b)[k] = b[i]
    BY <2>2 DEF GoodItems
  <2>3. QED BY <1>1, <2>1, <2>2, JoinedFrom
<1>3. QED BY <1>1, <1>2, JoinedFrom DEF GoodItems

\* A turn as items of the Responses API.
LEMMA ItemTurnGood ==
    ASSUME NEW M, NEW turns, NEW t, GoodTurn(t, M)
    PROVE  GoodItems(ItemTurn(turns, t), M)
<1> DEFINE others == Those(t.parts, {"text", "image", "file"})
           calls == Those(t.parts, {"call"})
           results == Those(t.parts, {"result"})
           outputs == [i \in 1..Len(results) |-> OutputItem(turns, results[i])]
           called == [i \in 1..Len(calls) |-> CallItem(calls[i])]
           rest == IF others = <<>> THEN <<>> ELSE <<MessageItem(t.who, others)>>
<1>1. GoodParts(others, M) /\ GoodParts(results, M) /\ GoodParts(calls, M)
      /\ t.who \in {"user", "assistant"}
  BY GoodThose, CallsAreCalls DEF GoodTurn
<1>2. GoodParts(<<>>, M) /\ NoBody \in Own(M)
  BY NoGoodParts DEF Own
<1>3. ItemTurn(turns, t) = (outputs \o rest) \o called
  BY DEF ItemTurn, Map
<1> HIDE DEF others, calls, results
<1>4. GoodItems(outputs, M)
  <2>1. IsSeq(results) /\ \A i \in 1..Len(results) : results[i].body \in Own(M)
    BY <1>1 DEF GoodParts, GoodPart
  <2>2. PICK r : r = outputs
    OBVIOUS
  <2>3. r = [i \in 1..Len(results) |-> r[i]]
        /\ \A i \in 1..Len(results) : r[i] = OutputItem(turns, results[i])
    BY <2>2
  <2>4. IsSeq(r) /\ Len(r) = Len(results)
    BY ONLY <2>1, <2>3, MapSeq
  <2>5. \A x : x.body \in Own(M) => GoodItem(OutputItem(turns, x), M)
    BY <1>2 DEF GoodItem, OutputItem, Item
  <2>6. \A i \in 1..Len(r) : GoodItem(r[i], M)
    BY ONLY <2>1, <2>3, <2>4, <2>5
  <2>7. GoodItems(r, M)
    BY <2>4, <2>6 DEF GoodItems
  <2>8. QED BY <2>2, <2>7
<1>5. GoodItems(called, M)
  <2>1. IsSeq(calls) /\ \A i \in 1..Len(calls) : calls[i].body \in Own(M)
    BY <1>1 DEF GoodParts, GoodPart
  <2>2. PICK r : r = called
    OBVIOUS
  <2>3. r = [i \in 1..Len(calls) |-> r[i]] /\ \A i \in 1..Len(calls) : r[i] = CallItem(calls[i])
    BY <2>2
  <2>4. IsSeq(r) /\ Len(r) = Len(calls)
    BY ONLY <2>1, <2>3, MapSeq
  <2>5. \A x : x.body \in Own(M) => GoodItem(CallItem(x), M)
    BY <1>2 DEF GoodItem, CallItem, Item
  <2>6. \A i \in 1..Len(r) : GoodItem(r[i], M)
    BY ONLY <2>1, <2>3, <2>4, <2>5
  <2>7. GoodItems(r, M)
    BY <2>4, <2>6 DEF GoodItems
  <2>8. QED BY <2>2, <2>7
<1>6. GoodItems(rest, M)
  <2>1. IsSeq(<<>>) /\ Len(<<>>) = 0
    BY EmptyIsSeq
  <2>2. GoodItems(<<>>, M)
    BY <2>1 DEF GoodItems
  <2>3. GoodItem(MessageItem(t.who, others), M)
    BY <1>1, <1>2 DEF GoodItem, MessageItem, Item
  <2>4. IsSeq(<<MessageItem(t.who, others)>>)
        /\ \A i \in 1..Len(<<MessageItem(t.who, others)>>) :
              <<MessageItem(t.who, others)>>[i] = MessageItem(t.who, others)
    BY OneSeq
  <2>5. GoodItems(<<MessageItem(t.who, others)>>, M)
    BY <2>3, <2>4 DEF GoodItems
  <2>6. QED BY <2>2, <2>5
<1> HIDE DEF outputs, called, rest
<1>7. QED BY <1>3, <1>4, <1>5, <1>6, GoodItemsJoined

\* All turns as such items.
LEMMA ItemTurnsGood ==
    ASSUME NEW M, NEW turns, NEW new, GoodTurns(new, M)
    PROVE  GoodItems(ItemTurns(turns, new), M)
<1>1. PICK ss : ss = [i \in 1..Len(new) |-> ItemTurn(turns, new[i])]
  OBVIOUS
<1>2. ItemTurns(turns, new) = FlattenSeq(ss)
  BY <1>1 DEF ItemTurns, Map
<1>3. IsSeq(new) /\ \A i \in 1..Len(new) : GoodTurn(new[i], M)
  BY DEF GoodTurns
<1>4. ss = [i \in 1..Len(new) |-> ss[i]] /\ \A i \in 1..Len(new) : ss[i] = ItemTurn(turns, new[i])
  BY <1>1
<1>5. IsSeq(ss) /\ Len(ss) = Len(new)
  BY ONLY <1>3, <1>4, MapSeq
<1>6. \A i \in 1..Len(ss) : GoodItems(ss[i], M)
  BY ONLY <1>3, <1>4, <1>5, ItemTurnGood
<1>7. \A i \in 1..Len(ss) : IsSeq(ss[i]) /\ \A j \in 1..Len(ss[i]) : GoodItem(ss[i][j], M)
  BY <1>6 DEF GoodItems
<1>8. AreSeqs(ss)
  BY <1>5, <1>7 DEF AreSeqs
<1>9. ASSUME NEW k \in 1..Len(FlattenSeq(ss)) PROVE GoodItem(FlattenSeq(ss)[k], M)
  <2>1. PICK i \in 1..Len(ss) : \E j \in 1..Len(ss[i]) : FlattenSeq(ss)[k] = ss[i][j]
    BY <1>8, FlatFrom
  <2>2. QED BY <1>7, <2>1
<1>10. QED BY <1>2, <1>8, <1>9, FlatFrom DEF GoodItems

\* An item becomes messages that say the same, and none that speaks as the
\* system (response_input_item_to_messages).
LEMMA ItemMessagesStorable ==
    ASSUME NEW M, NEW item, GoodItem(item, M)
    PROVE  Storable(ItemMessages(item), M)
<1>1. GoodParts(<<>>, M) /\ Len(<<>>) = 0
  BY NoGoodParts, EmptyIsSeq
<1>2. CASE item.type = "message"
  <2>1. GoodParts(ItemContent(item.content), M)
    BY GoodThose DEF GoodItem, ItemContent
  <2>2. item.role \notin {"system", "developer"}
    BY <1>2 DEF GoodItem
  <2>3. KeptMessage(Plain(item.role, ItemContent(item.content)), M)
    BY <2>1, <2>2, PlainIsKept
  <2>4. ItemMessages(item) = <<Plain(item.role, ItemContent(item.content))>>
    BY <1>2, <2>2 DEF ItemMessages
  <2>5. QED BY <2>3, <2>4, OneStorable
<1>3. CASE item.type \in {"function_call_output", "local_shell_call_output"}
  <2> DEFINE x == Part("text", NoId, item.body)
  <2>1. GoodParts(<<x>>, M)
    BY OneGoodPart DEF GoodItem, GoodPart, Part
  <2> HIDE DEF x
  <2>2. \A i \in 1..Len(<<>>) : <<>>[i].kind = "call"
    BY <1>1
  <2>3. KeptMessage(Message("tool", <<x>>, <<>>, item.id), M)
    BY ONLY <1>1, <2>1, <2>2, WithCallsIsKept
  <2>4. ItemMessages(item) = <<Message("tool", <<x>>, <<>>, item.id)>>
    BY <1>3 DEF ItemMessages, x
  <2>5. QED BY <2>3, <2>4, OneStorable
<1>4. CASE item.type \in {"function_call", "local_shell_call"}
  <2> DEFINE x == Part("call", item.id, IF item.type = "local_shell_call" THEN Shell ELSE item.body)
  <2>1. GoodPart(x, M) /\ x.kind = "call"
    BY DEF GoodItem, GoodPart, Part, Own
  <2> HIDE DEF x
  <2>2. GoodParts(<<x>>, M)
    BY <2>1, OneGoodPart
  <2>3. \A i \in 1..Len(<<x>>) : <<x>>[i].kind = "call"
    BY <2>1, OneSeq
  <2>4. KeptMessage(Message("assistant", <<>>, <<x>>, NoId), M)
    BY ONLY <1>1, <2>2, <2>3, WithCallsIsKept
  <2>5. ItemMessages(item) = <<Message("assistant", <<>>, <<x>>, NoId)>>
    BY <1>4 DEF ItemMessages, CallMessage, x
  <2>6. QED BY <2>4, <2>5, OneStorable
<1>5. QED BY <1>2, <1>3, <1>4 DEF GoodItem

\* So do all items.
LEMMA InputMessagesStorable ==
    ASSUME NEW M, NEW items, GoodItems(items, M)
    PROVE  Storable(InputMessages(items), M)
<1>1. PICK ss : ss = [i \in 1..Len(items) |-> ItemMessages(items[i])]
  OBVIOUS
<1>2. InputMessages(items) = FlattenSeq(ss)
  BY <1>1 DEF InputMessages, Map
<1>3. IsSeq(items) /\ \A i \in 1..Len(items) : GoodItem(items[i], M)
  BY DEF GoodItems
<1>4. ss = [i \in 1..Len(items) |-> ss[i]] /\ \A i \in 1..Len(items) : ss[i] = ItemMessages(items[i])
  BY <1>1
<1>5. IsSeq(ss) /\ Len(ss) = Len(items)
  BY ONLY <1>3, <1>4, MapSeq
<1>6. \A i \in 1..Len(ss) : Storable(ss[i], M)
  BY ONLY <1>3, <1>4, <1>5, ItemMessagesStorable
<1>7. QED BY ONLY <1>2, <1>5, <1>6, FlatStorable

-----------------------------------------------------------------------------
(* Images: a reference is within the list of media.                         *)

\* What is chosen by its kind has a place of its own.
ChosenAt(s, kinds, at) ==
    \A i, k \in 1..Len(s) :
       s[i].kind \in kinds /\ s[k].kind \in kinds =>
          at[i] \in 1..Len(Those(s, kinds)) /\ (at[i] = at[k] => i = k)

\* The parts of some kinds have places of their own: no two parts get the same
\* one.
LEMMA ChosenPlaces ==
    ASSUME NEW s, IsSeq(s), NEW kinds
    PROVE  \E at : ChosenAt(s, kinds, at)
<1>1. PICK ss : ss = [i \in 1..Len(s) |-> IF s[i].kind \in kinds THEN <<s[i]>> ELSE <<>>]
  OBVIOUS
<1>2. Those(s, kinds) = FlattenSeq(ss)
  BY <1>1 DEF Those, Chosen, Map
<1>3. /\ ss = [i \in 1..Len(s) |-> ss[i]]
      /\ \A i \in 1..Len(s) : ss[i] = IF s[i].kind \in kinds THEN <<s[i]>> ELSE <<>>
  BY <1>1
<1>4. IsSeq(ss) /\ Len(ss) = Len(s)
  BY ONLY IsSeq(s), <1>3, MapSeq
<1>5. \A i \in 1..Len(ss) : IsSeq(ss[i]) /\ (s[i].kind \in kinds => 1 \in 1..Len(ss[i]))
  <2>1. \A x : IsSeq(<<x>>) /\ 1 \in 1..Len(<<x>>)
    BY OneSeq
  <2>2. IsSeq(<<>>)
    BY EmptyIsSeq
  <2>3. QED BY <1>3, <1>4, <2>1, <2>2
<1>6. AreSeqs(ss)
  BY <1>4, <1>5 DEF AreSeqs
<1>7. CASE Len(s) = 0
  BY <1>7 DEF ChosenAt
<1>8. CASE Len(s) # 0
  <2>1. HasPlaces(ss, Len(ss), FlattenSeq(ss))
    BY <1>4, <1>6, <1>8, FlatPlaces
  <2>2. PICK place : Placed(ss, Len(ss), FlattenSeq(ss), place)
    BY <2>1 DEF HasPlaces
  <2>3. PICK at : at = [i \in 1..Len(s) |-> place[i][1]]
    OBVIOUS
  <2>4. ASSUME NEW i \in 1..Len(s), NEW k \in 1..Len(s), s[i].kind \in kinds, s[k].kind \in kinds
        PROVE  at[i] \in 1..Len(Those(s, kinds)) /\ (at[i] = at[k] => i = k)
    <3>1. /\ i \in 1..Len(ss) /\ k \in 1..Len(ss)
          /\ 1 \in 1..Len(ss[i]) /\ 1 \in 1..Len(ss[k])
      BY <1>4, <1>5, <2>4
    <3>2. place[i][1] \in 1..Len(FlattenSeq(ss)) /\ (place[i][1] = place[k][1] => i = k)
      BY <2>2, <3>1 DEF Placed
    <3>3. QED BY <1>2, <2>3, <3>2
  <2>5. QED BY <2>4 DEF ChosenAt
<1>9. QED BY <1>7, <1>8

\* The number that an image gets is a place in the list of media: the images
\* before it, and it, have different places there.
LEMMA ImageNumbered ==
    ASSUME NEW ms, IsSeq(ms), \A i \in 1..Len(ms) : IsSeq(ms[i].content),
           NEW i \in 1..Len(ms), NEW j \in 1..Len(ms[i].content), ms[i].content[j].kind = "image"
    PROVE  ImagesBefore(ms, i, j) + 1 \in 1..Len(Media(ms))
<1>1. PICK ss : ss = [m \in 1..Len(ms) |-> ms[m].content]
  OBVIOUS
<1>2. ss = [m \in 1..Len(ms) |-> ss[m]] /\ \A m \in 1..Len(ms) : ss[m] = ms[m].content
  BY <1>1
<1>3. IsSeq(ss) /\ Len(ss) = Len(ms)
  BY ONLY IsSeq(ms), <1>2, MapSeq
<1>4. AreSeqs(ss)
  BY <1>2, <1>3 DEF AreSeqs
<1>5. Len(ms) \in Nat /\ Len(ms) # 0 /\ i \in Nat /\ j \in Nat
  BY SeqParts
<1> DEFINE flat == FlattenSeq(ss)
<1>6. Media(ms) = Those(flat, {"image"})
  BY <1>1 DEF Media, Map
<1>7. HasPlaces(ss, Len(ss), flat)
  BY <1>3, <1>4, <1>5, FlatPlaces
<1> HIDE DEF flat
<1>8. PICK place : Placed(ss, Len(ss), flat, place)
  BY <1>7 DEF HasPlaces
<1>9. IsSeq(flat)
  BY <1>7 DEF HasPlaces
<1>10. PICK at : ChosenAt(flat, {"image"}, at)
  BY <1>9, ChosenPlaces
<1>11. PICK B : B = {x \in UNION {{m} \X (1..Len(ms[m].content)) : m \in 1..i} :
                       /\ x[1] < i \/ x[2] < j
                       /\ ms[x[1]].content[x[2]].kind = "image"}
  OBVIOUS
<1>12. ImagesBefore(ms, i, j) = Cardinality(B)
  BY <1>11 DEF ImagesBefore
<1>13. PICK me : me = <<i, j>>
  OBVIOUS
<1>14. \A x \in B \cup {me} :
          /\ x = <<x[1], x[2]>> /\ x[1] \in 1..Len(ss) /\ x[2] \in 1..Len(ss[x[1]])
          /\ ss[x[1]][x[2]].kind = "image"
  <2>1. ASSUME NEW x \in B
        PROVE  /\ x = <<x[1], x[2]>> /\ x[1] \in 1..Len(ss) /\ x[2] \in 1..Len(ss[x[1]])
               /\ ss[x[1]][x[2]].kind = "image"
    <3>1. PICK m \in 1..i : x \in {m} \X (1..Len(ms[m].content))
      BY <1>11, <2>1
    <3>2. x = <<x[1], x[2]>> /\ x[1] = m /\ x[2] \in 1..Len(ms[m].content)
      BY <3>1
    <3>3. m \in 1..Len(ms)
      BY <1>5, <3>1
    <3>4. ms[x[1]].content[x[2]].kind = "image"
      BY <1>11, <2>1
    <3>5. QED BY <1>2, <1>3, <3>2, <3>3, <3>4
  <2>2. me = <<me[1], me[2]>> /\ me[1] = i /\ me[2] = j
    BY <1>13
  <2>3. QED BY <1>2, <1>3, <2>1, <2>2
<1>15. me \notin B
  <2>1. me[1] = i /\ me[2] = j
    BY <1>13
  <2>2. ~(me[1] < i \/ me[2] < j)
    BY <1>5, <2>1
  <2>3. QED BY <1>11, <2>2
<1>16. PICK f : f = [x \in B \cup {me} |-> at[place[x[1]][x[2]]]]
  OBVIOUS
<1>17. ASSUME NEW x \in B \cup {me}, NEW y \in B \cup {me}
       PROVE  f[x] \in 1..Len(Media(ms)) /\ (f[x] = f[y] => x = y)
  <2>1. /\ place[x[1]][x[2]] \in 1..Len(flat) /\ flat[place[x[1]][x[2]]].kind = "image"
        /\ place[y[1]][y[2]] \in 1..Len(flat) /\ flat[place[y[1]][y[2]]].kind = "image"
        /\ place[x[1]][x[2]] = place[y[1]][y[2]] => x[1] = y[1] /\ x[2] = y[2]
    <3>1. /\ x[1] \in 1..Len(ss) /\ x[2] \in 1..Len(ss[x[1]]) /\ ss[x[1]][x[2]].kind = "image"
          /\ y[1] \in 1..Len(ss) /\ y[2] \in 1..Len(ss[y[1]]) /\ ss[y[1]][y[2]].kind = "image"
      BY <1>14
    <3>2. \A p \in 1..Len(ss) : \A q \in 1..Len(ss[p]) :
             place[p][q] \in 1..Len(flat) /\ flat[place[p][q]] = ss[p][q]
      BY <1>8 DEF Placed
    <3>3. \A p, k \in 1..Len(ss) : \A q \in 1..Len(ss[p]), l \in 1..Len(ss[k]) :
             place[p][q] = place[k][l] => p = k /\ q = l
      BY <1>8 DEF Placed
    <3>4. /\ place[x[1]][x[2]] \in 1..Len(flat) /\ flat[place[x[1]][x[2]]] = ss[x[1]][x[2]]
          /\ place[y[1]][y[2]] \in 1..Len(flat) /\ flat[place[y[1]][y[2]]] = ss[y[1]][y[2]]
      BY ONLY <3>1, <3>2
    <3>5. place[x[1]][x[2]] = place[y[1]][y[2]] => x[1] = y[1] /\ x[2] = y[2]
      <4>1. PICK p \in 1..Len(ss) : p = x[1]
        BY <3>1
      <4>2. PICK k \in 1..Len(ss) : k = y[1]
        BY <3>1
      <4>3. PICK q \in 1..Len(ss[p]) : q = x[2]
        BY <3>1, <4>1
      <4>4. PICK l \in 1..Len(ss[k]) : l = y[2]
        BY <3>1, <4>2
      <4>5. place[p][q] = place[k][l] => p = k /\ q = l
        <5>1. \A r \in 1..Len(ss[p]), s \in 1..Len(ss[k]) : place[p][r] = place[k][s] => p = k /\ r = s
          BY ONLY <3>3
        <5>2. QED BY ONLY <5>1
      <4>6. QED BY ONLY <4>1, <4>2, <4>3, <4>4, <4>5
    <3>6. flat[place[x[1]][x[2]]].kind = "image" /\ flat[place[y[1]][y[2]]].kind = "image"
      BY ONLY <3>1, <3>4
    <3>7. QED BY ONLY <3>4, <3>5, <3>6
  <2>2. /\ at[place[x[1]][x[2]]] \in 1..Len(Media(ms))
        /\ at[place[x[1]][x[2]]] = at[place[y[1]][y[2]]] => place[x[1]][x[2]] = place[y[1]][y[2]]
    BY <1>6, <1>10, <2>1 DEF ChosenAt
  <2>3. f[x] = at[place[x[1]][x[2]]] /\ f[y] = at[place[y[1]][y[2]]]
    BY <1>16
  <2>4. x = <<x[1], x[2]>> /\ y = <<y[1], y[2]>>
    BY <1>14
  <2>5. QED BY <2>1, <2>2, <2>3, <2>4
<1>18. f \in Injection(B \cup {me}, 1..Len(Media(ms)))
  <2>1. f = [x \in B \cup {me} |-> f[x]]
    BY <1>16
  <2>2. DOMAIN f = B \cup {me} /\ f \in [B \cup {me} -> 1..Len(Media(ms))]
    BY <1>17, <2>1
  <2>3. QED BY <1>17, <2>2 DEF Injection, IsInjective
<1>19. Len(Media(ms)) \in Nat
  BY <1>6, <1>9, ThoseFrom, SeqParts
<1>20. IsFiniteSet(1..Len(Media(ms))) /\ Cardinality(1..Len(Media(ms))) = Len(Media(ms))
  <2>1. PICK n \in Nat : n = Len(Media(ms))
    BY <1>19
  <2>2. IsFiniteSet(1..n) /\ Cardinality(1..n) = IF 1 > n THEN 0 ELSE n - 1 + 1
    <3>1. 1 \in Int /\ n \in Int
      OBVIOUS
    <3>2. QED BY ONLY <3>1, FS_Interval
  <2>3. (IF 1 > n THEN 0 ELSE n - 1 + 1) = n
    OBVIOUS
  <2>4. QED BY <2>1, <2>2, <2>3
<1>21. IsFiniteSet(B \cup {me}) /\ Cardinality(B \cup {me}) <= Len(Media(ms))
  BY <1>18, <1>20, FS_Injection
<1>22. IsFiniteSet(B)
  BY <1>21, FS_Subset
<1>23. Cardinality(B \cup {me}) = Cardinality(B) + 1 /\ Cardinality(B) \in Nat
  BY <1>15, <1>22, FS_AddElement, FS_CardinalityType
<1>24. QED BY <1>12, <1>19, <1>21, <1>23

-----------------------------------------------------------------------------
(* The normal form.                                                         *)

NormalPart(x, media, M) ==
    /\ x.body \in Own(M)
    /\ x.kind = "provider" => x.body \in Uttered(M)
    /\ x.kind = "image" => x.id[1] + 1 \in 1..Len(media)

NormalParts(s, media, M) == IsSeq(s) /\ \A i \in 1..Len(s) : NormalPart(s[i], media, M)

GoodNormal(normal, M) ==
    /\ IsSeq(normal.messages)
    /\ \A i \in 1..Len(normal.messages) : NormalParts(normal.messages[i].content, normal.media, M)
    /\ IsSeq(normal.results)
    /\ \A i \in 1..Len(normal.results) : normal.results[i].body \in Own(M)
    /\ GoodParts(normal.media, M)

\* The media of good messages are good.
LEMMA MediaGood ==
    ASSUME NEW M, NEW ms, IsSeq(ms), \A i \in 1..Len(ms) : GoodParts(ms[i].content, M)
    PROVE  GoodParts(Media(ms), M)
<1>1. PICK ss : ss = [i \in 1..Len(ms) |-> ms[i].content]
  OBVIOUS
<1>2. ss = [i \in 1..Len(ms) |-> ss[i]] /\ \A i \in 1..Len(ms) : ss[i] = ms[i].content
  BY <1>1
<1>3. IsSeq(ss) /\ Len(ss) = Len(ms)
  BY ONLY IsSeq(ms), <1>2, MapSeq
<1>4. \A i \in 1..Len(ss) : GoodParts(ss[i], M)
  BY <1>2, <1>3
<1>5. GoodParts(FlattenSeq(ss), M)
  BY ONLY <1>3, <1>4, FlatGoodParts
<1>6. Media(ms) = Those(FlattenSeq(ss), {"image"})
  BY <1>1 DEF Media, Map
<1>7. QED BY <1>5, <1>6, GoodThose

\* The content in the normal form refers to media that are there.
LEMMA NormalContentGood ==
    ASSUME NEW M, NEW ms, IsSeq(ms), \A i \in 1..Len(ms) : GoodParts(ms[i].content, M),
           NEW i \in 1..Len(ms)
    PROVE  NormalParts(NormalContent(ms, i), Media(ms), M)
<1>1. PICK r : r = NormalContent(ms, i)
  OBVIOUS
<1>2. IsSeq(ms[i].content) /\ \A j \in 1..Len(ms[i].content) : GoodPart(ms[i].content[j], M)
  BY DEF GoodParts
<1>3. r = [j \in 1..Len(ms[i].content) |-> r[j]]
  BY <1>1 DEF NormalContent
<1>4. IsSeq(r) /\ Len(r) = Len(ms[i].content)
  BY ONLY <1>2, <1>3, MapSeq
<1>5. ASSUME NEW j \in 1..Len(ms[i].content) PROVE NormalPart(r[j], Media(ms), M)
  <2> DEFINE x == ms[i].content[j]
  <2>1. r[j] = CASE x.kind = "image" -> Part("image", <<ImagesBefore(ms, i, j)>>, NoBody)
                 [] x.kind = "file" -> Part("provider", NoId, x.body)
                 [] x.kind = "result" -> Part("result", x.id, NoBody)
                 [] OTHER -> x
    BY <1>1 DEF NormalContent
  <2>2. GoodPart(x, M) /\ NoBody \in Own(M)
    BY <1>2 DEF Own
  <2>3. x.kind = "image" => ImagesBefore(ms, i, j) + 1 \in 1..Len(Media(ms))
    <3>1. \A m \in 1..Len(ms) : IsSeq(ms[m].content)
      BY DEF GoodParts
    <3>2. QED BY <3>1, ImageNumbered
  <2> HIDE DEF x
  <2>4. CASE x.kind = "image"
    <3>1. r[j] = Part("image", <<ImagesBefore(ms, i, j)>>, NoBody)
      BY <2>1, <2>4
    <3>2. r[j].kind = "image" /\ r[j].body = NoBody /\ r[j].id[1] = ImagesBefore(ms, i, j)
      BY <3>1 DEF Part
    <3>3. QED BY <2>2, <2>3, <2>4, <3>2 DEF NormalPart
  <2>5. CASE x.kind = "file"
    <3>1. r[j] = Part("provider", NoId, x.body)
      BY <2>1, <2>5
    <3>2. QED BY <2>2, <2>5, <3>1 DEF NormalPart, Part, GoodPart
  <2>6. CASE x.kind = "result"
    <3>1. r[j] = Part("result", x.id, NoBody)
      BY <2>1, <2>6
    <3>2. QED BY <2>2, <3>1 DEF NormalPart, Part
  <2>7. CASE x.kind \in {"text", "call"}
    <3>1. r[j] = x
      BY <2>1, <2>7
    <3>2. QED BY <2>2, <2>7, <3>1 DEF NormalPart, GoodPart
  <2>8. QED BY <2>2, <2>4, <2>5, <2>6, <2>7 DEF GoodPart
<1>6. QED BY <1>1, <1>4, <1>5 DEF NormalParts

\* Parts of the normal form may be joined.
LEMMA NormalPartsJoined ==
    ASSUME NEW M, NEW media, NEW a, NEW b, NormalParts(a, media, M), NormalParts(b, media, M)
    PROVE  NormalParts(a \o b, media, M)
<1>1. IsSeq(a) /\ IsSeq(b)
  BY DEF NormalParts
<1>2. ASSUME NEW k \in 1..Len(a \o b) PROVE NormalPart((a \o b)[k], media, M)
  <2>1. CASE \E i \in 1..Len(a) : (a \o b)[k] = a[i]
    BY <2>1 DEF NormalParts
  <2>2. CASE \E i \in 1..Len(b) : (a \o b)[k] = b[i]
    BY <2>2 DEF NormalParts
  <2>3. QED BY <1>1, <2>1, <2>2, JoinedFrom
<1>3. QED BY <1>1, <1>2, JoinedFrom DEF NormalParts

\* The value of a tool message has been said there, or is nothing.
LEMMA ToolValueOwn ==
    ASSUME NEW M, NEW content, GoodParts(content, M)
    PROVE  ToolValue(content) \in Own(M)
<1>1. NoBody \in Own(M)
  BY DEF Own
<1>2. Len(content) = 1 => content[1].body \in Own(M)
  BY DEF GoodParts, GoodPart
<1>3. QED BY <1>1, <1>2 DEF ToolValue

\* The parts of NormalChat.
WithoutResults(ms) ==
    [i \in 1..Len(ms) |->
        IF ms[i].role \in Answering THEN [ms[i] EXCEPT !.content = <<>>] ELSE ms[i]]

ChatMessage(ms, i) ==
    IF ms[i].role \in Answering
    THEN [role |-> "tool", content |-> <<Part("result", AnswersOf(ms, i), NoBody)>>]
    ELSE [role |-> NormalRole(ms[i].role),
          content |-> NormalContent(WithoutResults(ms), i)
                      \o (IF ms[i].role = "assistant" THEN ms[i].calls ELSE <<>>)]

Answered(ms) == Chosen([i \in 1..Len(ms) |-> i], LAMBDA i : ms[i].role \in Answering)

ChatResult(ms, i) == Part("result", AnswersOf(ms, i), ToolValue(ms[i].content))

\* The normal form of chat messages, field by field.
LEMMA NormalChatParts ==
    ASSUME NEW ms
    PROVE  NormalChat(ms) = [messages |-> [i \in 1..Len(ms) |-> ChatMessage(ms, i)],
                             results |-> [k \in 1..Len(Answered(ms)) |-> ChatResult(ms, Answered(ms)[k])],
                             media |-> Media(WithoutResults(ms)), source |-> "chat"]
BY DEF NormalChat, Normal, Map, ChatMessage, WithoutResults, Answered, ChatResult

\* Messages whose results have been taken out.
LEMMA WithoutResultsGood ==
    ASSUME NEW M, NEW ms, GoodMessages(ms, M)
    PROVE  /\ IsSeq(WithoutResults(ms)) /\ Len(WithoutResults(ms)) = Len(ms)
           /\ \A i \in 1..Len(ms) : GoodParts(WithoutResults(ms)[i].content, M)
           /\ \A i \in 1..Len(ms) : ms[i].role \notin Answering => WithoutResults(ms)[i] = ms[i]
<1>1. PICK r : r = WithoutResults(ms)
  OBVIOUS
<1>2. IsSeq(ms) /\ \A i \in 1..Len(ms) : GoodMessage(ms[i], M)
  BY DEF GoodMessages
<1>3. r = [i \in 1..Len(ms) |-> r[i]]
  BY <1>1 DEF WithoutResults
<1>4. IsSeq(r) /\ Len(r) = Len(ms)
  BY ONLY <1>2, <1>3, MapSeq
<1>5. \A i \in 1..Len(ms) : r[i] = IF ms[i].role \in Answering THEN [ms[i] EXCEPT !.content = <<>>] ELSE ms[i]
  BY <1>1 DEF WithoutResults
<1>6. ASSUME NEW i \in 1..Len(ms) PROVE GoodParts(r[i].content, M)
  <2>1. CASE ms[i].role \in Answering
    <3>1. PICK m : m = ms[i]
      OBVIOUS
    <3>2. m = [role |-> m.role, content |-> m.content, calls |-> m.calls, answers |-> m.answers]
      BY <1>2, <3>1 DEF GoodMessage, Message
    <3>3. [m EXCEPT !.content = <<>>].content = <<>>
      BY ONLY <3>2
    <3>4. r[i].content = <<>>
      BY <1>5, <2>1, <3>1, <3>3
    <3>5. QED BY <3>4, NoGoodParts
  <2>2. CASE ms[i].role \notin Answering
    BY <1>2, <1>5, <2>2 DEF GoodMessage
  <2>3. QED BY <2>1, <2>2
<1>7. QED BY <1>1, <1>4, <1>5, <1>6

\* The messages that hold results are among the messages.
LEMMA AnsweredFrom ==
    ASSUME NEW ms, IsSeq(ms)
    PROVE  /\ IsSeq(Answered(ms))
           /\ \A k \in 1..Len(Answered(ms)) : Answered(ms)[k] \in 1..Len(ms)
<1>1. PICK s : s = [i \in 1..Len(ms) |-> i]
  OBVIOUS
<1>2. s = [i \in 1..Len(ms) |-> s[i]] /\ \A i \in 1..Len(ms) : s[i] = i
  BY <1>1
<1>3. IsSeq(s) /\ Len(s) = Len(ms)
  BY ONLY IsSeq(ms), <1>2, MapSeq
<1>4. PICK ss : ss = [i \in 1..Len(s) |-> IF ms[s[i]].role \in Answering THEN <<s[i]>> ELSE <<>>]
  OBVIOUS
<1>5. Answered(ms) = FlattenSeq(ss)
  BY <1>1, <1>4 DEF Answered, Chosen, Map
<1>6. /\ ss = [i \in 1..Len(s) |-> ss[i]]
      /\ \A i \in 1..Len(s) : ss[i] = <<s[i]>> \/ ss[i] = <<>>
  BY <1>4
<1>7. IsSeq(ss) /\ Len(ss) = Len(s)
  BY ONLY <1>3, <1>6, MapSeq
<1>8. Choice(s, ss)
  BY <1>6, <1>7 DEF Choice
<1>9. /\ IsSeq(FlattenSeq(ss))
      /\ \A k \in 1..Len(FlattenSeq(ss)) :
            \E i \in 1..Len(s) : IsChosen(s, ss, i) /\ FlattenSeq(ss)[k] = s[i]
  BY ONLY <1>3, <1>8, ChosenFrom
<1>10. \A k \in 1..Len(FlattenSeq(ss)) : FlattenSeq(ss)[k] \in 1..Len(ms)
  BY <1>2, <1>3, <1>9
<1>11. QED BY <1>5, <1>9, <1>10

\* The normal form of good chat messages is good (normalize_openai_chat_with_context).
LEMMA NormalChatGood ==
    ASSUME NEW M, NEW ms, GoodMessages(ms, M)
    PROVE  GoodNormal(NormalChat(ms), M)
<1> DEFINE spoken == WithoutResults(ms)
           media == Media(spoken)
<1>1. IsSeq(ms) /\ \A i \in 1..Len(ms) : GoodMessage(ms[i], M)
  BY DEF GoodMessages
<1>2. PICK normal : normal = NormalChat(ms)
  OBVIOUS
<1>3. /\ normal.messages = [i \in 1..Len(ms) |-> ChatMessage(ms, i)]
      /\ normal.results = [k \in 1..Len(Answered(ms)) |-> ChatResult(ms, Answered(ms)[k])]
      /\ normal.media = media
  BY <1>2, NormalChatParts
<1>4. /\ IsSeq(spoken) /\ Len(spoken) = Len(ms)
      /\ \A i \in 1..Len(spoken) : GoodParts(spoken[i].content, M)
  BY WithoutResultsGood
<1> HIDE DEF spoken
<1>5. GoodParts(media, M)
  BY <1>4, MediaGood
<1>6. PICK r : r = normal.messages
  OBVIOUS
<1>7. r = [i \in 1..Len(ms) |-> r[i]] /\ \A i \in 1..Len(ms) : r[i] = ChatMessage(ms, i)
  BY <1>3, <1>6
<1>8. IsSeq(r) /\ Len(r) = Len(ms)
  BY ONLY <1>1, <1>7, MapSeq
<1>9. ASSUME NEW i \in 1..Len(ms) PROVE NormalParts(r[i].content, media, M)
  <2>1. CASE ms[i].role \in Answering
    <3>1. r[i].content = <<Part("result", AnswersOf(ms, i), NoBody)>>
      BY <1>7, <2>1 DEF ChatMessage
    <3>2. NormalPart(Part("result", AnswersOf(ms, i), NoBody), media, M)
      BY DEF NormalPart, Part, Own
    <3>3. \A x : NormalPart(x, media, M) => NormalParts(<<x>>, media, M)
      BY OneSeq DEF NormalParts
    <3>4. QED BY <3>1, <3>2, <3>3
  <2>2. CASE ms[i].role \notin Answering
    <3> DEFINE calls == IF ms[i].role = "assistant" THEN ms[i].calls ELSE <<>>
               content == NormalContent(spoken, i)
    <3>1. r[i].content = content \o calls
      BY <1>7, <2>2 DEF ChatMessage, spoken
    <3>2. NormalParts(content, media, M)
      BY <1>4, NormalContentGood
    <3>3. GoodParts(ms[i].calls, M) /\ \A j \in 1..Len(ms[i].calls) : ms[i].calls[j].kind = "call"
      BY <1>1 DEF GoodMessage
    <3>4. NormalParts(ms[i].calls, media, M)
      BY <3>3 DEF NormalParts, NormalPart, GoodParts, GoodPart
    <3>5. NormalParts(<<>>, media, M)
      BY EmptyIsSeq DEF NormalParts
    <3>6. NormalParts(calls, media, M)
      BY <3>4, <3>5
    <3> HIDE DEF calls, content
    <3>7. QED BY <3>1, <3>2, <3>6, NormalPartsJoined
  <2>3. QED BY <2>1, <2>2
<1>10. PICK results : results = normal.results
  OBVIOUS
<1>11. /\ results = [k \in 1..Len(Answered(ms)) |-> results[k]]
       /\ \A k \in 1..Len(Answered(ms)) : results[k] = ChatResult(ms, Answered(ms)[k])
  BY <1>3, <1>10
<1>12. IsSeq(Answered(ms)) /\ \A k \in 1..Len(Answered(ms)) : Answered(ms)[k] \in 1..Len(ms)
  BY <1>1, AnsweredFrom
<1>13. IsSeq(results) /\ Len(results) = Len(Answered(ms))
  BY ONLY <1>11, <1>12, MapSeq
<1>14. ASSUME NEW k \in 1..Len(results) PROVE results[k].body \in Own(M)
  <2>1. PICK i \in 1..Len(ms) : i = Answered(ms)[k]
    BY <1>12, <1>13
  <2>2. results[k].body = ToolValue(ms[i].content)
    BY <1>11, <1>13, <2>1 DEF ChatResult, Part
  <2>3. GoodParts(ms[i].content, M)
    BY <1>1 DEF GoodMessage
  <2>4. QED BY <2>2, <2>3, ToolValueOwn
<1>15. GoodNormal(normal, M)
  <2>1. \A i \in 1..Len(normal.messages) : NormalParts(normal.messages[i].content, normal.media, M)
    BY <1>3, <1>6, <1>8, <1>9
  <2>2. IsSeq(normal.messages) /\ IsSeq(normal.results) /\ GoodParts(normal.media, M)
    BY <1>3, <1>5, <1>6, <1>8, <1>10, <1>13
  <2>3. QED BY <1>10, <1>14, <2>1, <2>2 DEF GoodNormal
<1>16. QED BY <1>2, <1>15

\* So is that of good messages of the Messages API (normalize_anthropic_messages_with_context).
LEMMA NormalMessagesGood ==
    ASSUME NEW M, NEW system, system # <<>>, NEW ms, IsSeq(ms),
           NEW all, all = <<Plain("system", system)>> \o ms, GoodMessages(all, M), GoodMessages(ms, M)
    PROVE  GoodNormal(NormalMessages(system, ms), M)
<1>1. IsSeq(all) /\ \A i \in 1..Len(all) : GoodParts(all[i].content, M)
  BY DEF GoodMessages, GoodMessage
<1>2. PICK normal : normal = NormalMessages(system, ms)
  OBVIOUS
<1>3. /\ normal.messages = [i \in 1..Len(all) |->
                              [role |-> NormalRole(all[i].role), content |-> NormalContent(all, i)]]
      /\ normal.results = FlattenSeq(Map(ms, LAMBDA m : Those(m.content, {"result"})))
      /\ normal.media = Media(all)
  BY <1>2 DEF NormalMessages, Normal
<1>4. GoodParts(Media(all), M)
  BY <1>1, MediaGood
<1>5. PICK r : r = normal.messages
  OBVIOUS
<1>6. r = [i \in 1..Len(all) |-> r[i]] /\ \A i \in 1..Len(all) : r[i].content = NormalContent(all, i)
  BY <1>3, <1>5
<1>7. IsSeq(r) /\ Len(r) = Len(all)
  BY ONLY <1>1, <1>6, MapSeq
<1>8. \A i \in 1..Len(all) : NormalParts(r[i].content, Media(all), M)
  BY <1>1, <1>6, NormalContentGood
<1>9. PICK ss : ss = [i \in 1..Len(ms) |-> Those(ms[i].content, {"result"})]
  OBVIOUS
<1>10. /\ ss = [i \in 1..Len(ms) |-> ss[i]]
       /\ \A i \in 1..Len(ms) : ss[i] = Those(ms[i].content, {"result"})
  BY <1>9
<1>11. IsSeq(ss) /\ Len(ss) = Len(ms)
  BY ONLY IsSeq(ms), <1>10, MapSeq
<1>12. \A i \in 1..Len(ss) : GoodParts(ss[i], M)
  BY <1>10, <1>11, GoodThose DEF GoodMessages, GoodMessage
<1>13. GoodParts(FlattenSeq(ss), M)
  BY ONLY <1>11, <1>12, FlatGoodParts
<1>14. normal.results = FlattenSeq(ss)
  BY <1>3, <1>9 DEF Map
<1>15. IsSeq(normal.results) /\ \A i \in 1..Len(normal.results) : normal.results[i].body \in Own(M)
  BY <1>13, <1>14 DEF GoodParts, GoodPart
<1>16. GoodNormal(normal, M)
  <2>1. \A i \in 1..Len(normal.messages) : NormalParts(normal.messages[i].content, normal.media, M)
    BY <1>3, <1>5, <1>7, <1>8
  <2>2. IsSeq(normal.messages) /\ GoodParts(normal.media, M)
    BY <1>3, <1>4, <1>5, <1>7
  <2>3. QED BY <1>15, <2>1, <2>2 DEF GoodNormal
<1>17. QED BY <1>2, <1>16

-----------------------------------------------------------------------------
(* What a provider is shown.                                                *)

\* What is said may be shown, and as the JSON of a file.
LEMMA OwnIsShown ==
    ASSUME NEW M
    PROVE  /\ Own(M) \subseteq OwnShown(M) /\ NoBody \in Own(M) /\ Attached \in Own(M)
           /\ \A u \in Uttered(M) : u \in Own(M) /\ Foreign(u) \in OwnShown(M)
BY DEF OwnShown, Own

ShownParts(s, M) == IsSeq(s) /\ \A j \in 1..Len(s) : s[j].body \in OwnShown(M)
ShownMessage(m, M) == ShownParts(m.content, M) /\ ShownParts(m.calls, M)

\* What may be sent, message by message.
LEMMA SentMessages ==
    ASSUME NEW M, NEW ms
    PROVE  GoodSent(ms, M) <=> IsSeq(ms) /\ \A i \in 1..Len(ms) : ShownMessage(ms[i], M)
BY DEF GoodSent, ShownMessage, ShownParts

\* What may be shown may be joined.
LEMMA ShownPartsJoined ==
    ASSUME NEW M, NEW a, NEW b, ShownParts(a, M), ShownParts(b, M)
    PROVE  ShownParts(a \o b, M)
<1>1. IsSeq(a) /\ IsSeq(b)
  BY DEF ShownParts
<1>2. ASSUME NEW k \in 1..Len(a \o b) PROVE (a \o b)[k].body \in OwnShown(M)
  <2>1. CASE \E i \in 1..Len(a) : (a \o b)[k] = a[i]
    BY <2>1 DEF ShownParts
  <2>2. CASE \E i \in 1..Len(b) : (a \o b)[k] = b[i]
    BY <2>2 DEF ShownParts
  <2>3. QED BY <1>1, <2>1, <2>2, JoinedFrom
<1>3. QED BY <1>1, <1>2, JoinedFrom DEF ShownParts

\* So may any number of such sequences.
LEMMA FlatShown ==
    ASSUME NEW M, NEW ss, IsSeq(ss), \A i \in 1..Len(ss) : ShownParts(ss[i], M)
    PROVE  ShownParts(FlattenSeq(ss), M)
<1>1. \A i \in 1..Len(ss) : IsSeq(ss[i]) /\ \A j \in 1..Len(ss[i]) : ss[i][j].body \in OwnShown(M)
  BY DEF ShownParts
<1>2. AreSeqs(ss)
  BY <1>1 DEF AreSeqs
<1>3. ASSUME NEW k \in 1..Len(FlattenSeq(ss)) PROVE FlattenSeq(ss)[k].body \in OwnShown(M)
  <2>1. PICK i \in 1..Len(ss) : \E j \in 1..Len(ss[i]) : FlattenSeq(ss)[k] = ss[i][j]
    BY <1>2, FlatFrom
  <2>2. QED BY <1>1, <2>1
<1>4. QED BY <1>2, <1>3, FlatFrom DEF ShownParts

\* One part that may be shown.
LEMMA OneShown ==
    ASSUME NEW M, NEW x, x.body \in OwnShown(M)
    PROVE  ShownParts(<<x>>, M)
BY OneSeq DEF ShownParts

\* No part at all.
LEMMA NoneShown ==
    ASSUME NEW M
    PROVE  ShownParts(<<>>, M)
BY EmptyIsSeq DEF ShownParts

\* Parts of the normal form may be shown.
LEMMA NormalIsShown ==
    ASSUME NEW M, NEW media, NEW s, NormalParts(s, media, M)
    PROVE  ShownParts(s, M)
BY OwnIsShown DEF NormalParts, NormalPart, ShownParts

\* Of what may be shown those of some kinds may.
LEMMA ThoseShown ==
    ASSUME NEW M, NEW s, ShownParts(s, M), NEW kinds
    PROVE  ShownParts(Those(s, kinds), M)
BY ThoseFrom DEF ShownParts

\* Good parts may be shown.
LEMMA GoodIsShown ==
    ASSUME NEW M, NEW s, GoodParts(s, M)
    PROVE  ShownParts(s, M)
BY OwnIsShown DEF GoodParts, GoodPart, ShownParts

\* A part as a user message shows it: an image is found in the list of media.
LEMMA ShownPartShown ==
    ASSUME NEW M, NEW normal, GoodNormal(normal, M), NEW x, NormalPart(x, normal.media, M), NEW home
    PROVE  ShownParts(Shown(normal, x, home), M)
<1>1. CASE x.kind = "image"
  <2>1. x.id[1] + 1 \in 1..Len(normal.media)
    BY <1>1 DEF NormalPart
  <2>2. normal.media[x.id[1] + 1].body \in OwnShown(M)
    BY <2>1, OwnIsShown DEF GoodNormal, GoodParts, GoodPart
  <2>3. Shown(normal, x, home) = <<normal.media[x.id[1] + 1]>>
    BY <1>1 DEF Shown
  <2>4. QED BY <2>2, <2>3, OneShown
<1>2. CASE x.kind = "provider"
  <2>1. PassedOn(normal, x, home).body \in OwnShown(M)
    BY <1>2, OwnIsShown DEF NormalPart, PassedOn, Part
  <2>2. Shown(normal, x, home) = <<PassedOn(normal, x, home)>>
    BY <1>2 DEF Shown
  <2>3. QED BY <2>1, <2>2, OneShown
<1>3. CASE x.kind = "text"
  <2>1. Shown(normal, x, home) = <<x>>
    BY <1>3 DEF Shown
  <2>2. x.body \in OwnShown(M)
    BY OwnIsShown DEF NormalPart
  <2>3. QED BY <2>1, <2>2, OneShown
<1>4. CASE x.kind \notin {"image", "provider", "text"}
  <2>1. Shown(normal, x, home) = <<>>
    BY <1>4 DEF Shown
  <2>2. QED BY <2>1, NoneShown
<1>5. QED BY <1>1, <1>2, <1>3, <1>4

\* A result is found in the list of results, or nothing is.
LEMMA ResultIsOwn ==
    ASSUME NEW M, NEW normal, GoodNormal(normal, M), NEW id
    PROVE  ResultOf(normal, id) \in Own(M)
<1> DEFINE at == {i \in 1..Len(normal.results) : normal.results[i].id = id}
<1>1. CASE at = {}
  BY <1>1, OwnIsShown DEF ResultOf
<1>2. CASE at # {}
  <2>1. PICK first : first = CHOOSE i \in at : \A k \in at : i <= k
    OBVIOUS
  <2>2. at \in SUBSET Nat
    OBVIOUS
  <2>3. HasLeast(at)
    BY <1>2, <2>2, LeastExists
  <2>4. first \in at
    <3> HIDE DEF at
    <3>1. QED BY <2>1, <2>3 DEF HasLeast
  <2>5. ResultOf(normal, id) = normal.results[first].body
    BY <1>2, <2>1 DEF ResultOf
  <2>6. first \in 1..Len(normal.results)
    BY <2>4
  <2>7. QED BY <2>5, <2>6 DEF GoodNormal
<1>3. QED BY <1>1, <1>2

\* All parts of all messages.
AllParts(normal) == FlattenSeq(Map(normal.messages, LAMBDA m : m.content))

\* All parts of the normal form together.
LEMMA AllPartsNormal ==
    ASSUME NEW M, NEW normal, GoodNormal(normal, M)
    PROVE  NormalParts(AllParts(normal), normal.media, M)
<1>1. PICK ms : ms = normal.messages
  OBVIOUS
<1>2. PICK ss : ss = [i \in 1..Len(ms) |-> ms[i].content]
  OBVIOUS
<1>3. ss = [i \in 1..Len(ms) |-> ss[i]] /\ \A i \in 1..Len(ms) : ss[i] = ms[i].content
  BY <1>2
<1>4. IsSeq(ms)
  BY <1>1 DEF GoodNormal
<1>5. IsSeq(ss) /\ Len(ss) = Len(ms)
  BY ONLY <1>3, <1>4, MapSeq
<1>6. \A i \in 1..Len(ss) : NormalParts(ss[i], normal.media, M)
  BY <1>1, <1>3, <1>5 DEF GoodNormal
<1>7. \A i \in 1..Len(ss) : IsSeq(ss[i]) /\ \A j \in 1..Len(ss[i]) : NormalPart(ss[i][j], normal.media, M)
  BY <1>6 DEF NormalParts
<1>8. AreSeqs(ss)
  BY <1>5, <1>7 DEF AreSeqs
<1>9. ASSUME NEW k \in 1..Len(FlattenSeq(ss)) PROVE NormalPart(FlattenSeq(ss)[k], normal.media, M)
  <2>1. PICK i \in 1..Len(ss) : \E j \in 1..Len(ss[i]) : FlattenSeq(ss)[k] = ss[i][j]
    BY <1>8, FlatFrom
  <2>2. QED BY <1>7, <2>1
<1>10. NormalParts(FlattenSeq(ss), normal.media, M)
  BY <1>8, <1>9, FlatFrom DEF NormalParts
<1>11. AllParts(normal) = FlattenSeq(ss)
  BY <1>1, <1>2 DEF AllParts, Map
<1>12. QED BY <1>10, <1>11

\* The texts of everything, and the calls, may be shown.
LEMMA FlatTextShown ==
    ASSUME NEW M, NEW normal, GoodNormal(normal, M)
    PROVE  ShownParts(FlatText(normal), M) /\ ShownParts(Calls(normal), M)
<1>1. ShownParts(AllParts(normal), M)
  BY AllPartsNormal, NormalIsShown
<1>2. PICK s : s = Those(AllParts(normal), {"text", "provider"})
  OBVIOUS
<1>3. ShownParts(s, M)
  BY <1>1, <1>2, ThoseShown
<1>4. PICK r : r = [i \in 1..Len(s) |-> IF s[i].kind = "text" THEN s[i] ELSE Part("text", NoId, Attached)]
  OBVIOUS
<1>5. FlatText(normal) = r
  BY <1>2, <1>4 DEF FlatText, AllParts, Map
<1>6. /\ r = [i \in 1..Len(s) |-> r[i]]
      /\ \A i \in 1..Len(s) : r[i] = IF s[i].kind = "text" THEN s[i] ELSE Part("text", NoId, Attached)
  BY <1>4
<1>7. IsSeq(s)
  BY <1>3 DEF ShownParts
<1>8. IsSeq(r) /\ Len(r) = Len(s)
  BY ONLY <1>6, <1>7, MapSeq
<1>9. Attached \in OwnShown(M)
  BY OwnIsShown
<1>10. \A i \in 1..Len(r) : r[i].body \in OwnShown(M)
  BY <1>3, <1>6, <1>8, <1>9 DEF ShownParts, Part
<1>11. ShownParts(r, M)
  BY <1>8, <1>10 DEF ShownParts
<1>12. ShownParts(Calls(normal), M)
  BY <1>1, ThoseShown DEF Calls, AllParts
<1>13. QED BY <1>5, <1>11, <1>12

\* One message that may be sent.
LEMMA OneSent ==
    ASSUME NEW M, NEW m, ShownMessage(m, M)
    PROVE  GoodSent(<<m>>, M)
<1>1. IsSeq(<<m>>) /\ \A i \in 1..Len(<<m>>) : <<m>>[i] = m
  BY OneSeq
<1>2. QED BY <1>1, SentMessages

\* The one message that tells everything as text may be sent
\* (openai_fallback_user_message).
LEMMA FallbackSent ==
    ASSUME NEW M, NEW normal, GoodNormal(normal, M)
    PROVE  /\ GoodSent(<<FallbackMessage(normal, WithToolContext(normal))>>, M)
           /\ GoodSent(<<FallbackMessage(normal, WithResults(normal))>>, M)
<1>1. ShownParts(FlatText(normal), M) /\ ShownParts(Calls(normal), M)
  BY FlatTextShown
<1>2. ShownParts(normal.results, M) /\ ShownParts(normal.media, M)
  BY GoodIsShown, OwnIsShown DEF GoodNormal, ShownParts
<1>3. ShownParts(WithToolContext(normal), M) /\ ShownParts(WithResults(normal), M)
  BY <1>1, <1>2, ShownPartsJoined DEF WithToolContext, WithResults
<1>4. ASSUME NEW text, ShownParts(text, M) PROVE GoodSent(<<FallbackMessage(normal, text)>>, M)
  <2>1. ShownParts(text \o normal.media, M) /\ ShownParts(<<>>, M)
    BY <1>2, <1>4, ShownPartsJoined, NoneShown
  <2>2. ShownMessage(FallbackMessage(normal, text), M)
    BY <2>1 DEF ShownMessage, FallbackMessage, Plain, Message
  <2>3. QED BY <2>2, OneSent
<1>5. QED BY <1>3, <1>4

\* What a part of a normal message becomes, one after another.
ShownOf(normal, s, home) == FlattenSeq(Map(s, LAMBDA x : Shown(normal, x, home)))

\* The parts of a message as it shows them.
LEMMA PartsShown ==
    ASSUME NEW M, NEW normal, GoodNormal(normal, M), NEW s, NormalParts(s, normal.media, M), NEW home
    PROVE  ShownParts(ShownOf(normal, s, home), M)
<1>1. PICK ss : ss = [i \in 1..Len(s) |-> Shown(normal, s[i], home)]
  OBVIOUS
<1>2. ss = [i \in 1..Len(s) |-> ss[i]] /\ \A i \in 1..Len(s) : ss[i] = Shown(normal, s[i], home)
  BY <1>1
<1>3. IsSeq(s)
  BY DEF NormalParts
<1>4. IsSeq(ss) /\ Len(ss) = Len(s)
  BY ONLY <1>2, <1>3, MapSeq
<1>5. \A i \in 1..Len(ss) : ShownParts(ss[i], M)
  BY <1>2, <1>4, ShownPartShown DEF NormalParts
<1>6. ShownParts(FlattenSeq(ss), M)
  BY ONLY <1>4, <1>5, FlatShown
<1>7. QED BY <1>1, <1>6 DEF ShownOf, Map

\* Of parts of the normal form those of some kinds.
LEMMA ThoseNormal ==
    ASSUME NEW M, NEW media, NEW s, NormalParts(s, media, M), NEW kinds
    PROVE  NormalParts(Those(s, kinds), media, M)
BY ThoseFrom DEF NormalParts

\* A tool message for the OpenAI format.
LEMMA ToolMessageShown ==
    ASSUME NEW M, NEW normal, GoodNormal(normal, M), NEW id
    PROVE  ShownMessage(ToolMessage(normal, id), M)
<1>1. ResultOf(normal, id) \in OwnShown(M)
  BY ResultIsOwn, OwnIsShown
<1>2. ShownParts(<<Part("text", NoId, ResultOf(normal, id))>>, M)
  BY <1>1, OneShown DEF Part
<1>3. ShownParts(<<>>, M)
  BY NoneShown
<1>4. QED BY <1>2, <1>3 DEF ShownMessage, ToolMessage, Message

\* An assistant message for the OpenAI format.
LEMMA AssistantShown ==
    ASSUME NEW M, NEW normal, GoodNormal(normal, M),
           NEW m, NormalParts(m.content, normal.media, M)
    PROVE  ShownMessage(AssistantMessage(normal, m), M)
<1> DEFINE texts == Those(m.content, {"text"})
           calls == Those(m.content, {"call"})
           files == Those(m.content, {"provider"})
           passed == ShownOf(normal, files, "chat")
           more == IF normal.source = "chat" THEN passed ELSE <<>>
<1>1. ShownParts(texts, M) /\ ShownParts(calls, M)
  BY ThoseNormal, NormalIsShown
<1>2. NormalParts(files, normal.media, M)
  BY ThoseNormal
<1> HIDE DEF texts, calls, files
<1>3. ShownParts(passed, M)
  BY <1>2, PartsShown
<1>4. ShownParts(<<>>, M)
  BY NoneShown
<1>5. AssistantMessage(normal, m) = Message("assistant", texts \o more, calls, NoId)
  BY DEF AssistantMessage, ShownOf, texts, calls, files
<1> HIDE DEF passed
<1>6. ShownParts(more, M)
  BY <1>3, <1>4
<1> HIDE DEF more
<1>7. ShownParts(texts \o more, M)
  BY <1>1, <1>6, ShownPartsJoined
<1>8. QED BY <1>1, <1>5, <1>7 DEF ShownMessage, Message

\* A message of the normal form becomes messages of the OpenAI format that may
\* be sent.
LEMMA OpenAiMessageSent ==
    ASSUME NEW M, NEW normal, GoodNormal(normal, M),
           NEW m, NormalParts(m.content, normal.media, M)
    PROVE  GoodSent(OpenAiMessage(normal, m), M)
<1>1. PICK answered : answered = Those(m.content, {"result"})
  OBVIOUS
<1>2. IsSeq(answered)
  BY <1>1, ThoseNormal DEF NormalParts
<1>3. CASE answered # <<>>
  <2>1. PICK r : r = [i \in 1..Len(answered) |-> ToolMessage(normal, answered[i].id)]
    OBVIOUS
  <2>2. OpenAiMessage(normal, m) = r
    BY <1>1, <1>3, <2>1 DEF OpenAiMessage, Map
  <2>3. /\ r = [i \in 1..Len(answered) |-> r[i]]
        /\ \A i \in 1..Len(answered) : r[i] = ToolMessage(normal, answered[i].id)
    BY <2>1
  <2>4. IsSeq(r) /\ Len(r) = Len(answered)
    BY ONLY <1>2, <2>3, MapSeq
  <2>5. \A i \in 1..Len(r) : ShownMessage(r[i], M)
    BY <2>3, <2>4, ToolMessageShown
  <2>6. QED BY ONLY <2>2, <2>4, <2>5, SentMessages
<1>4. CASE answered = <<>> /\ m.role = "assistant"
  <2>1. OpenAiMessage(normal, m) = <<AssistantMessage(normal, m)>>
    BY <1>1, <1>4 DEF OpenAiMessage
  <2>2. QED BY <2>1, AssistantShown, OneSent
<1>5. CASE answered = <<>> /\ m.role = "tool"
  <2>1. OpenAiMessage(normal, m) = <<>>
    BY <1>1, <1>5 DEF OpenAiMessage
  <2>2. QED BY <2>1, EmptyIsSeq, SentMessages
<1>6. CASE answered = <<>> /\ m.role \notin {"assistant", "tool"}
  <2> DEFINE content == ShownOf(normal, m.content, "chat")
  <2>1. OpenAiMessage(normal, m) = <<Plain(m.role, content)>>
    BY <1>1, <1>6 DEF OpenAiMessage, ShownOf
  <2>2. ShownParts(content, M) /\ ShownParts(<<>>, M)
    BY PartsShown, NoneShown
  <2> HIDE DEF content
  <2>3. ShownMessage(Plain(m.role, content), M)
    BY <2>2 DEF ShownMessage, Plain, Message
  <2>4. QED BY <2>1, <2>3, OneSent
<1>7. QED BY <1>3, <1>4, <1>5, <1>6

\* What may be sent may be joined, whatever the number.
LEMMA FlatSent ==
    ASSUME NEW M, NEW ss, IsSeq(ss), \A i \in 1..Len(ss) : GoodSent(ss[i], M)
    PROVE  GoodSent(FlattenSeq(ss), M)
<1>1. \A i \in 1..Len(ss) : IsSeq(ss[i]) /\ \A j \in 1..Len(ss[i]) : ShownMessage(ss[i][j], M)
  BY SentMessages
<1>2. AreSeqs(ss)
  BY <1>1 DEF AreSeqs
<1>3. ASSUME NEW k \in 1..Len(FlattenSeq(ss)) PROVE ShownMessage(FlattenSeq(ss)[k], M)
  <2>1. PICK i \in 1..Len(ss) : \E j \in 1..Len(ss[i]) : FlattenSeq(ss)[k] = ss[i][j]
    BY <1>2, FlatFrom
  <2>2. QED BY <1>1, <2>1
<1>4. IsSeq(FlattenSeq(ss))
  BY <1>2, FlatFrom
<1>5. QED BY <1>3, <1>4, SentMessages

\* The messages of the others are in the normal form.
LEMMA SpokenNormal ==
    ASSUME NEW M, NEW normal, GoodNormal(normal, M)
    PROVE  /\ IsSeq(Spoken(normal))
           /\ \A i \in 1..Len(Spoken(normal)) : NormalParts(Spoken(normal)[i].content, normal.media, M)
<1>1. IsSeq(normal.messages)
  BY DEF GoodNormal
<1>2. PICK s : s = Spoken(normal)
  OBVIOUS
<1>3. /\ IsSeq(s)
      /\ \A k \in 1..Len(s) : \E i \in 1..Len(normal.messages) : s[k] = normal.messages[i]
  BY <1>1, <1>2, OfOthersFrom DEF Spoken
<1>4. \A k \in 1..Len(s) : NormalParts(s[k].content, normal.media, M)
  BY <1>3 DEF GoodNormal
<1>5. QED BY <1>2, <1>3, <1>4

\* The body for a server of the OpenAI format may be sent.
LEMMA OpenAiSent ==
    ASSUME NEW M, NEW normal, GoodNormal(normal, M), NEW gemma
    PROVE  GoodSent(OpenAiMessages(normal, gemma), M)
<1>1. PICK s : s = Spoken(normal)
  OBVIOUS
<1>2. PICK ss : ss = [i \in 1..Len(s) |-> OpenAiMessage(normal, s[i])]
  OBVIOUS
<1>3. ss = [i \in 1..Len(s) |-> ss[i]] /\ \A i \in 1..Len(s) : ss[i] = OpenAiMessage(normal, s[i])
  BY <1>2
<1>4. IsSeq(s) /\ \A i \in 1..Len(s) : NormalParts(s[i].content, normal.media, M)
  BY <1>1, SpokenNormal
<1>5. IsSeq(ss) /\ Len(ss) = Len(s)
  BY ONLY <1>3, <1>4, MapSeq
<1>6. \A i \in 1..Len(ss) : GoodSent(ss[i], M)
  BY <1>3, <1>4, <1>5, OpenAiMessageSent
<1>7. GoodSent(FlattenSeq(ss), M)
  BY ONLY <1>5, <1>6, FlatSent
<1>8. FlattenSeq(Map(Spoken(normal), LAMBDA m : OpenAiMessage(normal, m))) = FlattenSeq(ss)
  BY <1>1, <1>2 DEF Map
<1>9. \/ OpenAiMessages(normal, gemma) = FlattenSeq(ss)
      \/ OpenAiMessages(normal, gemma) = <<FallbackMessage(normal, WithToolContext(normal))>>
  BY <1>8 DEF OpenAiMessages
<1>10. GoodSent(<<FallbackMessage(normal, WithToolContext(normal))>>, M)
  BY FallbackSent
<1>11. QED BY ONLY <1>7, <1>9, <1>10

\* The blocks of a message of the Anthropic format.
LEMMA AnthropicBlocksShown ==
    ASSUME NEW M, NEW normal, GoodNormal(normal, M),
           NEW m, NormalParts(m.content, normal.media, M)
    PROVE  ShownParts(AnthropicBlocks(normal, m), M)
<1>1. PICK s : s = m.content
  OBVIOUS
<1>2. PICK ss : ss = [i \in 1..Len(s) |-> AnthropicBlock(normal, s[i])]
  OBVIOUS
<1>3. ss = [i \in 1..Len(s) |-> ss[i]] /\ \A i \in 1..Len(s) : ss[i] = AnthropicBlock(normal, s[i])
  BY <1>2
<1>4. IsSeq(s) /\ \A i \in 1..Len(s) : NormalPart(s[i], normal.media, M)
  BY <1>1 DEF NormalParts
<1>5. IsSeq(ss) /\ Len(ss) = Len(s)
  BY ONLY <1>3, <1>4, MapSeq
<1>6. ASSUME NEW x, NormalPart(x, normal.media, M)
      PROVE  ShownParts(AnthropicBlock(normal, x), M)
  <2>1. CASE x.kind = "call"
    <3>1. AnthropicBlock(normal, x) = <<x>>
      BY <2>1 DEF AnthropicBlock
    <3>2. x.body \in OwnShown(M)
      BY <1>6, OwnIsShown DEF NormalPart
    <3>3. QED BY <3>1, <3>2, OneShown
  <2>2. CASE x.kind = "result"
    <3>1. AnthropicBlock(normal, x) = <<Part("result", x.id, ResultOf(normal, x.id))>>
      BY <2>2 DEF AnthropicBlock
    <3>2. ResultOf(normal, x.id) \in OwnShown(M)
      BY ResultIsOwn, OwnIsShown
    <3>3. QED BY <3>1, <3>2, OneShown DEF Part
  <2>3. CASE x.kind \notin {"call", "result"}
    <3>1. AnthropicBlock(normal, x) = Shown(normal, x, "messages")
      BY <2>3 DEF AnthropicBlock
    <3>2. QED BY <1>6, <3>1, ShownPartShown
  <2>4. QED BY <2>1, <2>2, <2>3
<1>7. \A i \in 1..Len(ss) : ShownParts(ss[i], M)
  BY <1>3, <1>4, <1>5, <1>6
<1>8. ShownParts(FlattenSeq(ss), M)
  BY ONLY <1>5, <1>7, FlatShown
<1>9. QED BY <1>1, <1>2, <1>8 DEF AnthropicBlocks, Map

\* The messages that have something to tell.
Telling(normal) == Chosen(Spoken(normal), LAMBDA m : AnthropicBlocks(normal, m) # <<>>)

\* The messages with blocks come from all messages.
LEMMA TellingFrom ==
    ASSUME NEW M, NEW normal, GoodNormal(normal, M)
    PROVE  /\ IsSeq(Telling(normal))
           /\ \A i \in 1..Len(Telling(normal)) :
                 NormalParts(Telling(normal)[i].content, normal.media, M)
<1>1. PICK s : s = Spoken(normal)
  OBVIOUS
<1>2. IsSeq(s) /\ \A i \in 1..Len(s) : NormalParts(s[i].content, normal.media, M)
  BY <1>1, SpokenNormal
<1>3. PICK ss : ss = [i \in 1..Len(s) |-> IF AnthropicBlocks(normal, s[i]) # <<>> THEN <<s[i]>> ELSE <<>>]
  OBVIOUS
<1>4. Telling(normal) = FlattenSeq(ss)
  BY <1>1, <1>3 DEF Telling, Chosen, Map
<1>5. /\ ss = [i \in 1..Len(s) |-> ss[i]]
      /\ \A i \in 1..Len(s) : ss[i] = <<s[i]>> \/ ss[i] = <<>>
  BY <1>3
<1>6. IsSeq(ss) /\ Len(ss) = Len(s)
  BY ONLY <1>2, <1>5, MapSeq
<1>7. Choice(s, ss)
  BY <1>5, <1>6 DEF Choice
<1>8. /\ IsSeq(FlattenSeq(ss))
      /\ \A k \in 1..Len(FlattenSeq(ss)) :
            \E i \in 1..Len(s) : IsChosen(s, ss, i) /\ FlattenSeq(ss)[k] = s[i]
  BY ONLY <1>2, <1>7, ChosenFrom
<1>9. \A k \in 1..Len(FlattenSeq(ss)) : NormalParts(FlattenSeq(ss)[k].content, normal.media, M)
  BY <1>2, <1>8
<1>10. QED BY <1>4, <1>8, <1>9

\* The body for Anthropic may be sent.
LEMMA AnthropicSent ==
    ASSUME NEW M, NEW normal, GoodNormal(normal, M)
    PROVE  GoodSent(AnthropicMessages(normal), M)
<1>1. PICK s : s = Telling(normal)
  OBVIOUS
<1>2. PICK r : r = [i \in 1..Len(s) |-> Plain(AnthropicRole(s[i].role), AnthropicBlocks(normal, s[i]))]
  OBVIOUS
<1>3. /\ r = [i \in 1..Len(s) |-> r[i]]
      /\ \A i \in 1..Len(s) : r[i] = Plain(AnthropicRole(s[i].role), AnthropicBlocks(normal, s[i]))
  BY <1>2
<1>4. IsSeq(s) /\ \A i \in 1..Len(s) : NormalParts(s[i].content, normal.media, M)
  BY <1>1, TellingFrom
<1>5. IsSeq(r) /\ Len(r) = Len(s)
  BY ONLY <1>3, <1>4, MapSeq
<1>6. ASSUME NEW i \in 1..Len(r) PROVE ShownMessage(r[i], M)
  <2>1. ShownParts(AnthropicBlocks(normal, s[i]), M) /\ ShownParts(<<>>, M)
    BY <1>4, <1>5, AnthropicBlocksShown, NoneShown
  <2>2. r[i] = Plain(AnthropicRole(s[i].role), AnthropicBlocks(normal, s[i]))
    BY <1>3, <1>5
  <2>3. QED BY <2>1, <2>2 DEF ShownMessage, Plain, Message
<1>7. GoodSent(r, M)
  BY ONLY <1>5, <1>6, SentMessages
<1>8. \/ AnthropicMessages(normal) = r
      \/ AnthropicMessages(normal) = <<FallbackMessage(normal, WithResults(normal))>>
  BY <1>1, <1>2 DEF AnthropicMessages, Telling, Map
<1>9. GoodSent(<<FallbackMessage(normal, WithResults(normal))>>, M)
  BY FallbackSent
<1>10. QED BY ONLY <1>7, <1>8, <1>9

\* So may the body for any backend.
LEMMA RenderedSent ==
    ASSUME NEW M, NEW normal, GoodNormal(normal, M), NEW to
    PROVE  GoodSent(Rendered(normal, to), M)
BY OpenAiSent, AnthropicSent DEF Rendered

\* And so may the messages of the client themselves, on the direct path.
LEMMA DirectSent ==
    ASSUME NEW M, NEW ms, GoodMessages(ms, M)
    PROVE  GoodSent(OfOthers(ms), M)
<1>1. IsSeq(ms) /\ \A i \in 1..Len(ms) : GoodMessage(ms[i], M)
  BY DEF GoodMessages
<1>2. \A i \in 1..Len(ms) : ShownMessage(ms[i], M)
  BY <1>1, GoodIsShown DEF GoodMessage, ShownMessage
<1>3. PICK s : s = OfOthers(ms)
  OBVIOUS
<1>4. IsSeq(s) /\ \A k \in 1..Len(s) : \E i \in 1..Len(ms) : s[k] = ms[i]
  BY <1>1, <1>3, OfOthersFrom
<1>5. \A k \in 1..Len(s) : ShownMessage(s[k], M)
  BY <1>2, <1>4
<1>6. QED BY <1>3, <1>4, <1>5, SentMessages

\* Who reads what the provider is shown reads nothing else.
LEMMA ReadMessageShown ==
    ASSUME NEW M, NEW m, ShownMessage(m, M)
    PROVE  ShownParts(ReadMessage(m), M)
<1>1. ToolValue(m.content) \in OwnShown(M)
  <2>1. NoBody \in OwnShown(M)
    BY OwnIsShown
  <2>2. Len(m.content) = 1 => m.content[1].body \in OwnShown(M)
    BY DEF ShownMessage, ShownParts
  <2>3. QED BY <2>1, <2>2 DEF ToolValue
<1>2. CASE m.role \in {"tool", "function"}
  <2>1. \A id : ShownParts(<<Entry("user", Part("result", id, ToolValue(m.content)))>>, M)
    BY <1>1, OneShown DEF Entry, Part
  <2>2. \E id : ReadMessage(m) = <<Entry("user", Part("result", id, ToolValue(m.content)))>>
    BY <1>2 DEF ReadMessage
  <2>3. QED BY <2>1, <2>2
<1>3. CASE m.role = "system"
  <2>1. ReadMessage(m) = <<>>
    BY <1>3 DEF ReadMessage
  <2>2. QED BY <2>1, NoneShown
<1>4. CASE m.role \notin {"tool", "function", "system"}
  <2>1. PICK s : s = m.content \o m.calls
    OBVIOUS
  <2>2. ShownParts(s, M)
    BY <2>1, ShownPartsJoined DEF ShownMessage
  <2>3. PICK r : r = [i \in 1..Len(s) |-> Entry(m.role, s[i])]
    OBVIOUS
  <2>4. ReadMessage(m) = r
    BY <1>4, <2>1, <2>3 DEF ReadMessage, Map
  <2>5. r = [i \in 1..Len(s) |-> r[i]] /\ \A i \in 1..Len(s) : r[i].body = s[i].body
    BY <2>3 DEF Entry
  <2>6. IsSeq(s) /\ \A i \in 1..Len(s) : s[i].body \in OwnShown(M)
    BY <2>2 DEF ShownParts
  <2>7. IsSeq(r) /\ Len(r) = Len(s)
    BY ONLY <2>5, <2>6, MapSeq
  <2>8. QED BY <2>4, <2>5, <2>6, <2>7 DEF ShownParts
<1>5. QED BY <1>2, <1>3, <1>4

\* Who reads what may be sent reads nothing else.
LEMMA ReadShown ==
    ASSUME NEW M, NEW ms, GoodSent(ms, M)
    PROVE  \A i \in DOMAIN Read(ms) : Read(ms)[i].body \in OwnShown(M)
<1>1. IsSeq(ms) /\ \A i \in 1..Len(ms) : ShownMessage(ms[i], M)
  BY SentMessages
<1>2. PICK ss : ss = [i \in 1..Len(ms) |-> ReadMessage(ms[i])]
  OBVIOUS
<1>3. ss = [i \in 1..Len(ms) |-> ss[i]] /\ \A i \in 1..Len(ms) : ss[i] = ReadMessage(ms[i])
  BY <1>2
<1>4. IsSeq(ss) /\ Len(ss) = Len(ms)
  BY ONLY <1>1, <1>3, MapSeq
<1>5. \A i \in 1..Len(ss) : ShownParts(ss[i], M)
  BY <1>1, <1>3, <1>4, ReadMessageShown
<1>6. ShownParts(FlattenSeq(ss), M)
  BY ONLY <1>4, <1>5, FlatShown
<1>7. Read(ms) = FlattenSeq(ss)
  BY <1>2 DEF Read, Map
<1>8. ShownParts(Read(ms), M)
  BY <1>6, <1>7
<1>9. DOMAIN Read(ms) = 1..Len(Read(ms))
  BY <1>8, SeqParts DEF ShownParts
<1>10. QED BY <1>8, <1>9 DEF ShownParts

-----------------------------------------------------------------------------
(* The instructions.                                                        *)

RulesMessage(c) == Plain("system", <<Text(Rules(c))>>)

\* The instructions come first, and nobody else speaks as the system.
Ruled(ms, c) ==
    /\ IsSeq(ms) /\ Len(ms) # 0 /\ ms[1] = RulesMessage(c)
    /\ \A i \in 2..Len(ms) : ms[i].role \notin {"system", "developer"}

\* The message of the rules is good and comes first.
LEMMA RulesAlone ==
    ASSUME NEW M, NEW c \in M
    PROVE  GoodMessages(<<RulesMessage(c)>>, M) /\ Ruled(<<RulesMessage(c)>>, c)
<1>1. GoodMessage(RulesMessage(c), M)
  <2>1. Rules(c) \in Own(M)
    BY DEF Rules, Own
  <2>2. GoodParts(<<Text(Rules(c))>>, M)
    BY <2>1, TextIsGood, OneGoodPart
  <2>3. GoodParts(<<>>, M) /\ Len(<<>>) = 0
    BY NoGoodParts, EmptyIsSeq
  <2>4. QED BY <2>2, <2>3 DEF GoodMessage, RulesMessage, Plain, Message
<1>2. PICK ms : ms = <<RulesMessage(c)>>
  OBVIOUS
<1>3. IsSeq(ms) /\ Len(ms) = 1 /\ ms[1] = RulesMessage(c)
  BY <1>2, OneSeq
<1>4. \A i \in 1..Len(ms) : i = 1
  BY <1>3
<1>5. GoodMessages(ms, M)
  BY <1>1, <1>3, <1>4 DEF GoodMessages
<1>6. Ruled(ms, c)
  BY <1>3 DEF Ruled
<1>7. QED BY <1>2, <1>5, <1>6

\* Messages that may be stored come after the rules and change nothing about
\* them.
LEMMA RuledJoined ==
    ASSUME NEW M, NEW c, NEW a, GoodMessages(a, M), Ruled(a, c), NEW b, Storable(b, M)
    PROVE  GoodMessages(a \o b, M) /\ Ruled(a \o b, c)
<1>1. PICK ms : ms = a \o b
  OBVIOUS
<1>2. IsSeq(a) /\ \A i \in 1..Len(a) : GoodMessage(a[i], M)
  BY DEF GoodMessages
<1>3. IsSeq(b) /\ \A i \in 1..Len(b) : KeptMessage(b[i], M)
  BY StorableMessages
<1>4. /\ IsSeq(ms)
      /\ Len(ms) = Len(a) + Len(b)
      /\ \A i \in 1..Len(a) : ms[i] = a[i]
      /\ \A i \in 1..Len(b) : ms[Len(a) + i] = b[i]
      /\ \A k \in 1..(Len(a) + Len(b)) : k \in 1..Len(a) \/ \E i \in 1..Len(b) : k = Len(a) + i
  BY ONLY <1>1, <1>2, <1>3, Joined
<1>5. Len(a) \in Nat /\ Len(b) \in Nat /\ Len(a) # 0
  BY <1>2, <1>3, SeqParts DEF Ruled
<1>6. ASSUME NEW k \in 1..Len(ms)
      PROVE  GoodMessage(ms[k], M) /\ (k # 1 => ms[k].role \notin {"system", "developer"})
  <2>1. CASE k \in 1..Len(a)
    <3>1. k # 1 => k \in 2..Len(a)
      BY <1>5, <2>1
    <3>2. QED BY <1>2, <1>4, <2>1, <3>1 DEF Ruled
  <2>2. CASE \E i \in 1..Len(b) : k = Len(a) + i
    BY <1>3, <1>4, <2>2 DEF KeptMessage
  <2>3. QED BY <1>4, <2>1, <2>2
<1>7. ms[1] = RulesMessage(c) /\ Len(ms) # 0
  <2>1. 1 \in 1..Len(a)
    BY <1>5
  <2>2. QED BY <1>4, <1>5, <2>1 DEF Ruled
<1>8. \A i \in 2..Len(ms) : i \in 1..Len(ms) /\ i # 1
  BY <1>4, <1>5
<1>9. QED BY <1>1, <1>4, <1>6, <1>7, <1>8 DEF GoodMessages, Ruled

\* One sequence, flattened, is itself.
LEMMA FlatOne ==
    ASSUME NEW x, IsSeq(x)
    PROVE  FlattenSeq(<<x>>) = x
<1>1. PICK ss : ss = <<x>>
  OBVIOUS
<1>2. IsSeq(ss) /\ Len(ss) = 1 /\ ss[1] = x
  BY <1>1, OneSeq
<1>3. \A i \in 1..Len(ss) : i = 1
  BY <1>2
<1>4. \A i \in 2..Len(ss) : ss[i] = <<>>
  BY <1>2
<1>5. AreSeqs(ss)
  BY <1>2, <1>3 DEF AreSeqs
<1>6. FlattenSeq(ss) = ss[1]
  BY <1>2, <1>4, <1>5, FlatHead
<1>7. QED BY <1>1, <1>2, <1>6

\* If only the first one speaks as the system, its content is all of the prompt.
LEMMA OnlyTheFirst ==
    ASSUME NEW ms, IsSeq(ms), Len(ms) # 0, ms[1].role = "system",
           \A i \in 2..Len(ms) : ms[i].role # "system"
    PROVE  OfSystem(ms) = <<ms[1]>>
<1>1. PICK ss : ss = [i \in 1..Len(ms) |-> IF ms[i].role = "system" THEN <<ms[i]>> ELSE <<>>]
  OBVIOUS
<1>2. OfSystem(ms) = FlattenSeq(ss)
  BY <1>1 DEF OfSystem, Chosen, Map
<1>3. /\ ss = [i \in 1..Len(ms) |-> ss[i]]
      /\ \A i \in 1..Len(ms) : ss[i] = IF ms[i].role = "system" THEN <<ms[i]>> ELSE <<>>
  BY <1>1
<1>4. IsSeq(ss) /\ Len(ss) = Len(ms)
  BY ONLY IsSeq(ms), <1>3, MapSeq
<1>5. Len(ms) \in Nat
  BY SeqParts
<1>6. ss[1] = <<ms[1]>> /\ \A i \in 2..Len(ss) : ss[i] = <<>>
  BY <1>3, <1>4, <1>5
<1>7. \A i \in 1..Len(ss) : IsSeq(ss[i])
  <2>1. \A x : IsSeq(<<x>>)
    BY OneSeq
  <2>2. IsSeq(<<>>)
    BY EmptyIsSeq
  <2>3. QED BY <1>3, <1>4, <2>1, <2>2
<1>8. AreSeqs(ss)
  BY <1>4, <1>7 DEF AreSeqs
<1>9. FlattenSeq(ss) = ss[1]
  BY <1>4, <1>6, <1>8, FlatHead
<1>10. QED BY <1>2, <1>6, <1>9

SystemParts(ms) == FlattenSeq(Map(OfSystem(ms), LAMBDA m : m.content))

\* What the system says is what its only message says.
LEMMA SystemPartsOfFirst ==
    ASSUME NEW ms, IsSeq(ms), Len(ms) # 0, ms[1].role = "system",
           \A i \in 2..Len(ms) : ms[i].role # "system", IsSeq(ms[1].content)
    PROVE  SystemParts(ms) = ms[1].content
<1>1. PICK s : s = OfSystem(ms)
  OBVIOUS
<1>2. s = <<ms[1]>>
  BY <1>1, OnlyTheFirst
<1>3. Len(s) = 1 /\ s[1] = ms[1]
  BY <1>2
<1>4. [i \in 1..Len(s) |-> s[i].content] = <<ms[1].content>>
  BY <1>3
<1>5. SystemParts(ms) = FlattenSeq(<<ms[1].content>>)
  BY <1>1, <1>4 DEF SystemParts, Map
<1>6. QED BY <1>5, FlatOne

\* On the direct path the rules are the prompt.
LEMMA DirectPrompt ==
    ASSUME NEW ms, NEW c, Ruled(ms, c)
    PROVE  SystemTexts(ms) = <<Rules(c)>>
<1>1. ms[1].role = "system" /\ ms[1].content = <<Text(Rules(c))>>
  BY DEF Ruled, RulesMessage, Plain, Message
<1>2. IsSeq(ms[1].content)
  BY <1>1, OneSeq
<1>3. PICK s : s = SystemParts(ms)
  OBVIOUS
<1>4. s = <<Text(Rules(c))>>
  BY <1>1, <1>2, <1>3, SystemPartsOfFirst DEF Ruled
<1>5. Len(s) = 1 /\ s[1].body = Rules(c)
  BY <1>4 DEF Text, Part
<1>6. SystemTexts(ms) = [i \in 1..Len(s) |-> s[i].body]
  BY <1>3 DEF SystemTexts, SystemParts, Map
<1>7. QED BY <1>5, <1>6

\* In the normal form the rules are the prompt.
LEMMA NormalPrompt ==
    ASSUME NEW normal, NEW c, IsSeq(normal.messages), Len(normal.messages) # 0,
           normal.messages[1].role = "system",
           normal.messages[1].content = <<Text(Rules(c))>>,
           \A i \in 2..Len(normal.messages) : normal.messages[i].role # "system"
    PROVE  SystemPrompt(normal) = <<Rules(c)>>
<1>1. PICK ms : ms = normal.messages
  OBVIOUS
<1>2. PICK x : x = Text(Rules(c))
  OBVIOUS
<1>3. x.kind = "text" /\ x.body = Rules(c)
  BY <1>2 DEF Text, Part
<1>4. PICK s : s = SystemParts(ms)
  OBVIOUS
<1>5. s = <<x>>
  BY <1>1, <1>2, <1>4, OneSeq, SystemPartsOfFirst
<1>6. Len(s) = 1 /\ s[1] = x
  BY <1>5
<1>7. PICK ss : ss = [i \in 1..Len(s) |-> IF s[i].kind \in {"text", "provider"} THEN <<s[i]>> ELSE <<>>]
  OBVIOUS
<1>8. ss = << <<x>> >>
  BY <1>3, <1>6, <1>7
<1>9. Those(s, {"text", "provider"}) = <<x>>
  <2>1. Those(s, {"text", "provider"}) = FlattenSeq(ss)
    BY <1>7 DEF Those, Chosen, Map
  <2>2. IsSeq(<<x>>)
    BY OneSeq
  <2>3. QED BY <1>8, <2>1, <2>2, FlatOne
<1>10. PICK t : t = Those(s, {"text", "provider"})
  OBVIOUS
<1>11. Len(t) = 1 /\ t[1] = x
  BY <1>9, <1>10
<1>12. SystemPrompt(normal) = [i \in 1..Len(t) |-> t[i].body]
  BY <1>1, <1>4, <1>10 DEF SystemPrompt, SystemParts, Map
<1>13. QED BY <1>3, <1>11, <1>12

\* A text is the same in the normal form.
LEMMA TextContent ==
    ASSUME NEW ms, NEW i, NEW x, ms[i].content = <<x>>, x.kind = "text"
    PROVE  NormalContent(ms, i) = <<x>>
<1>1. PICK s : s = ms[i].content
  OBVIOUS
<1>2. Len(s) = 1 /\ s[1] = x
  BY <1>1
<1>3. PICK r : r = NormalContent(ms, i)
  OBVIOUS
<1>4. r = [j \in 1..Len(s) |-> r[j]]
  BY <1>1, <1>3 DEF NormalContent
<1>5. r[1] = x
  BY <1>1, <1>2, <1>3 DEF NormalContent
<1>6. r = [j \in 1..1 |-> x]
  BY <1>2, <1>4, <1>5
<1>7. <<x>> = [j \in 1..1 |-> x]
  OBVIOUS
<1>8. QED BY <1>3, <1>6, <1>7

\* The prompt that is made of chat messages.
LEMMA ChatPrompt ==
    ASSUME NEW M, NEW c, NEW ms, GoodMessages(ms, M), Ruled(ms, c)
    PROVE  SystemPrompt(NormalChat(ms)) = <<Rules(c)>>
<1>1. PICK normal : normal = NormalChat(ms)
  OBVIOUS
<1>2. PICK r : r = normal.messages
  OBVIOUS
<1>3. r = [i \in 1..Len(ms) |-> r[i]] /\ \A i \in 1..Len(ms) : r[i] = ChatMessage(ms, i)
  BY <1>1, <1>2, NormalChatParts
<1>4. IsSeq(ms)
  BY DEF Ruled
<1>5. IsSeq(r) /\ Len(r) = Len(ms) /\ Len(ms) \in Nat /\ Len(ms) # 0
  BY <1>3, <1>4, MapSeq, SeqParts DEF Ruled
<1>6. ms[1].role = "system" /\ ms[1].content = <<Text(Rules(c))>>
  BY DEF Ruled, RulesMessage, Plain, Message
<1>7. r[1].role = "system" /\ r[1].content = <<Text(Rules(c))>>
  <2>1. 1 \in 1..Len(ms)
    BY <1>5
  <2>2. ms[1].role \notin Answering
    BY <1>6 DEF Answering
  <2>3. WithoutResults(ms)[1] = ms[1]
    BY <2>1, <2>2, WithoutResultsGood
  <2>4. Text(Rules(c)).kind = "text"
    BY DEF Text, Part
  <2>5. NormalContent(WithoutResults(ms), 1) = <<Text(Rules(c))>>
    BY <1>6, <2>3, <2>4, TextContent
  <2>6. r[1] = [role |-> NormalRole("system"),
                content |-> NormalContent(WithoutResults(ms), 1) \o <<>>]
    BY <1>3, <1>6, <2>1, <2>2 DEF ChatMessage
  <2>7. \A x : <<x>> \o <<>> = <<x>>
    OBVIOUS
  <2>8. NormalRole("system") = "system"
    BY DEF NormalRole
  <2>9. QED BY <2>5, <2>6, <2>7, <2>8
<1>8. ASSUME NEW i \in 2..Len(r) PROVE r[i].role # "system"
  <2>1. i \in 1..Len(ms) /\ ms[i].role \notin {"system", "developer"}
    BY <1>5 DEF Ruled
  <2>2. r[i].role = "tool" \/ r[i].role = NormalRole(ms[i].role)
    BY <1>3, <2>1 DEF ChatMessage
  <2>3. NormalRole(ms[i].role) # "system"
    BY <2>1 DEF NormalRole
  <2>4. QED BY <2>2, <2>3
<1>9. SystemPrompt(normal) = <<Rules(c)>>
  BY <1>2, <1>5, <1>7, <1>8, NormalPrompt
<1>10. QED BY <1>1, <1>9

\* The prompt that is made of the system field of the Messages API.
LEMMA MessagesPrompt ==
    ASSUME NEW c, NEW rest, NEW ms, ms = <<RulesMessage(c)>> \o rest, Ruled(ms, c)
    PROVE  SystemPrompt(NormalMessages(<<Text(Rules(c))>>, rest)) = <<Rules(c)>>
<1>1. PICK normal : normal = NormalMessages(<<Text(Rules(c))>>, rest)
  OBVIOUS
<1>2. PICK r : r = normal.messages
  OBVIOUS
<1>3. \A x : <<x>> # <<>>
  <2>1. \A x : Len(<<x>>) = 1 /\ Len(<<>>) = 0
    BY ONLY TRUE
  <2>2. QED BY <2>1
<1>4. normal.messages = [i \in 1..Len(ms) |->
                           [role |-> NormalRole(ms[i].role), content |-> NormalContent(ms, i)]]
  BY <1>1, <1>3 DEF NormalMessages, Normal, RulesMessage
<1>5. /\ r = [i \in 1..Len(ms) |-> r[i]]
      /\ \A i \in 1..Len(ms) : r[i].role = NormalRole(ms[i].role)
                               /\ r[i].content = NormalContent(ms, i)
  BY <1>2, <1>4
<1>6. IsSeq(ms)
  BY DEF Ruled
<1>7. IsSeq(r) /\ Len(r) = Len(ms) /\ Len(ms) \in Nat /\ Len(ms) # 0
  BY <1>5, <1>6, MapSeq, SeqParts DEF Ruled
<1>8. ms[1].role = "system" /\ ms[1].content = <<Text(Rules(c))>>
  BY DEF Ruled, RulesMessage, Plain, Message
<1>9. r[1].role = "system" /\ r[1].content = <<Text(Rules(c))>>
  <2>1. 1 \in 1..Len(ms)
    BY <1>7
  <2>2. Text(Rules(c)).kind = "text"
    BY DEF Text, Part
  <2>3. NormalContent(ms, 1) = <<Text(Rules(c))>>
    <3>1. PICK x : x = Text(Rules(c))
      OBVIOUS
    <3>2. PICK i : i = 1
      OBVIOUS
    <3>3. ms[i].content = <<x>> /\ x.kind = "text"
      BY <1>8, <2>2, <3>1, <3>2
    <3>4. NormalContent(ms, i) = <<x>>
      BY ONLY <3>3, TextContent
    <3>5. QED BY <3>1, <3>2, <3>4
  <2>4. QED BY <1>5, <1>8, <2>1, <2>3 DEF NormalRole
<1>10. ASSUME NEW i \in 2..Len(r) PROVE r[i].role # "system"
  <2>1. i \in 1..Len(ms) /\ ms[i].role \notin {"system", "developer"}
    BY <1>7 DEF Ruled
  <2>2. QED BY <1>5, <2>1 DEF NormalRole
<1>11. SystemPrompt(normal) = <<Rules(c)>>
  BY <1>2, <1>7, <1>9, <1>10, NormalPrompt
<1>12. QED BY <1>1, <1>11

-----------------------------------------------------------------------------
(* Asking.                                                                  *)

\* What goes to the provider.
Provided(body, c, M) == GoodSent(body.sent, M) /\ body.prompt = <<Rules(c)>>

\* What the provider gets on either path.
LEMMA ToProviderGood ==
    ASSUME NEW M, NEW c, NEW direct, NEW ms, GoodMessages(ms, M), Ruled(ms, c),
           NEW normal, GoodNormal(normal, M), SystemPrompt(normal) = <<Rules(c)>>
    PROVE  Provided(ToProvider(direct, ms, normal), c, M)
<1>1. CASE direct
  BY <1>1, DirectSent, DirectPrompt DEF ToProvider, Provided
<1>2. CASE ~direct
  BY <1>2, RenderedSent DEF ToProvider, Provided
<1>3. QED BY <1>1, <1>2

\* What clients and providers say.
LEMMA UtteredOwn ==
    ASSUME NEW M, NEW c \in M, NEW n \in Nat, NEW k \in Nat
    PROVE  /\ <<"says", c, n>> \in Uttered(M) /\ <<"image", c, n>> \in Uttered(M)
           /\ <<"file", c, n>> \in Uttered(M) /\ <<"answer", c, n>> \in Uttered(M)
           /\ <<"result", c, n, k>> \in Uttered(M) /\ Uttered(M) \subseteq Own(M)
BY DEF Uttered, Own

\* A good turn more.
LEMMA TurnsAppended ==
    ASSUME NEW M, NEW turns, GoodTurns(turns, M), NEW t, GoodTurn(t, M)
    PROVE  GoodTurns(Append(turns, t), M)
BY Appended DEF GoodTurns

\* The calls that wait for their results.
LEMMA OpenIsSeq ==
    ASSUME NEW M, NEW c, GoodTurns(said[c], M)
    PROVE  IsSeq(Open(c)) /\ Len(said[c]) \in Nat
<1>1. IsSeq(said[c]) /\ Len(said[c]) \in Nat
  BY SeqParts DEF GoodTurns
<1>2. CASE said[c] = <<>>
  BY <1>1, <1>2, EmptyIsSeq DEF Open
<1>3. CASE said[c] # <<>>
  <2>1. Len(said[c]) # 0
    BY <1>1, <1>3 DEF IsSeq
  <2>2. Len(said[c]) \in 1..Len(said[c])
    BY <1>1, <2>1
  <2>3. IsSeq(LastTurn(c).parts)
    BY <2>2 DEF LastTurn, GoodTurns, GoodTurn, GoodParts
  <2>4. QED BY <1>1, <1>3, <2>3, ThoseFrom DEF Open
<1>4. QED BY <1>2, <1>3

\* What a client sends next is its own.
LEMMA InputsGood ==
    ASSUME NEW M, NEW c \in M, GoodTurns(said[c], M), NEW parts \in Inputs(c)
    PROVE  GoodParts(parts, M)
<1>1. PICK n : n = Len(said[c]) + 1
  OBVIOUS
<1>2. n \in Nat /\ IsSeq(Open(c))
  BY <1>1, OpenIsSeq
<1>3. PICK text : text = Text(<<"says", c, n>>)
  OBVIOUS
<1>4. PICK results : results = [k \in 1..Len(Open(c)) |-> Part("result", Open(c)[k].id, <<"result", c, n, k>>)]
  OBVIOUS
<1>5. PICK image : image = Part("image", NoId, <<"image", c, n>>)
  OBVIOUS
<1>6. PICK file : file = Part("file", NoId, <<"file", c, n>>)
  OBVIOUS
<1>7. parts \in {results, Append(results, text), <<text>>, <<text, image>>, <<text, file>>}
  BY <1>1, <1>3, <1>4, <1>5, <1>6 DEF Inputs
<1>8. GoodPart(text, M) /\ GoodPart(image, M) /\ GoodPart(file, M)
  <2>1. /\ <<"says", c, n>> \in Own(M) /\ <<"image", c, n>> \in Own(M)
        /\ <<"file", c, n>> \in Uttered(M) /\ <<"file", c, n>> \in Own(M)
    BY <1>2, UtteredOwn
  <2>2. QED BY <1>3, <1>5, <1>6, <2>1 DEF GoodPart, Text, Part
<1>9. GoodParts(results, M)
  <2>1. /\ results = [k \in 1..Len(Open(c)) |-> results[k]]
        /\ \A k \in 1..Len(Open(c)) : results[k] = Part("result", Open(c)[k].id, <<"result", c, n, k>>)
    BY <1>4
  <2>2. IsSeq(results) /\ Len(results) = Len(Open(c))
    BY ONLY <1>2, <2>1, MapSeq
  <2>3. ASSUME NEW k \in 1..Len(results) PROVE GoodPart(results[k], M)
    <3>1. k \in Nat
      BY <2>2
    <3>2. <<"result", c, n, k>> \in Own(M)
      BY <1>2, <3>1, UtteredOwn
    <3>3. \A id, b : b \in Own(M) => GoodPart(Part("result", id, b), M)
      BY DEF GoodPart, Part
    <3>4. results[k] = Part("result", Open(c)[k].id, <<"result", c, n, k>>)
      BY <2>1, <2>2
    <3>5. QED BY ONLY <3>2, <3>3, <3>4
  <2>4. QED BY <2>2, <2>3 DEF GoodParts
<1>10. GoodParts(Append(results, text), M)
  BY <1>8, <1>9, Appended DEF GoodParts
<1>11. GoodParts(<<text>>, M)
  BY <1>8, OneGoodPart
<1>12. GoodParts(<<text, image>>, M) /\ GoodParts(<<text, file>>, M)
  <2>1. ASSUME NEW x, GoodPart(x, M) PROVE GoodParts(<<text, x>>, M)
    <3>1. PICK s : s = <<text, x>>
      OBVIOUS
    <3>2. IsSeq(s) /\ Len(s) = 2
      BY <3>1, PairSeq
    <3>3. s[1] = text /\ s[2] = x
      BY <3>1
    <3>4. \A i \in 1..Len(s) : i = 1 \/ i = 2
      BY <3>2
    <3>5. GoodParts(s, M)
      BY <1>8, <2>1, <3>2, <3>3, <3>4 DEF GoodParts
    <3>6. QED BY <3>1, <3>5
  <2>2. QED BY <1>8, <2>1
<1>13. QED BY <1>7, <1>9, <1>10, <1>11, <1>12

\* A request that tells everything again (Chat, Messages).
LEMMA WholeCallGood ==
    ASSUME NEW M, NEW c \in M, GoodTurns(said[c], M), NEW parts, GoodParts(parts, M), NEW direct
    PROVE  /\ Provided(WholeCall(c, parts, direct).body, c, M)
           /\ WholeCall(c, parts, direct).conversation = <<>>
<1>1. PICK turns : turns = Append(said[c], Turn("user", parts))
  OBVIOUS
<1>2. GoodTurns(turns, M)
  BY <1>1, TurnsAppended DEF GoodTurn, Turn
<1>3. PICK plain : plain = Map(turns, LAMBDA t : Plain(t.who, t.parts))
  OBVIOUS
<1>4. PICK chat : chat = ChatTurns(turns)
  OBVIOUS
<1>5. Storable(plain, M) /\ Storable(chat, M)
  BY <1>2, <1>3, <1>4, ChatTurnsStorable, TurnMessagesStorable
<1>6. PICK rules : rules = <<RulesMessage(c)>>
  OBVIOUS
<1>7. GoodMessages(rules, M) /\ Ruled(rules, c)
  BY <1>6, RulesAlone
<1>8. /\ GoodMessages(rules \o plain, M) /\ Ruled(rules \o plain, c)
      /\ GoodMessages(rules \o chat, M) /\ Ruled(rules \o chat, c)
  BY ONLY <1>5, <1>7, RuledJoined
<1>9. PICK ofPlain : ofPlain = NormalMessages(<<Text(Rules(c))>>, plain)
  OBVIOUS
<1>10. GoodNormal(ofPlain, M) /\ SystemPrompt(ofPlain) = <<Rules(c)>>
  <2>1. <<Text(Rules(c))>> # <<>>
    <3>1. Len(<<Text(Rules(c))>>) = 1 /\ Len(<<>>) = 0
      OBVIOUS
    <3>2. QED BY <3>1
  <2>2. GoodMessages(plain, M) /\ IsSeq(plain)
    BY <1>5 DEF Storable, GoodMessages
  <2>3. PICK all : all = rules \o plain
    OBVIOUS
  <2>4. all = <<Plain("system", <<Text(Rules(c))>>)>> \o plain
    BY <1>6, <2>3 DEF RulesMessage
  <2>5. GoodNormal(ofPlain, M)
    BY <1>8, <1>9, <2>1, <2>2, <2>3, <2>4, NormalMessagesGood
  <2>6. SystemPrompt(ofPlain) = <<Rules(c)>>
    BY <1>6, <1>8, <1>9, MessagesPrompt
  <2>7. QED BY <2>5, <2>6
<1>11. PICK ofChat : ofChat = NormalChat(rules \o chat)
  OBVIOUS
<1>12. GoodNormal(ofChat, M) /\ SystemPrompt(ofChat) = <<Rules(c)>>
  BY <1>8, <1>11, NormalChatGood, ChatPrompt
<1>13. /\ Provided(ToProvider(direct, rules \o plain, ofPlain), c, M)
       /\ Provided(ToProvider(direct, rules \o chat, ofChat), c, M)
  BY ONLY <1>8, <1>10, <1>12, ToProviderGood
<1>14. CASE api = "messages"
  <2>1. WholeCall(c, parts, direct) =
           [conversation |-> <<>>, body |-> ToProvider(direct, rules \o plain, ofPlain)]
    BY <1>1, <1>3, <1>6, <1>9, <1>14 DEF WholeCall, RulesMessage
  <2>2. QED BY <1>13, <2>1
<1>15. CASE api # "messages"
  <2>1. WholeCall(c, parts, direct) =
           [conversation |-> <<>>, body |-> ToProvider(direct, rules \o chat, ofChat)]
    BY <1>1, <1>4, <1>6, <1>11, <1>15 DEF WholeCall, RulesMessage
  <2>2. QED BY <1>13, <2>1
<1>16. QED BY <1>14, <1>15

\* What belongs to some conversations belongs to more.
LEMMA OwnGrows ==
    ASSUME NEW M, NEW N, M \subseteq N
    PROVE  Uttered(M) \subseteq Uttered(N) /\ Own(M) \subseteq Own(N)
<1>1. Uttered(M) \subseteq Uttered(N)
  <2>1. ASSUME NEW b, \E w \in {"says", "image", "file", "answer"}, d \in M, n \in Nat : b = <<w, d, n>>
        PROVE  \E w \in {"says", "image", "file", "answer"}, d \in N, n \in Nat : b = <<w, d, n>>
    BY <2>1
  <2>2. ASSUME NEW b, \E d \in M, n \in Nat, k \in Nat : b = <<"result", d, n, k>>
        PROVE  \E d \in N, n \in Nat, k \in Nat : b = <<"result", d, n, k>>
    BY <2>2
  <2>3. QED BY <2>1, <2>2 DEF Uttered
<1>2. {<<"rules", d>> : d \in M} \subseteq {<<"rules", d>> : d \in N}
  OBVIOUS
<1>3. QED BY <1>1, <1>2 DEF Own

LEMMA GoodGrows ==
    ASSUME NEW M, NEW N, M \subseteq N, NEW r, GoodEntry(r, M)
    PROVE  GoodEntry(r, N)
<1>1. \A x : GoodPart(x, M) => GoodPart(x, N)
  BY OwnGrows DEF GoodPart
<1>2. \A parts : GoodParts(parts, M) => GoodParts(parts, N)
  BY <1>1 DEF GoodParts
<1>3. \A m : GoodMessage(m, M) => GoodMessage(m, N)
  BY <1>2 DEF GoodMessage
<1>4. Storable(r.messages, M) => Storable(r.messages, N)
  BY <1>3 DEF Storable, GoodMessages
<1>5. GoodTurns(r.turns, M) => GoodTurns(r.turns, N)
  BY <1>2 DEF GoodTurns, GoodTurn
<1>6. QED BY <1>4, <1>5 DEF GoodEntry

\* A name begins with itself, and with what the name that it goes on from begins.
LEMMA PrefixOfItself ==
    ASSUME NEW t \in Seq(STRING)
    PROVE  IsPrefix(t, t)
BY DEF IsPrefix

LEMMA PrefixOfJoined ==
    ASSUME NEW t \in Seq(STRING), NEW p \in Seq(STRING), NEW x \in Seq(STRING), IsPrefix(t \o p, x)
    PROVE  IsPrefix(t, x)
<1>1. t \o p \in Seq(STRING) /\ Len(t \o p) = Len(t) + Len(p) /\ Len(t) \in Nat /\ Len(p) \in Nat
      /\ Len(x) \in Nat
  OBVIOUS
<1>2. Len(t) + Len(p) <= Len(x)
  BY <1>1 DEF IsPrefix
<1>3. PICK whole, first : /\ whole = SubSeq(t \o p, 1, Len(t) + Len(p))
                          /\ first = SubSeq(x, 1, Len(t) + Len(p))
  OBVIOUS
<1>4. whole = first
  BY <1>1, <1>3 DEF IsPrefix
<1>5. \A i \in 1..Len(t) : whole[i] = t[i] /\ first[i] = x[i]
  BY <1>1, <1>2, <1>3
<1>6. \A i \in 1..Len(t) : t[i] = x[i]
  BY <1>4, <1>5
<1>7. SubSeq(t, 1, Len(t)) = SubSeq(x, 1, Len(t))
  BY <1>1, <1>2, <1>6
<1>8. QED BY <1>1, <1>2, <1>7 DEF IsPrefix

LEMMA MembersShrink ==
    ASSUME NamesInv, NEW t \in Seq(STRING), NEW p \in Seq(STRING)
    PROVE  Members(t \o p) \subseteq Members(t)
<1>1. \A d \in Chats : tenant[d] \in Seq(STRING)
  BY ChatsAssumption DEF NamesInv
<1>2. QED BY <1>1, PrefixOfJoined DEF Members

\* Nothing has been stored.
LEMMA NoGoodEntry ==
    ASSUME NEW M
    PROVE  GoodEntry(NoEntry, M)
<1>1. NoEntry.messages = <<>> /\ NoEntry.turns = <<>>
  BY DEF NoEntry, Response
<1>2. GoodTurns(<<>>, M)
  BY EmptyIsSeq DEF GoodTurns
<1>3. QED BY <1>1, <1>2, NoneStorable DEF GoodEntry

\* What a tenant finds under an id has been said within the tenant, or within one
\* whose name it has written before the id (ResponsesStore::get).
LEMMA StoredIsGood ==
    ASSUME NamesInv, GoodEntries(kv), GoodEntries(memory), NEW c \in Chats, NEW id,
           id[1] \in Seq(STRING)
    PROVE  GoodEntry(Get(tenant[c], id), Members(tenant[c]))
<1>1. ASSUME NEW s, GoodEntries(s), NEW key PROVE GoodEntry(Found(s, key), Members(key[1]))
  BY <1>1, NoGoodEntry DEF GoodEntries, Found
<1>2. PICK t : t = tenant[c]
  OBVIOUS
<1>3. t \in Seq(STRING)
  BY <1>2, ChatsAssumption DEF NamesInv
<1>4. GoodEntry(Found(kv, KvKey(t, id)), Members(t))
  <2>1. KvKey(t, id)[1] = t
    BY DEF KvKey
  <2>2. QED BY <1>1, <2>1
<1>5. GoodEntry(Found(memory, MemoryKey(t, id)), Members(t))
  <2>1. MemoryKey(t, id)[1] = t \o id[1]
    BY DEF MemoryKey
  <2>2. GoodEntry(Found(memory, MemoryKey(t, id)), Members(t \o id[1]))
    BY <1>1, <2>1
  <2>3. Members(t \o id[1]) \subseteq Members(t)
    BY <1>3, MembersShrink
  <2>4. QED BY <2>2, <2>3, GoodGrows
<1>6. QED BY <1>2, <1>4, <1>5 DEF Get

\* A request of the Responses API: the instructions, the conversation before,
\* if it is continued, and the input.
LEMMA ResponsesCallGood ==
    ASSUME NamesInv, GoodEntries(kv), GoodEntries(memory), NEW c \in Chats,
           NEW M, M = Members(tenant[c]), GoodTurns(said[c], M),
           NEW parts, GoodParts(parts, M), NEW direct, NEW chained, chained => parent[c] # NoId
    PROVE  /\ Provided(ResponsesCall(c, parts, direct, chained).body, c, M)
           /\ Storable(ResponsesCall(c, parts, direct, chained).conversation, M)
<1>1. PICK turns : turns = Append(said[c], Turn("user", parts))
  OBVIOUS
<1>2. GoodTurn(Turn("user", parts), M)
  BY DEF GoodTurn, Turn
<1>3. PICK new : new = IF chained THEN <<Turn("user", parts)>> ELSE turns
  OBVIOUS
<1>4. GoodTurns(new, M)
  <2>1. GoodTurns(turns, M)
    BY <1>1, <1>2, TurnsAppended
  <2>2. GoodTurns(<<Turn("user", parts)>>, M)
    BY <1>2, OneSeq DEF GoodTurns
  <2>3. QED BY <1>3, <2>1, <2>2
<1>5. PICK before : before = IF chained THEN Get(tenant[c], parent[c]).messages ELSE <<>>
  OBVIOUS
<1>6. Storable(before, M)
  <2>1. ASSUME chained PROVE Storable(Get(tenant[c], parent[c]).messages, M)
    BY <2>1, StoredIsGood DEF NamesInv, GoodEntry
  <2>2. Storable(<<>>, M)
    BY NoneStorable
  <2>3. QED BY <1>5, <2>1, <2>2
<1>7. PICK current : current = InputMessages(ItemTurns(turns, new))
  OBVIOUS
<1>8. Storable(current, M)
  BY <1>4, <1>7, ItemTurnsGood, InputMessagesStorable
<1>9. PICK rules : rules = <<RulesMessage(c)>>
  OBVIOUS
<1>10. InstructionMessages(Rules(c)) = rules
  <2>1. Rules(c) # NoBody
    <3>1. Len(Rules(c)) = 2 /\ Len(NoBody) = 1
      BY DEF Rules, NoBody
    <3>2. QED BY <3>1
  <2>2. QED BY <1>9, <2>1 DEF InstructionMessages, RulesMessage, Text
<1>11. c \in M
  BY PrefixOfItself, ChatsAssumption DEF Members, NamesInv
<1>12. GoodMessages(rules, M) /\ Ruled(rules, c)
  BY <1>9, <1>11, RulesAlone
<1>13. GoodMessages(rules \o before, M) /\ Ruled(rules \o before, c)
  BY ONLY <1>6, <1>12, RuledJoined
<1>14. PICK ms : ms = (rules \o before) \o current
  OBVIOUS
<1>15. GoodMessages(ms, M) /\ Ruled(ms, c)
  BY ONLY <1>8, <1>13, <1>14, RuledJoined
<1>16. PICK normal : normal = NormalChat(ms)
  OBVIOUS
<1>17. GoodNormal(normal, M) /\ SystemPrompt(normal) = <<Rules(c)>>
  BY <1>15, <1>16, NormalChatGood, ChatPrompt
<1>18. Provided(ToProvider(direct, ms, normal), c, M)
  BY ONLY <1>15, <1>17, ToProviderGood
<1>19. Storable(before \o current, M)
  BY <1>6, <1>8, StorableJoined
<1>20. ResponsesCall(c, parts, direct, chained) =
          [conversation |-> before \o current, body |-> ToProvider(direct, ms, normal)]
  BY <1>1, <1>3, <1>5, <1>7, <1>10, <1>14, <1>16 DEF ResponsesCall
<1>21. QED BY <1>18, <1>19, <1>20

\* A conversation that takes a step of its own, while the others and the store stay good.
LEMMA OnlyOneChanges ==
    ASSUME BodiesInv, tenant' = tenant, NEW c \in Chats,
           \A d \in Chats : d # c => said'[d] = said[d] /\ call'[d] = call[d],
           GoodTalk(said'[c], call'[c], c, Members(tenant[c])),
           GoodEntries(kv)', GoodEntries(memory)'
    PROVE  BodiesInv'
<1>1. \A t : Members(t)' = Members(t)
  BY DEF Members
<1>2. ASSUME NEW d \in Chats PROVE GoodTalk(said[d], call[d], d, Members(tenant[d]))'
  <2>1. GoodTalk(said'[d], call'[d], d, Members(tenant[d]))
    BY DEF BodiesInv
  <2>2. QED BY <1>1, <2>1
<1>3. QED BY <1>2 DEF BodiesInv

\* Stores that are left alone stay good.
LEMMA EntriesKept ==
    ASSUME BodiesInv, tenant' = tenant, UNCHANGED <<kv, memory>>
    PROVE  GoodEntries(kv)' /\ GoodEntries(memory)'
BY DEF BodiesInv, GoodEntries, Members

\* A conversation without a request.
LEMMA NothingAsked ==
    ASSUME NEW M, NEW c, NEW turns, GoodTurns(turns, M)
    PROVE  GoodTalk(turns, NoCall, c, M)
<1>1. GoodParts(<<>>, M) /\ Storable(<<>>, M) /\ IsSeq(<<>>) /\ Len(<<>>) = 0
  BY NoGoodParts, NoneStorable, EmptyIsSeq
<1>2. GoodSent(<<>>, M)
  BY <1>1, SentMessages
<1>3. QED BY <1>1, <1>2 DEF GoodTalk, NoCall

\* A conversation is one of its tenant.
LEMMA ItsMembers ==
    ASSUME NamesInv, BodiesInv, NEW c \in Chats, NEW M, M = Members(tenant[c])
    PROVE  c \in M /\ GoodTalk(said[c], call[c], c, M) /\ GoodTurns(said[c], M)
<1>1. c \in M
  BY PrefixOfItself, ChatsAssumption DEF NamesInv, Members
<1>2. QED BY <1>1 DEF BodiesInv, GoodTalk

AskedOf(c, parts, direct, chained) ==
    IF api = "responses" THEN ResponsesCall(c, parts, direct, chained)
    ELSE WholeCall(c, parts, direct)

Asking(c, parts, direct, request) ==
    [phase |-> "asked", id |-> FreshId(c), parts |-> parts, direct |-> direct,
     sent |-> request.body.sent, prompt |-> request.body.prompt,
     asText |-> request.body.asText, conversation |-> request.conversation, told |-> <<>>]

\* A request shows and keeps what its client may know.
LEMMA AskBodies ==
    ASSUME Shape, NamesInv, BodiesInv, NEW c \in Chats, Ask(c)
    PROVE  BodiesInv'
<1>1. UNCHANGED <<said, kv, memory, tenant>>
  BY DEF Ask, store, setup
<1>2. PICK parts \in Inputs(c), direct \in BOOLEAN, chained \in BOOLEAN :
         /\ call' = [call EXCEPT ![c] = Asking(c, parts, direct, AskedOf(c, parts, direct, chained))]
         /\ chained => parent[c] # NoId
  <2>1. PICK parts \in Inputs(c), direct \in BOOLEAN, chained \in BOOLEAN :
          /\ direct => CanBeDirect
          /\ chained => api = "responses" /\ parent[c] # NoId
                        /\ Get(tenant[c], parent[c]) # NoEntry
          /\ LET request == IF api = "responses" THEN ResponsesCall(c, parts, direct, chained)
                          ELSE WholeCall(c, parts, direct)
             IN  call' = [call EXCEPT ![c] =
                            [phase |-> "asked", id |-> FreshId(c), parts |-> parts, direct |-> direct,
                             sent |-> request.body.sent, prompt |-> request.body.prompt,
                             asText |-> request.body.asText, conversation |-> request.conversation,
                             told |-> <<>>]]
    BY DEF Ask
  <2>2. call' = [call EXCEPT ![c] = Asking(c, parts, direct, AskedOf(c, parts, direct, chained))]
    BY <2>1 DEF Asking, AskedOf
  <2>3. chained => parent[c] # NoId
    BY ONLY <2>1
  <2>4. QED BY ONLY <2>2, <2>3
<1>3. PICK M : M = Members(tenant[c])
  OBVIOUS
<1>4. c \in M /\ GoodTurns(said[c], M)
  BY <1>3, ItsMembers
<1>5. GoodParts(parts, M)
  BY <1>4, InputsGood
<1>6. PICK request : request = AskedOf(c, parts, direct, chained)
  OBVIOUS
<1>7. Provided(request.body, c, M) /\ Storable(request.conversation, M)
  <2>1. CASE api = "responses"
    <3>1. GoodEntries(kv) /\ GoodEntries(memory)
      BY DEF BodiesInv
    <3>2. /\ Provided(ResponsesCall(c, parts, direct, chained).body, c, M)
          /\ Storable(ResponsesCall(c, parts, direct, chained).conversation, M)
      BY <1>2, <1>3, <1>4, <1>5, <3>1, ResponsesCallGood
    <3>3. QED BY <1>6, <2>1, <3>2 DEF AskedOf
  <2>2. CASE api # "responses"
    <3>1. /\ Provided(WholeCall(c, parts, direct).body, c, M)
          /\ WholeCall(c, parts, direct).conversation = <<>>
      BY <1>4, <1>5, WholeCallGood
    <3>2. Storable(<<>>, M)
      BY NoneStorable
    <3>3. QED BY <1>6, <2>2, <3>1, <3>2 DEF AskedOf
  <2>3. QED BY <2>1, <2>2
<1>8. PICK new : new = Asking(c, parts, direct, request)
  OBVIOUS
<1>9. call' = [call EXCEPT ![c] = new] /\ call = [d \in Chats |-> call[d]]
  BY <1>2, <1>6, <1>8 DEF Shape
<1>10. call'[c] = new /\ \A d \in Chats : d # c => call'[d] = call[d]
  BY <1>9
<1>11. GoodTalk(said[c], new, c, M)
  <2>1. GoodParts(<<>>, M)
    BY NoGoodParts
  <2>2. /\ new.parts = parts /\ new.told = <<>> /\ new.conversation = request.conversation
        /\ new.sent = request.body.sent /\ new.prompt = request.body.prompt
    BY <1>8 DEF Asking
  <2>3. QED BY <1>4, <1>5, <1>7, <2>1, <2>2 DEF GoodTalk, Provided
<1>12. GoodEntries(kv)' /\ GoodEntries(memory)'
  BY <1>1, EntriesKept
<1>13. GoodTalk(said'[c], call'[c], c, Members(tenant[c]))
  BY <1>1, <1>3, <1>10, <1>11
<1>14. QED BY <1>1, <1>10, <1>12, <1>13, OnlyOneChanges

\* A request that fails.
LEMMA FailBodies ==
    ASSUME Shape, NamesInv, BodiesInv, NEW c \in Chats, Fail(c)
    PROVE  BodiesInv'
<1>1. UNCHANGED <<said, kv, memory, tenant>> /\ call' = [call EXCEPT ![c] = NoCall]
  BY DEF Fail, store, setup
<1>2. call'[c] = NoCall /\ \A d \in Chats : d # c => call'[d] = call[d]
  BY <1>1 DEF Shape
<1>3. GoodTurns(said[c], Members(tenant[c]))
  BY DEF BodiesInv, GoodTalk
<1>4. GoodTalk(said'[c], call'[c], c, Members(tenant[c]))
  BY <1>1, <1>2, <1>3, NothingAsked
<1>5. GoodEntries(kv)' /\ GoodEntries(memory)'
  BY <1>1, EntriesKept
<1>6. QED BY <1>1, <1>2, <1>4, <1>5, OnlyOneChanges

-----------------------------------------------------------------------------
(* The answer.                                                              *)

\* What a provider answers to a conversation of M.
GoodAnswer(a, M) ==
    /\ a = Answer(a.text, a.markup, a.calls)
    /\ a.text \in Own(M) /\ GoodParts(a.calls, M)

\* What a provider answers is said in this conversation.
LEMMA AnswersGood ==
    ASSUME NEW M, NEW c \in M, Len(said[c]) \in Nat, NEW a \in Answers(c)
    PROVE  GoodAnswer(a, M)
<1>1. PICK n : n = Len(said[c]) + 2
  OBVIOUS
<1>2. PICK text : text = <<"answer", c, n>>
  OBVIOUS
<1>3. text \in Own(M) /\ NoText \in Own(M)
  <2>1. n \in Nat
    BY <1>1
  <2>2. <<"answer", c, n>> \in Uttered(M) /\ Uttered(M) \subseteq Own(M)
    BY <2>1, UtteredOwn
  <2>3. QED BY <1>2, <2>2, OwnIsShown DEF NoText
<1>4. \A id, tool : tool \in {Search, ReadFile} => GoodPart(Part("call", id, tool), M)
  BY DEF GoodPart, Part, Own
<1>5. \A id, tool : tool \in {Search, ReadFile} => GoodParts(<<Part("call", id, tool)>>, M)
  BY <1>4, OneGoodPart
<1>6. \A x, y : GoodPart(x, M) /\ GoodPart(y, M) => GoodParts(<<x, y>>, M)
  <2>1. ASSUME NEW x, NEW y, GoodPart(x, M), GoodPart(y, M) PROVE GoodParts(<<x, y>>, M)
    <3>1. PICK s : s = <<x, y>>
      OBVIOUS
    <3>2. IsSeq(s) /\ Len(s) = 2
      BY <3>1, PairSeq
    <3>3. s[1] = x /\ s[2] = y
      BY <3>1
    <3>4. \A i \in 1..Len(s) : i = 1 \/ i = 2
      BY <3>2
    <3>5. GoodParts(s, M)
      BY <2>1, <3>2, <3>3, <3>4 DEF GoodParts
    <3>6. QED BY <3>1, <3>5
  <2>2. QED BY <2>1
<1>7. PICK two : two = <<Part("call", <<"call", c, n, 1>>, Search), Part("call", <<"call", c, n, 2>>, ReadFile)>>
  OBVIOUS
<1>8. GoodParts(two, M) /\ GoodParts(<<>>, M)
  BY <1>4, <1>6, <1>7, NoGoodParts
<1>9. PICK search : search = <<Part("call", CallId(c, n, 1, Search), Search)>>
  OBVIOUS
<1>10. PICK read : read = <<Part("call", CallId(c, n, 1, ReadFile), ReadFile)>>
  OBVIOUS
<1>11. GoodParts(search, M) /\ GoodParts(read, M)
  BY <1>5, <1>9, <1>10
<1>12. a \in {Answer(text, NoBody, <<>>), Answer(text, NoBody, search), Answer(NoText, NoBody, read),
              Answer(NoText, NoBody, two), Answer(text, Search, <<>>)}
  BY <1>1, <1>2, <1>7, <1>9, <1>10 DEF Answers
<1>13. \A t, m, s : t \in Own(M) /\ GoodParts(s, M) => GoodAnswer(Answer(t, m, s), M)
  BY DEF GoodAnswer, Answer
<1>14. QED BY <1>3, <1>8, <1>11, <1>12, <1>13

\* A text, unless there is none.
LEMMA TextsGood ==
    ASSUME NEW M, NEW b \in Own(M)
    PROVE  GoodParts(Texts(b), M)
<1>1. GoodParts(<<Text(b)>>, M) /\ GoodParts(<<>>, M)
  BY TextIsGood, OneGoodPart, NoGoodParts
<1>2. QED BY <1>1 DEF Texts

\* What is read of an answer: its calls, or its text.
LEMMA KernelPartsGood ==
    ASSUME NEW M, NEW a, GoodAnswer(a, M), NEW calls, GoodParts(calls, M)
    PROVE  GoodParts(KernelParts(a, calls), M)
BY TextsGood DEF KernelParts, GoodAnswer

\* Calls whose tool is replaced by the shell.
LEMMA AdaptedGood ==
    ASSUME NEW M, NEW calls, GoodParts(calls, M), NEW offered,
           NEW r, r = [i \in 1..Len(calls) |-> Adapted(calls[i], offered)]
    PROVE  GoodParts(r, M)
<1>1. IsSeq(calls) /\ \A i \in 1..Len(calls) : GoodPart(calls[i], M)
  BY DEF GoodParts
<1>2. r = [i \in 1..Len(calls) |-> r[i]] /\ \A i \in 1..Len(calls) : r[i] = Adapted(calls[i], offered)
  OBVIOUS
<1>3. IsSeq(r) /\ Len(r) = Len(calls)
  BY ONLY <1>1, <1>2, MapSeq
<1>4. ASSUME NEW x, GoodPart(x, M) PROVE GoodPart(Adapted(x, offered), M)
  <2>1. CASE Adapted(x, offered) = x
    BY <1>4, <2>1
  <2>2. CASE Adapted(x, offered) = [x EXCEPT !.body = Shell] /\ x.body = ReadFile
    <3>1. x = Part(x.kind, x.id, x.body)
      BY <1>4 DEF GoodPart
    <3>2. [x EXCEPT !.body = Shell] = Part(x.kind, x.id, Shell)
      BY <3>1 DEF Part
    <3>3. Shell \in Own(M)
      BY DEF Own
    <3>4. PICK y : y = Part(x.kind, x.id, Shell)
      OBVIOUS
    <3>5. y.kind = x.kind /\ y.body = Shell /\ y = Part(y.kind, y.id, y.body)
      BY <3>4 DEF Part
    <3>6. x.kind = "file" => ReadFile \in Uttered(M)
      BY <1>4, <2>2 DEF GoodPart
    <3>7. ReadFile \notin Uttered(M)
      <4>1. Len(ReadFile) = 1
        BY DEF ReadFile
      <4>2. \A u \in Uttered(M) : Len(u) \in {3, 4}
        BY DEF Uttered
      <4>3. ASSUME ReadFile \in Uttered(M) PROVE FALSE
        <5>1. Len(ReadFile) \in {3, 4}
          BY ONLY <4>2, <4>3
        <5>2. QED BY ONLY <4>1, <5>1
      <4>4. QED BY <4>3
    <3>8. GoodPart(y, M)
      BY <1>4, <3>3, <3>5, <3>6, <3>7 DEF GoodPart
    <3>9. QED BY <2>2, <3>2, <3>4, <3>8
  <2>3. QED BY <2>1, <2>2 DEF Adapted
<1>5. \A i \in 1..Len(r) : GoodPart(r[i], M)
  BY <1>1, <1>2, <1>3, <1>4
<1>6. QED BY <1>3, <1>5 DEF GoodParts

\* A written call names a tool that was offered.
LEMMA WrittenIsOwn ==
    ASSUME NEW M, NEW tool, WrittenCall(tool, Tools) # {}, NEW id
    PROVE  GoodParts(<<Part("call", id, CHOOSE t \in WrittenCall(tool, Tools) : TRUE)>>, M)
<1>1. PICK chosen : chosen = CHOOSE t \in WrittenCall(tool, Tools) : TRUE
  OBVIOUS
<1>2. chosen \in WrittenCall(tool, Tools)
  BY <1>1
<1>3. WrittenCall(tool, Tools) \subseteq Tools \cup {Shell}
  BY DEF WrittenCall
<1>4. chosen \in Own(M)
  BY <1>2, <1>3 DEF Own
<1>5. GoodPart(Part("call", id, chosen), M)
  BY <1>4 DEF GoodPart, Part
<1>6. QED BY <1>1, <1>5, OneGoodPart

\* The calls that the kernel returns.
LEMMA KernelCallsGood ==
    ASSUME NEW M, NEW a, GoodAnswer(a, M), NEW passed, NEW fresh
    PROVE  GoodParts(KernelCalls(a, passed, Offered, fresh), M)
<1>1. CASE Written(a, passed, Tools) # {}
  <2>1. Written(a, passed, Tools) = WrittenCall(a.markup, Tools)
    BY <1>1 DEF Written
  <2>2. GoodParts(<<Part("call", fresh, CHOOSE t \in WrittenCall(a.markup, Tools) : TRUE)>>, M)
    BY <1>1, <2>1, WrittenIsOwn
  <2>3. KernelCalls(a, passed, Offered, fresh) =
           <<Part("call", fresh, CHOOSE t \in WrittenCall(a.markup, Tools) : TRUE)>>
    BY <1>1, <2>1 DEF KernelCalls, Offered
  <2>4. QED BY <2>2, <2>3
<1>2. CASE Written(a, passed, Tools) = {}
  BY <1>2 DEF KernelCalls, Offered, GoodAnswer
<1>3. QED BY <1>1, <1>2

\* The answer on the direct path, and what is told and kept of an answer.
LEMMA PassedThroughGood ==
    ASSUME NEW M, NEW c, NEW a, GoodAnswer(a, M)
    PROVE  GoodAnswer(PassedThrough(c, a), M)
<1>1. PICK fresh : fresh = <<"told", c, Len(said[c]) + 2>>
  OBVIOUS
<1>2. CASE PassedThrough(c, a) = a
  BY <1>2
<1>3. CASE /\ WrittenCall(a.markup, Tools) # {}
           /\ PassedThrough(c, a) =
                Answer(NoText, NoBody,
                       <<Part("call", fresh, CHOOSE t \in WrittenCall(a.markup, Tools) : TRUE)>>)
  <2>1. PICK calls : calls = <<Part("call", fresh, CHOOSE t \in WrittenCall(a.markup, Tools) : TRUE)>>
    OBVIOUS
  <2>2. GoodParts(calls, M)
    BY <1>3, <2>1, WrittenIsOwn
  <2>3. NoText \in Own(M)
    BY OwnIsShown DEF NoText
  <2>4. PassedThrough(c, a) = Answer(NoText, NoBody, calls)
    BY <1>3, <2>1
  <2>5. QED BY <2>2, <2>3, <2>4 DEF GoodAnswer, Answer
<1>4. PassedThrough(c, a) = IF api = "messages" THEN a ELSE DirectAnswer(a, Tools, fresh)
  BY <1>1 DEF PassedThrough, Offered
<1>5. QED BY <1>2, <1>3, <1>4 DEF DirectAnswer

\* The calls of an answer on the direct path.
LEMMA DirectCallsGood ==
    ASSUME NEW M, NEW a, GoodAnswer(a, M)
    PROVE  GoodParts(DirectCalls(a), M)
<1>1. PICK r : r = [i \in 1..Len(a.calls) |-> Adapted(a.calls[i], Offered)]
  OBVIOUS
<1>2. GoodParts(a.calls, M)
  BY DEF GoodAnswer
<1>3. GoodParts(r, M)
  BY <1>1, <1>2, AdaptedGood
<1>4. QED BY <1>1, <1>3 DEF DirectCalls, Map

\* What is told and kept on the direct path.
LEMMA DirectPartsGood ==
    ASSUME NEW M, NEW a, GoodAnswer(a, M)
    PROVE  GoodParts(DirectParts(a), M) /\ GoodParts(KeptDirectly(a), M)
<1>1. GoodParts(DirectCalls(a), M) /\ GoodParts(a.calls, M) /\ GoodParts(Texts(a.text), M)
  BY DirectCallsGood, TextsGood DEF GoodAnswer
<1>2. GoodParts(KernelParts(a, DirectCalls(a)), M)
  BY <1>1, KernelPartsGood
<1>3. GoodParts(Texts(a.text) \o a.calls, M)
  BY <1>1, GoodPartsJoined
<1>4. QED BY <1>1, <1>2, <1>3 DEF DirectParts, KeptDirectly

\* What is told and kept of an answer of the kernel.
LEMMA ByKernelGood ==
    ASSUME NEW M, NEW c, NEW a, GoodAnswer(a, M), NEW passed
    PROVE  GoodParts(ToldByKernel(c, a, passed), M) /\ GoodParts(KeptParts(c, a, passed), M)
<1>1. PICK fresh : fresh = <<"told", c, Len(said[c]) + 2>>
  OBVIOUS
<1>2. PICK again : again = <<"kept", c, Len(said[c]) + 2>>
  OBVIOUS
<1>3. PICK calls : calls = IF api = "messages" THEN a.calls ELSE KernelCalls(a, passed, Offered, fresh)
  OBVIOUS
<1>4. PICK stored : stored = KernelCalls(a, passed, Offered, again)
  OBVIOUS
<1>5. GoodParts(calls, M) /\ GoodParts(stored, M)
  BY <1>3, <1>4, KernelCallsGood DEF GoodAnswer
<1>6. PICK adapted : adapted = [i \in 1..Len(calls) |-> Adapted(calls[i], Offered)]
  OBVIOUS
<1>7. PICK kept : kept = [i \in 1..Len(stored) |-> Adapted(stored[i], Offered)]
  OBVIOUS
<1>8. GoodParts(adapted, M)
  BY <1>5, <1>6, AdaptedGood
<1>9. GoodParts(kept, M)
  BY <1>5, <1>7, AdaptedGood
<1>10. /\ GoodParts(KernelParts(a, calls), M) /\ GoodParts(KernelParts(a, adapted), M)
       /\ GoodParts(KernelParts(a, kept), M)
  BY <1>5, <1>8, <1>9, KernelPartsGood
<1>11. ToldByKernel(c, a, passed) = KernelParts(a, IF api = "responses" THEN adapted ELSE calls)
  BY <1>1, <1>3, <1>6 DEF ToldByKernel, Map
<1>12. KeptParts(c, a, passed) = KernelParts(a, kept)
  BY <1>2, <1>4, <1>7 DEF KeptParts, Map
<1>13. QED BY <1>10, <1>11, <1>12

\* What is told and kept of any answer.
LEMMA ToldGood ==
    ASSUME NEW M, NEW c, NEW a, GoodAnswer(a, M), NEW passed
    PROVE  GoodParts(Told(c, a, passed), M) /\ GoodParts(Kept(c, a, passed), M)
<1>1. GoodAnswer(PassedThrough(c, a), M)
  BY PassedThroughGood
<1>2. /\ GoodParts(DirectParts(PassedThrough(c, a)), M)
      /\ GoodParts(KeptDirectly(PassedThrough(c, a)), M)
  BY <1>1, DirectPartsGood
<1>3. QED BY <1>2, ByKernelGood DEF Told, Kept

\* The answer becomes the last message of what is kept.
LEMMA StorableAppended ==
    ASSUME NEW M, NEW ms, Storable(ms, M), NEW parts, GoodParts(parts, M)
    PROVE  Storable(Append(ms, AssistantTurn(parts)), M)
<1>1. PICK m : m = AssistantTurn(parts)
  OBVIOUS
<1>2. KeptMessage(m, M)
  <2>1. GoodParts(Those(parts, {"text"}), M)
    BY GoodThose
  <2>2. /\ GoodParts(Those(parts, {"call"}), M)
        /\ \A i \in 1..Len(Those(parts, {"call"})) : Those(parts, {"call"})[i].kind = "call"
    BY CallsAreCalls
  <2>3. PICK content : content = Those(parts, {"text"})
    OBVIOUS
  <2>4. PICK calls : calls = Those(parts, {"call"})
    OBVIOUS
  <2>5. KeptMessage(Message("assistant", content, calls, NoId), M)
    BY <2>1, <2>2, <2>3, <2>4, WithCallsIsKept
  <2>6. QED BY <1>1, <2>3, <2>4, <2>5 DEF AssistantTurn
<1>3. IsSeq(ms) /\ \A i \in 1..Len(ms) : KeptMessage(ms[i], M)
  BY StorableMessages
<1>4. IsSeq(Append(ms, m)) /\ \A i \in 1..Len(Append(ms, m)) : KeptMessage(Append(ms, m)[i], M)
  BY <1>2, <1>3, Appended
<1>5. QED BY <1>1, <1>4, StorableMessages

\* The dialogue with one more answer.
LEMMA TalkGood ==
    ASSUME NEW c \in Chats, NEW told, NEW M,
           GoodTurns(said[c], M), GoodParts(call[c].parts, M), GoodParts(told, M)
    PROVE  GoodTurns(Talk(c, told), M)
<1>1. PICK first : first = Turn("user", call[c].parts)
  OBVIOUS
<1>2. PICK second : second = Turn("assistant", told)
  OBVIOUS
<1>3. GoodTurn(first, M) /\ GoodTurn(second, M)
  BY <1>1, <1>2 DEF GoodTurn, Turn
<1>4. PICK new : new = <<first, second>>
  OBVIOUS
<1>5. IsSeq(new) /\ \A i \in 1..Len(new) : GoodTurn(new[i], M)
  <2>1. IsSeq(new) /\ Len(new) = 2
    BY <1>4, PairSeq
  <2>2. new[1] = first /\ new[2] = second
    BY <1>4
  <2>3. \A i \in 1..Len(new) : i = 1 \/ i = 2
    BY <2>1
  <2>4. QED BY <1>3, <2>1, <2>2, <2>3
<1>6. PICK old : old = said[c]
  OBVIOUS
<1>7. IsSeq(old) /\ \A i \in 1..Len(old) : GoodTurn(old[i], M)
  BY <1>6 DEF GoodTurns
<1>8. IsSeq(old \o new)
  BY <1>5, <1>7, JoinedFrom
<1>9. ASSUME NEW k \in 1..Len(old \o new) PROVE GoodTurn((old \o new)[k], M)
  <2>1. CASE \E i \in 1..Len(old) : (old \o new)[k] = old[i]
    BY <1>7, <2>1
  <2>2. CASE \E i \in 1..Len(new) : (old \o new)[k] = new[i]
    BY <1>5, <2>2
  <2>3. QED BY <1>5, <1>7, <2>1, <2>2, JoinedFrom
<1>10. GoodTurns(old \o new, M)
  BY <1>8, <1>9 DEF GoodTurns
<1>11. QED BY <1>1, <1>2, <1>4, <1>6, <1>10 DEF Talk

\* A client that reads an answer keeps what it said and what it was told.
LEMMA LearnedGood ==
    ASSUME Shape, NEW c \in Chats, NEW told, NEW id, Learn(c, told, id), NEW M,
           GoodTurns(said[c], M), GoodParts(call[c].parts, M), GoodParts(told, M)
    PROVE  GoodTurns(said'[c], M) /\ \A d \in Chats : d # c => said'[d] = said[d]
<1>1. PICK new : new = Talk(c, told)
  OBVIOUS
<1>2. GoodTurns(new, M)
  BY <1>1, TalkGood
<1>3. said' = [said EXCEPT ![c] = new] /\ said = [d \in Chats |-> said[d]]
  BY <1>1 DEF Learn, Shape
<1>4. said'[c] = new /\ \A d \in Chats : d # c => said'[d] = said[d]
  BY <1>3
<1>5. QED BY <1>2, <1>4

\* What a request puts into the store.
LEMMA ToPutGood ==
    ASSUME NEW c \in Chats, NEW M, GoodTalk(said[c], call[c], c, M)
    PROVE  GoodEntry(ToPut(c), M)
<1>1. GoodTurns(Talk(c, call[c].told), M)
  BY TalkGood DEF GoodTalk
<1>2. ToPut(c).turns = Talk(c, call[c].told) /\ ToPut(c).messages = call[c].conversation
  BY DEF ToPut, Response
<1>3. QED BY <1>1, <1>2 DEF GoodTalk, GoodEntry

\* An answer is told to its client or kept with its conversation.
LEMMA AnswerBodies ==
    ASSUME Shape, NamesInv, BodiesInv, NEW c \in Chats, AnswerCall(c)
    PROVE  BodiesInv'
<1>1. /\ UNCHANGED <<kv, memory, tenant>> /\ call[c].phase = "asked"
      /\ \E a \in Answers(c), passed \in BOOLEAN :
            \/ KeepsAnswer(c, Told(c, a, passed), Continued(c, a, passed))
            \/ TellsAnswer(c, Told(c, a, passed))
  BY AnswerKeepsOrTells DEF store, setup
<1>2. PICK a \in Answers(c), passed \in BOOLEAN :
         \/ KeepsAnswer(c, Told(c, a, passed), Continued(c, a, passed))
         \/ TellsAnswer(c, Told(c, a, passed))
  BY <1>1
<1>3. PICK M : M = Members(tenant[c])
  OBVIOUS
<1>4. c \in M /\ GoodTalk(said[c], call[c], c, M) /\ GoodTurns(said[c], M)
  BY <1>3, ItsMembers
<1>5. GoodAnswer(a, M)
  BY <1>4, LengthsAreNat, AnswersGood
<1>6. PICK told : told = Told(c, a, passed)
  OBVIOUS
<1>7. PICK conversation : conversation = Continued(c, a, passed)
  OBVIOUS
<1>8. GoodParts(told, M) /\ Storable(conversation, M)
  BY <1>4, <1>5, <1>6, <1>7, ToldGood, StorableAppended DEF Continued, GoodTalk
<1>9. GoodEntries(kv)' /\ GoodEntries(memory)'
  BY <1>1, EntriesKept
<1>10. CASE KeepsAnswer(c, told, conversation)
  <2>1. /\ UNCHANGED <<said, parent>>
        /\ \A d \in Chats : d # c => call'[d] = call[d]
        /\ call'[c] = [phase |-> IF hasKv THEN "kv" ELSE "memory", id |-> call[c].id,
                       parts |-> call[c].parts, direct |-> call[c].direct, sent |-> <<>>,
                       prompt |-> call[c].prompt, asText |-> call[c].asText,
                       conversation |-> conversation, told |-> told]
    BY <1>10, KeepsAnswerParts
  <2>2. /\ call'[c].parts = call[c].parts /\ call'[c].told = told
        /\ call'[c].conversation = conversation /\ call'[c].sent = <<>>
        /\ call'[c].phase # "asked"
    BY <2>1
  <2>3. GoodSent(<<>>, M)
    BY EmptyIsSeq DEF GoodSent
  <2>4. GoodTalk(said'[c], call'[c], c, M)
    BY <1>4, <1>8, <2>1, <2>2, <2>3 DEF GoodTalk
  <2>5. QED BY <1>1, <1>3, <1>9, <2>1, <2>4, OnlyOneChanges
<1>11. CASE TellsAnswer(c, told)
  <2>1. Learn(c, told, NoId) /\ call' = [call EXCEPT ![c] = NoCall]
    BY <1>11 DEF TellsAnswer
  <2>2. GoodTurns(said'[c], M) /\ \A d \in Chats : d # c => said'[d] = said[d]
    BY <1>4, <1>8, <2>1, LearnedGood DEF GoodTalk
  <2>3. call'[c] = NoCall /\ \A d \in Chats : d # c => call'[d] = call[d]
    BY <2>1 DEF Shape
  <2>4. GoodTalk(said'[c], call'[c], c, M)
    BY <2>2, <2>3, NothingAsked
  <2>5. QED BY <1>1, <1>3, <1>9, <2>2, <2>3, <2>4, OnlyOneChanges
<1>12. QED BY <1>2, <1>6, <1>7, <1>10, <1>11

\* What is stored belongs to the tenant whose name its key begins with.
LEMMA PutGood ==
    ASSUME NEW s, GoodEntries(s), NEW key, NEW r, GoodEntry(r, Members(key[1]))
    PROVE  GoodEntries(Put(s, key, r))
<1>1. PICK new : new = Put(s, key, r)
  OBVIOUS
<1>2. DOMAIN new = DOMAIN s \cup {key} /\ new[key] = r
      /\ \A k \in DOMAIN s : k # key => new[k] = s[k]
  BY <1>1 DEF Put
<1>3. \A k \in DOMAIN new : GoodEntry(new[k], Members(k[1]))
  BY <1>2 DEF GoodEntries
<1>4. QED BY <1>1, <1>3 DEF GoodEntries

\* A store from which something is deleted.
LEMMA DropGood ==
    ASSUME NEW s, GoodEntries(s), NEW key
    PROVE  GoodEntries(Drop(s, key))
<1>1. PICK r : r = Drop(s, key)
  OBVIOUS
<1>2. DOMAIN r = DOMAIN s \ {key} /\ \A k \in DOMAIN r : r[k] = s[k]
  BY <1>1 DEF Drop
<1>3. QED BY <1>1, <1>2 DEF GoodEntries

\* What is put into SurrealKV belongs to the tenant of its key.
LEMMA PutKvBodies ==
    ASSUME Shape, NamesInv, BodiesInv, NEW c \in Chats, PutKv(c)
    PROVE  BodiesInv'
<1>1. PICK key, r : key = KvKey(tenant[c], call[c].id) /\ r = ToPut(c)
  OBVIOUS
<1>2. /\ UNCHANGED <<said, memory, tenant>>
      /\ kv' = Put(kv, key, r)
      /\ call' = [call EXCEPT ![c].phase = "memory"]
  BY <1>1 DEF PutKv, setup
<1>3. PICK M : M = Members(tenant[c])
  OBVIOUS
<1>4. GoodTalk(said[c], call[c], c, M)
  BY <1>3, ItsMembers
<1>5. GoodEntry(r, Members(key[1]))
  <2>1. key[1] = tenant[c]
    BY <1>1 DEF KvKey
  <2>2. QED BY <1>1, <1>3, <1>4, <2>1, ToPutGood
<1>6. GoodEntries(kv') /\ GoodEntries(memory')
  BY <1>2, <1>5, PutGood DEF BodiesInv
<1>7. GoodEntries(kv)' /\ GoodEntries(memory)'
  BY <1>2, <1>6 DEF GoodEntries, Members
<1>8. IsCall(call[c]) /\ call = [d \in Chats |-> call[d]]
  BY DEF Shape
<1>9. call'[c] = [call[c] EXCEPT !.phase = "memory"] /\ \A d \in Chats : d # c => call'[d] = call[d]
  BY <1>2, <1>8
<1>10. /\ call'[c].parts = call[c].parts /\ call'[c].told = call[c].told
       /\ call'[c].conversation = call[c].conversation /\ call'[c].sent = call[c].sent
       /\ call'[c].phase = "memory"
  BY <1>8, <1>9 DEF IsCall
<1>11. GoodTalk(said'[c], call'[c], c, M)
  BY <1>2, <1>4, <1>10 DEF GoodTalk
<1>12. QED BY <1>2, <1>3, <1>7, <1>9, <1>11, OnlyOneChanges

\* And so does what is put into memory, as no id that is put has a colon.
LEMMA PutMemoryBodies ==
    ASSUME Shape, FreshIds, NamesInv, BodiesInv, NEW c \in Chats, PutMemory(c)
    PROVE  BodiesInv'
<1>1. PICK key, r : key = MemoryKey(tenant[c], call[c].id) /\ r = ToPut(c)
  OBVIOUS
<1>2. /\ UNCHANGED <<kv, tenant>>
      /\ memory' = Put(memory, key, r)
      /\ Learn(c, call[c].told, call[c].id)
      /\ call' = [call EXCEPT ![c] = NoCall] /\ call[c].phase = "memory"
  BY <1>1 DEF PutMemory, setup
<1>3. PICK M : M = Members(tenant[c])
  OBVIOUS
<1>4. GoodTalk(said[c], call[c], c, M)
  BY <1>3, ItsMembers
<1>5. GoodEntry(r, Members(key[1]))
  <2>1. call[c].id[1] = <<>>
    BY <1>2 DEF FreshIds, FreshId
  <2>2. tenant[c] \in Seq(STRING)
    BY ChatsAssumption DEF NamesInv
  <2>3. tenant[c] \o <<>> = tenant[c]
    BY <2>2
  <2>4. key[1] = tenant[c]
    BY <1>1, <2>1, <2>3 DEF MemoryKey
  <2>5. QED BY <1>1, <1>3, <1>4, <2>4, ToPutGood
<1>6. GoodEntries(kv') /\ GoodEntries(memory')
  BY <1>2, <1>5, PutGood DEF BodiesInv
<1>7. GoodEntries(kv)' /\ GoodEntries(memory)'
  BY <1>2, <1>6 DEF GoodEntries, Members
<1>8. GoodTurns(said'[c], M) /\ \A d \in Chats : d # c => said'[d] = said[d]
  BY <1>2, <1>4, LearnedGood DEF GoodTalk
<1>9. call'[c] = NoCall /\ \A d \in Chats : d # c => call'[d] = call[d]
  BY <1>2 DEF Shape
<1>10. GoodTalk(said'[c], call'[c], c, M)
  BY <1>8, <1>9, NothingAsked
<1>11. QED BY <1>2, <1>3, <1>7, <1>8, <1>9, <1>10, OnlyOneChanges

\* A client that learns an id reads what is found under it.
LEMMA AdoptBodies ==
    ASSUME Shape, NamesInv, BodiesInv, NEW c \in Chats, NEW d \in Chats, Adopt(c, d)
    PROVE  BodiesInv'
<1>1. PICK id : id[1] \in Seq(STRING) /\ said' = [said EXCEPT ![c] = Get(tenant[c], id).turns]
  <2>1. PICK p \in IdPrefixes :
           said' = [said EXCEPT ![c] = Get(tenant[c], <<p, parent[d][2]>>).turns]
    BY DEF Adopt
  <2>2. <<p, parent[d][2]>>[1] = p /\ p \in Seq(STRING)
    BY ChatsAssumption
  <2>3. QED BY <2>1, <2>2
<1>2. UNCHANGED <<call, kv, memory, tenant>> /\ call[c] = NoCall
  BY DEF Adopt, setup, store
<1>3. PICK M : M = Members(tenant[c])
  OBVIOUS
<1>4. PICK turns : turns = Get(tenant[c], id).turns
  OBVIOUS
<1>5. said'[c] = turns /\ \A e \in Chats : e # c => said'[e] = said[e]
  BY <1>1, <1>4 DEF Shape
<1>6. GoodTurns(turns, M)
  BY <1>1, <1>3, <1>4, StoredIsGood DEF BodiesInv, GoodEntry
<1>7. GoodTalk(said'[c], call'[c], c, M)
  BY <1>2, <1>5, <1>6, NothingAsked
<1>8. GoodEntries(kv)' /\ GoodEntries(memory)'
  BY <1>2, EntriesKept
<1>9. QED BY <1>2, <1>3, <1>5, <1>7, <1>8, OnlyOneChanges

\* A step that leaves the conversations alone and puts nothing into the store.
LEMMA StoreShrinks ==
    ASSUME BodiesInv, UNCHANGED <<said, call, tenant>>,
           GoodEntries(kv'), GoodEntries(memory')
    PROVE  BodiesInv'
BY DEF BodiesInv, GoodEntries, Members

\* Deletions put nothing anywhere.
LEMMA DeleteKvBodies ==
    ASSUME BodiesInv, DeleteKv
    PROVE  BodiesInv'
<1>1. UNCHANGED <<said, call, memory, tenant>> /\ \E key : kv' = Drop(kv, key)
  BY DEF DeleteKv, setup, clients
<1>2. GoodEntries(kv') /\ GoodEntries(memory')
  BY <1>1, DropGood DEF BodiesInv
<1>3. QED BY <1>1, <1>2, StoreShrinks

\* Nor do they in memory.
LEMMA DeleteMemoryBodies ==
    ASSUME BodiesInv, DeleteMemory
    PROVE  BodiesInv'
<1>1. UNCHANGED <<said, call, kv, tenant>> /\ memory' = Drop(memory, InMemory(deleting))
  BY DEF DeleteMemory, setup, clients
<1>2. GoodEntries(kv') /\ GoodEntries(memory')
  BY <1>1, DropGood DEF BodiesInv
<1>3. QED BY <1>1, <1>2, StoreShrinks

\* A restart forgets the requests and the memory.
LEMMA RestartBodies ==
    ASSUME NamesInv, BodiesInv, Restart
    PROVE  BodiesInv'
<1>1. /\ UNCHANGED <<said, kv, tenant>>
      /\ call' = [c \in Chats |-> NoCall] /\ DOMAIN memory' = {}
  BY DEF Restart, setup
<1>2. GoodEntries(kv)' /\ GoodEntries(memory)'
  BY <1>1 DEF BodiesInv, GoodEntries, Members
<1>3. ASSUME NEW c \in Chats PROVE GoodTalk(said'[c], call'[c], c, Members(tenant[c]))
  <2>1. GoodTurns(said[c], Members(tenant[c]))
    BY ItsMembers
  <2>2. QED BY <1>1, <2>1, NothingAsked
<1>4. \A t : Members(t)' = Members(t)
  BY <1>1 DEF Members
<1>5. QED BY <1>1, <1>2, <1>3, <1>4 DEF BodiesInv

\* A name stays what it is, and nobody holds an id that could not be written.
LEMMA NamesStay ==
    ASSUME IdsInv, NamesInv, [TalkNext]_talkVars
    PROVE  NamesInv'
<1>1. tenant' = tenant
  <2>1. CASE TalkNext
    <3>1. ASSUME NEW c \in Chats, Ask(c) \/ Fail(c) \/ PutKv(c) \/ PutMemory(c) PROVE tenant' = tenant
      BY <3>1 DEF Ask, Fail, PutKv, PutMemory, setup
    <3>2. ASSUME NEW c \in Chats, AnswerCall(c) PROVE tenant' = tenant
      BY <3>2, AnswerKeepsOrTells DEF setup
    <3>3. ASSUME NEW c, NEW d, Adopt(c, d) PROVE tenant' = tenant
      BY <3>3 DEF Adopt, setup
    <3>4. ASSUME DeleteKv \/ DeleteMemory \/ Restart PROVE tenant' = tenant
      BY <3>4 DEF DeleteKv, DeleteMemory, Restart, setup
    <3>5. QED BY <2>1, <3>1, <3>2, <3>3, <3>4 DEF TalkNext
  <2>2. CASE UNCHANGED talkVars
    BY <2>2 DEF talkVars, setup
  <2>3. QED BY <2>1, <2>2
<1>2. parent = [c \in Chats |-> parent[c]]
  BY DEF IdsInv, Shape
<1>3. ASSUME NEW c \in Chats, NEW id, parent' = [parent EXCEPT ![c] = id],
             id = NoId \/ id[1] \in Seq(STRING)
      PROVE  NamesInv'
  BY <1>1, <1>2, <1>3 DEF NamesInv
<1>4. ASSUME parent' = parent PROVE NamesInv'
  BY <1>1, <1>4 DEF NamesInv
<1>5. CASE TalkNext
  <2>1. ASSUME NEW c \in Chats, Ask(c) \/ Fail(c) \/ PutKv(c) PROVE NamesInv'
    BY <1>4, <2>1 DEF Ask, Fail, PutKv
  <2>2. ASSUME NEW c \in Chats, AnswerCall(c) PROVE NamesInv'
    <3>1. \E told, conversation : KeepsAnswer(c, told, conversation) \/ TellsAnswer(c, told)
      BY <2>2, AnswerKeepsOrTells
    <3>2. parent' = parent \/ parent' = [parent EXCEPT ![c] = NoId]
      BY <3>1 DEF KeepsAnswer, TellsAnswer, Learn
    <3>3. QED BY <1>3, <1>4, <3>2
  <2>3. ASSUME NEW c \in Chats, PutMemory(c) PROVE NamesInv'
    <3>1. parent' = [parent EXCEPT ![c] = call[c].id] /\ call[c].phase = "memory"
      BY <2>3 DEF PutMemory, Learn
    <3>2. call[c].id[1] = <<>> /\ <<>> \in Seq(STRING)
      BY <3>1 DEF IdsInv, FreshIds, FreshId
    <3>3. QED BY <1>3, <3>1, <3>2
  <2>4. ASSUME NEW c \in Chats, NEW d \in Chats, Adopt(c, d) PROVE NamesInv'
    <3>1. PICK p \in IdPrefixes : parent' = [parent EXCEPT ![c] = <<p, parent[d][2]>>]
      BY <2>4 DEF Adopt
    <3>2. <<p, parent[d][2]>>[1] = p /\ p \in Seq(STRING)
      BY ChatsAssumption
    <3>3. QED BY <1>3, <3>1, <3>2
  <2>5. ASSUME DeleteKv \/ DeleteMemory \/ Restart PROVE NamesInv'
    BY <1>4, <2>5 DEF DeleteKv, DeleteMemory, Restart, clients
  <2>6. QED BY <1>5, <2>1, <2>2, <2>3, <2>4, <2>5 DEF TalkNext
<1>6. CASE UNCHANGED talkVars
  BY <1>4, <1>6 DEF talkVars, clients
<1>7. QED BY <1>5, <1>6

\* What there is in a conversation, a request or a stored response comes from its
\* own tenant, or from one whose name goes on behind that of its own, in any state
\* that clients, deletions and restarts lead to.
THEOREM BodiesInvariance == TalkSpec => [](NamesInv /\ BodiesInv)
<1>1. TalkInit => NamesInv /\ BodiesInv
  <2> SUFFICES ASSUME TalkInit PROVE NamesInv /\ BodiesInv
    OBVIOUS
  <2>1. /\ \A c \in Chats : said[c] = <<>> /\ call[c] = NoCall
        /\ DOMAIN kv = {} /\ DOMAIN memory = {}
    BY DEF TalkInit
  <2>2. \A M : GoodTurns(<<>>, M)
    BY EmptyIsSeq DEF GoodTurns
  <2>3. \A c \in Chats : GoodTalk(said[c], call[c], c, Members(tenant[c]))
    BY <2>1, <2>2, NothingAsked
  <2>4. NamesInv
    BY DEF TalkInit, NamesInv
  <2>5. QED BY <2>1, <2>3, <2>4 DEF BodiesInv, GoodEntries
<1>2. IdsInv /\ NamesInv /\ BodiesInv /\ [TalkNext]_talkVars => NamesInv' /\ BodiesInv'
  <2> SUFFICES ASSUME IdsInv, NamesInv, BodiesInv, [TalkNext]_talkVars
               PROVE  NamesInv' /\ BodiesInv'
    OBVIOUS
  <2>1. Shape /\ FreshIds
    BY DEF IdsInv
  <2>2. CASE TalkNext
    <3>1. BodiesInv'
      BY <2>1, <2>2, AskBodies, FailBodies, AnswerBodies, PutKvBodies, PutMemoryBodies,
         AdoptBodies, DeleteKvBodies, DeleteMemoryBodies, RestartBodies DEF TalkNext
    <3>2. QED BY <3>1, NamesStay
  <2>3. CASE UNCHANGED talkVars
    <3>1. BodiesInv'
      BY <2>3 DEF talkVars, setup, clients, store, BodiesInv, GoodEntries, Members
    <3>2. QED BY <3>1, NamesStay
  <2>4. QED BY <2>2, <2>3
<1>3. QED BY <1>1, <1>2, IdsInvariance, PTL DEF TalkSpec

\* TenantsApart: what a request shows its provider has been said by clients of the
\* same tenant or of one whose name is that of the tenant, a colon and more,
\* whatever response it continues and whatever is written before its id.
THEOREM TenantsStayApart == TalkSpec => []TenantsApart
<1>1. NamesInv /\ BodiesInv => TenantsApart
  <2> SUFFICES ASSUME NamesInv, BodiesInv, NEW c \in Chats, NEW d \in HeardWith(c)
               PROVE  IsPrefix(tenant[c], tenant[d])
    BY DEF TenantsApart
  <2>1. PICK i \in DOMAIN Read(call[c].sent) : d \in SpokenBy(Read(call[c].sent)[i].body)
    BY DEF HeardWith
  <2>2. PICK M : M = Members(tenant[c])
    OBVIOUS
  <2>3. GoodSent(call[c].sent, M)
    BY <2>2, ItsMembers DEF GoodTalk
  <2>4. Read(call[c].sent)[i].body \in OwnShown(M)
    BY <2>3, ReadShown
  <2>5. d \in M
    BY <2>1, <2>4, ShownIsOwn
  <2>6. QED BY <2>2, <2>5 DEF Members
<1>2. QED BY <1>1, BodiesInvariance, PTL

\* TenantsIsolated: where no name of a tenant is that of another, a colon and more,
\* a request shows its provider what clients of its own tenant have said only, as
\* README.md:206 has it.
THEOREM NamesIsolateTenants ==
    ASSUME \A t, u \in Tenants : IsPrefix(t, u) => t = u
    PROVE  TalkSpec => []TenantsIsolated
<1>1. ASSUME NamesInv, BodiesInv, TenantsApart PROVE TenantsIsolated
  <2> SUFFICES ASSUME NEW c \in Chats, NEW d \in HeardWith(c) PROVE tenant[d] = tenant[c]
    BY DEF TenantsIsolated
  <2>1. IsPrefix(tenant[c], tenant[d])
    BY <1>1 DEF TenantsApart
  <2>2. d \in Chats
    <3>1. PICK i \in DOMAIN Read(call[c].sent) : d \in SpokenBy(Read(call[c].sent)[i].body)
      BY DEF HeardWith
    <3>2. PICK M : M = Members(tenant[c])
      OBVIOUS
    <3>3. GoodSent(call[c].sent, M)
      BY <1>1, <3>2, ItsMembers DEF GoodTalk
    <3>4. Read(call[c].sent)[i].body \in OwnShown(M)
      BY <3>3, ReadShown
    <3>5. d \in M
      BY <3>1, <3>4, ShownIsOwn
    <3>6. QED BY <3>2, <3>5 DEF Members
  <2>3. tenant[c] \in Tenants /\ tenant[d] \in Tenants
    BY <1>1, <2>2 DEF NamesInv
  <2>4. QED BY <2>1, <2>3
<1>2. QED BY <1>1, BodiesInvariance, TenantsStayApart, PTL

\* RulesOnce: the instructions of the client are the prompt of every request, once.
THEOREM RulesAreThereOnce == TalkSpec => []RulesOnce
<1>1. NamesInv /\ BodiesInv => RulesOnce
  BY DEF BodiesInv, GoodTalk, RulesOnce
<1>2. QED BY <1>1, BodiesInvariance, PTL

=============================================================================
