------------------------------ MODULE RequestFlow ------------------------------
(***************************************************************************)
(* A request from its arrival to its answer, as it goes through the        *)
(* semaphores that bound the gateway (crates/api-server/src/lib.rs): the   *)
(* slot of a durable job, the permit of its tenant, the weighted slots of  *)
(* OrchestrationAdmission and the permits of ProviderAdmission, always in  *)
(* this order.  The handlers are completions, chat_completions, messages,  *)
(* responses and execute_openai_responses_value (the Responses WebSocket   *)
(* and background jobs).  A streamed orchestration runs in a task of its   *)
(* own that writes heartbeats to a bounded channel                         *)
(* (orchestration_sse_response).  A handler is an async future: when its   *)
(* client goes away it is dropped wherever it stands.                      *)
(*                                                                         *)
(* What a kernel run does inside is AgentKernel, a provider call with its  *)
(* retries ResilientProvider, a job JobRuntime; here a run is the provider *)
(* calls it has under way.  The semaphores are tokio's: first come, first  *)
(* served, and the head of the queue blocks the ones behind it.            *)
(***************************************************************************)
EXTENDS Naturals, Sequences, FiniteSets, FiniteSetsExt, SequencesExt

CONSTANTS Requests,      \* the requests
          Request,       \* [Requests -> [endpoint, direct, stream, tenant, parallel]]
          Nobody,        \* no semaphore
          MaxPerTenant,  \* TENANT_MAX_CONCURRENT_REQUESTS
          JobSlots,      \* MIYA_MAX_CONCURRENT_JOBS
          Limit,         \* slots of the orchestration admission
          PerSlot,       \* parallel_agents_per_slot
          ProviderLimit, \* MIYA_PROVIDER_MAX_CONCURRENT
          ChannelCap,    \* capacity of the channel of a streamed response
          MaxLeaves      \* bound: futures dropped or clients that go away

ASSUME RequestsAssumption == IsFiniteSet(Requests) /\ Nobody \notin Requests
ASSUME ParallelAssumption == \A r \in Requests : Request[r].parallel \in Nat
ASSUME LimitsAssumption ==
    /\ MaxPerTenant \in Nat \ {0} /\ JobSlots \in Nat \ {0} /\ Limit \in Nat \ {0}
    /\ PerSlot \in Nat \ {0} /\ ProviderLimit \in Nat \ {0} /\ ChannelCap \in Nat \ {0}
    /\ MaxLeaves \in Nat

VARIABLES phase,           \* phase[r]: how far the future of the handler is
          semaphores,      \* tenant -> its semaphore, named after the request that made it
          ref,             \* ref[r]: the semaphore that r keeps alive
          queue,           \* queue[s]: the requests that wait for semaphore s, in order of arrival
          calls,           \* calls[r]: [waiting, sending] provider calls
          queued, active,  \* orchestrations_queued, orchestrations_active
          streams,         \* orchestration_streams_active
          task,            \* task[r]: the task that streams the orchestration
          chan,            \* chan[r]: the channel between that task and the body
          client,          \* client[r]: what its client has got so far
          leaves           \* futures dropped and clients gone so far

gauges == <<queued, active, streams>>
stream_vars == <<task, chan, streams>>
tenant_vars == <<semaphores, ref>>
vars == <<phase, semaphores, ref, queue, calls, queued, active, streams, task, chan,
          client, leaves>>

Tenants == {Request[r].tenant : r \in Requests}
Tenant(r) == Request[r].tenant

\* The three ways to an answer.  A request whose effort is direct, but which asks for
\* reasoning, for the state of agents or to spawn them, is not direct here
\* (requires_full_orchestration_before_stream).  completions never takes the direct path: its
\* streamed direct requests use the kernel's stream_root, without admission.
Direct(r) == Request[r].direct /\ Request[r].endpoint # "completions"
RootStream(r) == Request[r].direct /\ Request[r].stream /\ ~Direct(r)
Orchestrated(r) == ~Direct(r) /\ ~RootStream(r)
Background(r) == Request[r].endpoint = "background"
SseTask(r) == Orchestrated(r) /\ Request[r].stream

\* The answer that carries its permits in the response's extensions.
PermitInResponse(r) ==
    \/ RootStream(r)
    \/ Direct(r) /\ (Request[r].stream \/ Request[r].endpoint = "responses")
    \/ Orchestrated(r) /\ ~SseTask(r) /\ Request[r].endpoint = "responses"

Phases == {"new", "job", "start", "tenant", "admitted", "unpolled", "orchestrate", "running",
           "finishing", "provider", "sending", "store", "answered", "head", "body", "done"}

HoldsJob(r) == Background(r) /\ phase[r] \notin {"new", "job", "done"}
HoldsTenant(r) == phase[r] \in {"admitted", "unpolled", "orchestrate", "running", "finishing",
                                "provider", "sending", "store", "head"}

\* Mutant of Weight: the request is divided by the agents of a slot, rounded down.
WeightRoundedDown(r) == Max({1, Min({Request[r].parallel \div PerSlot, Limit})})

\* The slots of a request: its child agents over the agents of one slot,
\* rounded up, at least one and at most all of them.
Weight(r) ==
    LET agents == Max({1, Request[r].parallel})
    IN  Max({1, Min({(agents + PerSlot - 1) \div PerSlot, Limit})})

Running == {r \in Requests : phase[r] = "running"}
UsedSlots == MapThenSumSet(Weight, Running)
Sending == MapThenSumSet(LAMBDA r : calls[r].sending, Requests)

\* The semaphores that requests wait for: of the jobs, of the orchestrations
\* and of the tenants.
Semaphores == {"jobs", "slots"} \cup Requests

TypeOK ==
    /\ phase \in [Requests -> Phases]
    /\ semaphores \in [Tenants -> Requests \cup {Nobody}]
    /\ ref \in [Requests -> Requests \cup {Nobody}]
    /\ queue \in [Semaphores -> Seq(Requests)]
    /\ calls \in [Requests -> [waiting : Nat, sending : Nat]]
    /\ queued \in Nat /\ active \in Nat /\ streams \in Nat
    /\ task \in [Requests -> {"none", "opening", "polling", "result", "ended"}]
    /\ chan \in [Requests -> Seq({"comment", "result"})]
    /\ client \in [Requests -> {"waits", "answered", "gone"}]
    /\ leaves \in 0..MaxLeaves

NoCalls == [waiting |-> 0, sending |-> 0]

Init ==
    /\ phase = [r \in Requests |-> "new"]
    /\ semaphores = [t \in Tenants |-> Nobody]
    /\ ref = [r \in Requests |-> Nobody]
    /\ queue = [s \in Semaphores |-> <<>>]
    /\ calls = [r \in Requests |-> NoCalls]
    /\ queued = 0 /\ active = 0 /\ streams = 0
    /\ task = [r \in Requests |-> "none"]
    /\ chan = [r \in Requests |-> <<>>]
    /\ client = [r \in Requests |-> "waits"]
    /\ leaves = 0

Goto(r, p) == phase' = [phase EXCEPT ![r] = p]
Enqueue(r, s) == queue' = [queue EXCEPT ![s] = Append(@, r)]
Leave(r) == queue' = [s \in Semaphores |-> RemoveFirst(queue[s], r)]
AtHead(r, s) == queue[s] # <<>> /\ Head(queue[s]) = r

\* The strong reference to the tenant's semaphore goes with the permit or with
\* the future that waits for it.
Unref(r) == ref' = [ref EXCEPT ![r] = Nobody]

-----------------------------------------------------------------------------
(* The end of a future: what it holds is dropped with it.                  *)
ReleaseAll(r) ==
    /\ Leave(r) /\ Unref(r)
    /\ calls' = [calls EXCEPT ![r] = NoCalls]
    /\ queued' = queued - (IF phase[r] = "orchestrate" THEN 1 ELSE 0)
    /\ active' = active - (IF phase[r] = "running" THEN 1 ELSE 0)

Dropped(r) == Goto(r, "done") /\ ReleaseAll(r) /\ UNCHANGED semaphores

\* The handler returns: to its client, or to the task that streams it.
End(r) ==
    /\ ReleaseAll(r)
    /\ IF task[r] = "polling"
       THEN Goto(r, "answered") /\ UNCHANGED client
       ELSE Goto(r, "done") /\ client' = [client EXCEPT ![r] = "answered"]
    /\ UNCHANGED <<semaphores, stream_vars, leaves>>

-----------------------------------------------------------------------------
(* Jobs and tenants *)

Arrive(r) ==
    /\ Background(r) /\ phase[r] = "new"
    /\ Goto(r, "job") /\ Enqueue(r, "jobs")
    /\ UNCHANGED <<tenant_vars, calls, queued, active, stream_vars, client, leaves>>

GrantJob(r) ==
    /\ phase[r] = "job"
    /\ AtHead(r, "jobs")
    /\ Cardinality({x \in Requests : HoldsJob(x)}) < JobSlots
    /\ Goto(r, "start") /\ Leave(r)
    /\ UNCHANGED <<tenant_vars, calls, queued, active, stream_vars, client, leaves>>

\* A semaphore lives as long as a permit or a waiting future refers to it.
Alive(s) == s # Nobody /\ \E x \in Requests : ref[x] = s

\* TenantConcurrencyLimiter::acquire, under its mutex: forget the dead
\* semaphores, take the tenant's or make it a new one.
UseSemaphore(r, Kept(_)) ==
    LET kept == [t \in Tenants |-> IF Kept(semaphores[t]) THEN semaphores[t] ELSE Nobody]
        mine == IF kept[Tenant(r)] = Nobody THEN r ELSE kept[Tenant(r)]
    IN  /\ semaphores' = [kept EXCEPT ![Tenant(r)] = mine]
        /\ ref' = [ref EXCEPT ![r] = mine]

\* Mutant of Lookup: a semaphore that nobody waits for is forgotten.
LookupPrunesHeld(r) ==
    /\ phase[r] = (IF Background(r) THEN "start" ELSE "new")
    /\ UseSemaphore(r, LAMBDA s : \E x \in Requests : ref[x] = s /\ phase[x] = "tenant")
    /\ Goto(r, "tenant") /\ Enqueue(r, ref'[r])
    /\ UNCHANGED <<calls, queued, active, stream_vars, client, leaves>>

Lookup(r) ==
    /\ phase[r] = (IF Background(r) THEN "start" ELSE "new")
    /\ UseSemaphore(r, Alive)
    /\ Goto(r, "tenant") /\ Enqueue(r, ref'[r])
    /\ UNCHANGED <<calls, queued, active, stream_vars, client, leaves>>

GrantTenant(r) ==
    /\ phase[r] = "tenant"
    /\ AtHead(r, ref[r])
    /\ Cardinality({x \in Requests : HoldsTenant(x) /\ ref[x] = ref[r]}) < MaxPerTenant
    /\ Goto(r, "admitted") /\ Leave(r)
    /\ UNCHANGED <<tenant_vars, calls, queued, active, stream_vars, client, leaves>>

TenantTimeout(r) == phase[r] = "tenant" /\ End(r)

\* The request is invalid, or its context or previous response cannot be read.
PrepareFails(r) ==
    /\ phase[r] = "admitted" /\ (Direct(r) => Request[r].endpoint = "responses")
    /\ End(r)

-----------------------------------------------------------------------------
(* run_admitted_kernel and OrchestrationAdmission *)
JoinQueue(r) == Goto(r, "orchestrate") /\ Enqueue(r, "slots") /\ queued' = queued + 1

\* A streamed orchestration is handed to its task, which polls it later.
Orchestrate(r) ==
    /\ phase[r] = "admitted" /\ Orchestrated(r)
    /\ IF SseTask(r)
       THEN /\ Goto(r, "unpolled")
            /\ task' = [task EXCEPT ![r] = "opening"] /\ streams' = streams + 1
            /\ UNCHANGED <<queue, queued>>
       ELSE JoinQueue(r) /\ UNCHANGED <<task, streams>>
    /\ UNCHANGED <<tenant_vars, calls, active, chan, client, leaves>>

Poll(r) ==
    /\ phase[r] = "unpolled" /\ task[r] = "polling"
    /\ JoinQueue(r)
    /\ UNCHANGED <<tenant_vars, calls, active, stream_vars, client, leaves>>

GrantSlots(r) ==
    /\ phase[r] = "orchestrate"
    /\ AtHead(r, "slots")
    /\ UsedSlots + Weight(r) <= Limit
    /\ Goto(r, "running") /\ Leave(r)
    /\ queued' = queued - 1 /\ active' = active + 1
    /\ UNCHANGED <<tenant_vars, calls, stream_vars, client, leaves>>

SlotsTimeout(r) == phase[r] = "orchestrate" /\ End(r)

\* The permit of the run is dropped before the handler goes on.
KernelReturns(r) ==
    /\ phase[r] = "running" /\ calls[r].waiting = 0 /\ calls[r].sending = 0
    /\ Goto(r, "finishing") /\ active' = active - 1
    /\ UNCHANGED <<tenant_vars, queue, calls, queued, stream_vars, client, leaves>>

\* A run that fails or reaches its deadline drops the calls still under way.
KernelFails(r) == phase[r] = "running" /\ End(r)

RunEnds(r) == KernelReturns(r) \/ KernelFails(r)

\* record_response and maybe_store_openai_response, one of which may fail.
Report(r) ==
    /\ phase[r] \in {"finishing", "store"}
    /\ \/ End(r)
       \/ /\ PermitInResponse(r)
          /\ Goto(r, "head")
          /\ UNCHANGED <<tenant_vars, queue, calls, queued, active, stream_vars, client, leaves>>

-----------------------------------------------------------------------------
(* Provider calls *)

Counts(r, waiting, sending) ==
    calls' = [calls EXCEPT ![r] = [waiting |-> waiting, sending |-> sending]]

OnlyCalls == UNCHANGED <<phase, tenant_vars, queue, queued, active, stream_vars, client, leaves>>

StartCall(r) ==
    /\ phase[r] = "running"
    /\ calls[r].waiting + calls[r].sending < Max({1, Request[r].parallel})
    /\ Counts(r, calls[r].waiting + 1, calls[r].sending)
    /\ OnlyCalls

\* ProviderAdmission::acquire; who is served first is left open.
GrantCall(r) ==
    /\ calls[r].waiting > 0 /\ Sending < ProviderLimit
    /\ Counts(r, calls[r].waiting - 1, calls[r].sending + 1)
    /\ IF phase[r] = "provider"
       THEN /\ Goto(r, "sending")
            /\ UNCHANGED <<tenant_vars, queue, queued, active, stream_vars, client, leaves>>
       ELSE OnlyCalls

\* An agent's call is answered, fails, or waits too long for its permit.
AgentCallEnds(r) ==
    /\ phase[r] = "running"
    /\ \/ /\ calls[r].sending > 0
          /\ Counts(r, calls[r].waiting, calls[r].sending - 1)
       \/ /\ calls[r].waiting > 0
          /\ Counts(r, calls[r].waiting - 1, calls[r].sending)
    /\ OnlyCalls

\* resilient_direct_send, or stream_root for a streamed legacy completion.
CallProvider(r) ==
    /\ phase[r] = "admitted" /\ ~Orchestrated(r)
    /\ Goto(r, "provider") /\ Counts(r, 1, 0)
    /\ UNCHANGED <<tenant_vars, queue, queued, active, stream_vars, client, leaves>>

CallFails(r) == phase[r] \in {"provider", "sending"} /\ End(r)

\* A stream takes its permits along; a complete answer is stored or recorded first.
CallAnswered(r) ==
    /\ phase[r] = "sending"
    /\ IF Request[r].stream /\ Request[r].endpoint # "responses"
       THEN Goto(r, "head") /\ UNCHANGED calls
       ELSE Goto(r, "store") /\ Counts(r, 0, 0)
    /\ UNCHANGED <<tenant_vars, queue, queued, active, stream_vars, client, leaves>>

\* The server writes the head and drops the response's extensions, and with
\* them the permits; only stream_root keeps the provider's in the body.
HeadSent(r) ==
    /\ phase[r] = "head"
    /\ IF RootStream(r)
       THEN /\ Goto(r, "body") /\ Unref(r)
            /\ UNCHANGED <<semaphores, queue, calls, queued, active, stream_vars, client, leaves>>
       ELSE End(r)

BodyRead(r) == phase[r] = "body" /\ End(r)

-----------------------------------------------------------------------------
(* orchestration_sse_response: the task, the channel and the body *)

Gone(r) == client[r] = "gone"

\* The task returns and drops the future if it has not been awaited to its end.
TaskEnds(r) ==
    /\ task' = [task EXCEPT ![r] = "ended"] /\ streams' = streams - 1
    /\ Dropped(r)

Send(r, item) == chan' = [chan EXCEPT ![r] = Append(@, item)]

FirstComment(r) ==
    /\ task[r] = "opening"
    /\ \/ Gone(r) /\ TaskEnds(r) /\ UNCHANGED chan
       \/ /\ ~Gone(r) /\ Send(r, "comment")
          /\ task' = [task EXCEPT ![r] = "polling"]
          /\ UNCHANGED <<phase, tenant_vars, queue, calls, queued, active, streams>>
    /\ UNCHANGED <<client, leaves>>

\* A heartbeat that finds the channel full is skipped.
Tick(r) ==
    /\ task[r] = "polling"
    /\ \/ Gone(r) /\ TaskEnds(r) /\ UNCHANGED chan
       \/ /\ ~Gone(r) /\ Len(chan[r]) < ChannelCap /\ Send(r, "comment")
          /\ UNCHANGED <<phase, tenant_vars, queue, calls, queued, active, task, streams>>
    /\ UNCHANGED <<client, leaves>>

TakeResult(r) ==
    /\ phase[r] = "answered" /\ task[r] = "polling"
    /\ Goto(r, "done") /\ task' = [task EXCEPT ![r] = "result"]
    /\ UNCHANGED <<tenant_vars, queue, calls, queued, active, streams, chan, client, leaves>>

\* Mutant of SendResult: the result is sent like a heartbeat.
SendResultOrSkip(r) ==
    /\ task[r] = "result" /\ TaskEnds(r)
    /\ \/ Len(chan[r]) < ChannelCap /\ Send(r, "result")
       \/ Len(chan[r]) >= ChannelCap /\ UNCHANGED chan
    /\ UNCHANGED <<client, leaves>>

\* Mutant of SendResult: the sender does not learn that the body is gone.
SendResultToTheGone(r) ==
    /\ task[r] = "result" /\ TaskEnds(r)
    /\ Len(chan[r]) < ChannelCap /\ Send(r, "result")
    /\ UNCHANGED <<client, leaves>>

\* tx.send waits for room.
SendResult(r) ==
    /\ task[r] = "result" /\ TaskEnds(r)
    /\ \/ Gone(r) /\ UNCHANGED chan
       \/ ~Gone(r) /\ Len(chan[r]) < ChannelCap /\ Send(r, "result")
    /\ UNCHANGED <<client, leaves>>

ClientReads(r) ==
    /\ ~Gone(r) /\ chan[r] # <<>>
    /\ chan' = [chan EXCEPT ![r] = Tail(@)]
    /\ client' = [client EXCEPT ![r] = IF Head(chan[r]) = "result" THEN "answered" ELSE @]
    /\ UNCHANGED <<phase, tenant_vars, queue, calls, queued, active, task, streams, leaves>>

\* The client goes away, or a background response is cancelled: the server drops
\* the handler at once, but the task of a stream finds out when it next writes.
ClientLeaves(r) ==
    /\ client[r] = "waits" /\ phase[r] # "new" /\ leaves < MaxLeaves
    /\ client' = [client EXCEPT ![r] = "gone"] /\ leaves' = leaves + 1
    /\ IF task[r] = "none"
       THEN Dropped(r)
       ELSE UNCHANGED <<phase, tenant_vars, queue, calls, queued, active>>
    /\ UNCHANGED stream_vars

-----------------------------------------------------------------------------
Progress(r) ==
    \/ GrantJob(r) \/ Lookup(r) \/ GrantTenant(r) \/ Orchestrate(r) \/ Poll(r)
    \/ GrantSlots(r) \/ Report(r)
    \/ GrantCall(r) \/ AgentCallEnds(r) \/ CallProvider(r) \/ CallAnswered(r)
    \/ HeadSent(r) \/ BodyRead(r)
    \/ FirstComment(r) \/ TakeResult(r) \/ SendResult(r)

Step(r) ==
    \/ Progress(r) \/ RunEnds(r) \/ Arrive(r) \/ StartCall(r) \/ Tick(r)
    \/ TenantTimeout(r) \/ PrepareFails(r) \/ SlotsTimeout(r) \/ CallFails(r)
    \/ ClientReads(r) \/ ClientLeaves(r)

Finished ==
    /\ \A r \in Requests : phase[r] = "done" /\ task[r] \in {"none", "ended"}
    /\ UNCHANGED vars

Next == (\E r \in Requests : Step(r)) \/ Finished

Spec == Init /\ [][Next]_vars

\* The futures are polled, calls and runs come to an end (both have timeouts), the
\* ticker fires and a client that stays reads.  No queue timeout is fair:
\* the order of the semaphores alone must let everyone through.
FairSpec ==
    /\ Spec
    /\ \A r \in Requests : /\ WF_vars(Progress(r)) /\ WF_vars(RunEnds(r))
                          /\ WF_vars(Tick(r)) /\ WF_vars(ClientReads(r))

-----------------------------------------------------------------------------
(* Properties *)

\* However semaphores are made, found and forgotten, the requests of a tenant
\* hold no more permits together than the cap (TenantConcurrencyLimiter).
TenantBound ==
    \A t \in Tenants :
        Cardinality({r \in Requests : Tenant(r) = t /\ HoldsTenant(r)}) <= MaxPerTenant

\* Admission keeps orchestrations from queueing for the provider because of
\* each other: with the derived limit, an agent waits for a permit only while a
\* direct call has one, or when its run is the only one
\* (derived_orchestration_limit and the weights of acquire_for_parallelism).
AgentsWaitForNoOtherRun ==
    (/\ Limit * PerSlot <= ProviderLimit
     /\ Sending = ProviderLimit
     /\ \E r \in Running : calls[r].waiting > 0)
    => \/ Cardinality(Running) = 1
       \/ \E r \in Requests \ Running : calls[r].sending > 0

\* The gauges of /metrics are exact however a request ends: admitted, timed
\* out, failed, or dropped in the queue, in its run or in its stream
\* (OrchestrationQueueGaugeGuard, OrchestrationAdmissionPermit).
GaugesAreExact ==
    /\ queued = Cardinality({r \in Requests : phase[r] = "orchestrate"})
    /\ active = Cardinality(Running)
    /\ streams = Cardinality({r \in Requests : task[r] \in {"opening", "polling", "result"}})

\* The books of admission are right: no tenant has more permits than its bound,
\* although semaphores are forgotten and made anew, and the gauges say so.
BooksAreRight == TypeOK /\ TenantBound /\ GaugesAreExact

\* A streamed orchestration whose client stays does not end without its result,
\* heartbeats that filled the channel notwithstanding, and the result is the
\* last thing in the channel.
NoSilentEnd ==
    \A r \in Requests :
        /\ (task[r] = "ended" /\ client[r] = "waits") => (chan[r] # <<>> /\ Last(chan[r]) = "result")
        /\ client[r] = "answered" => chan[r] = <<>>

\* Every request that has arrived comes to its end and gives back what it
\* holds, although it takes up to four semaphores one inside the other and no
\* queue timeout fires, and although a client that has gone is noticed late.
EveryRequestEnds ==
    \A r \in Requests :
        phase[r] # "new" ~> (phase[r] = "done" /\ task[r] \in {"none", "ended"})

=============================================================================
