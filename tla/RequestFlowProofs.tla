--------------------------- MODULE RequestFlowProofs ---------------------------
(***************************************************************************)
(* Proofs about RequestFlow: for any number of requests, tenants and       *)
(* permits and any capacity of the channel, no tenant exceeds its cap, the *)
(* gauges of /metrics are exact, no streamed orchestration ends without    *)
(* its result while its client stays, runs keep within the orchestration   *)
(* slots, and no agent waits for a provider permit of another run.         *)
(*                                                                         *)
(* The inductive invariant IInv adds to those properties what each request *)
(* knows: a request that waits for or holds its tenant's permit refers to  *)
(* the semaphore the table has for that tenant (so that the table never    *)
(* forgets it), the task of a stream is as far as its handler allows, and  *)
(* the channel holds only heartbeats until the result is in it.            *)
(*                                                                         *)
(* Slots and calls are sums over requests.  The lemmas on sums say what a  *)
(* change of one term does, and that a bound on terms bounds the sum.      *)
(***************************************************************************)
EXTENDS RequestFlow, FiniteSetTheorems, SequenceTheorems, TLAPS

\* The phases in which a request refers to the semaphore of its tenant.
NeedsSemaphore == {"tenant", "admitted", "unpolled", "orchestrate", "running", "finishing",
                   "provider", "sending", "store", "head"}

\* Who waits for or holds a permit of its tenant refers to the semaphore that
\* the table has now, which it keeps from being forgotten.
RefsAreCurrent ==
    \A r \in Requests : phase[r] \in NeedsSemaphore =>
        ref[r] # Nobody /\ ref[r] = semaphores[Tenant(r)]

\* The task of a stream follows the handler it polls, and without a task a client
\* is answered by the end of the handler only.
TaskFollows(r) ==
    /\ task[r] \in {"opening", "polling"} => SseTask(r)
    /\ task[r] = "opening" => phase[r] = "unpolled"
    /\ task[r] = "polling" =>
         phase[r] \in {"unpolled", "orchestrate", "running", "finishing", "answered"}
    /\ task[r] \in {"result", "ended"} => phase[r] = "done"
    /\ (task[r] = "none" /\ client[r] = "answered") => phase[r] = "done"

TasksFollow == \A r \in Requests : TaskFollows(r)

\* Heartbeats before the result, nothing after it.
OnlyComments(s) == \A i \in 1..Len(s) : s[i] = "comment"
ResultLast(s) ==
    /\ s # <<>> /\ s[Len(s)] = "result"
    /\ \A i \in 1..(Len(s) - 1) : s[i] = "comment"

\* What the channel holds, and what the client has got from it.
ChannelTells(r) ==
    /\ task[r] \in {"none", "opening"} => chan[r] = <<>>
    /\ task[r] \in {"opening", "polling", "result"} =>
         OnlyComments(chan[r]) /\ client[r] # "answered"
    /\ (task[r] = "ended" /\ client[r] = "waits") => ResultLast(chan[r])
    /\ client[r] = "answered" => chan[r] = <<>>

ChannelsTell == \A r \in Requests : ChannelTells(r)

\* The agents of a request, and the phases in which it has made no call yet.
Agents(r) == Max({1, Request[r].parallel})
BeforeCalls == {"new", "job", "start", "tenant", "admitted", "unpolled", "orchestrate"}

\* A run has no more calls than agents, and makes none before it is admitted.
CallsFit(r) ==
    /\ phase[r] = "running" => calls[r].waiting + calls[r].sending <= Agents(r)
    /\ phase[r] \in BeforeCalls => calls[r] = NoCalls

CallsFollow == \A r \in Requests : CallsFit(r)

SlotsWithinLimit == UsedSlots <= Limit

IInv ==
    /\ TypeOK /\ TasksFollow /\ RefsAreCurrent /\ TenantBound /\ GaugesAreExact /\ ChannelsTell
    /\ CallsFollow /\ SlotsWithinLimit

-----------------------------------------------------------------------------
(* Sequences and finite sets *)

\* A set of natural numbers that is not empty has a least element.
LEMMA Least ==
    ASSUME NEW T \in SUBSET Nat, T # {}
    PROVE  \E x \in T : \A y \in T : x <= y
<1>1. PICK x \in T : \A y \in T : <<y, x>> \notin OpToRel(<, Nat)
  BY NatLessThanWellFounded, WFMin
<1>2. \A i, j \in Nat : i < j => <<i, j>> \in OpToRel(<, Nat)
  BY DEF OpToRel
<1>3. ASSUME NEW y \in T PROVE x <= y
  <2>1. x \in Nat /\ y \in Nat  OBVIOUS
  <2>2. ~(y < x)  BY <1>1, <1>2, <2>1
  <2>3. QED  BY <2>1, <2>2
<1>4. QED  BY <1>3

\* A queue that a request leaves stays a sequence of requests.
LEMMA RemovedStaysTyped ==
    ASSUME NEW S, NEW s \in Seq(S), NEW r
    PROVE  RemoveFirst(s, r) \in Seq(S)
<1>1. Len(s) \in Nat  OBVIOUS
<1>2. CASE \E i \in 1..Len(s) : s[i] = r
  <2> DEFINE I == {i \in 1..Len(s) : s[i] = r}
             k == Min(I)
  <2>1. I \in SUBSET Nat /\ I # {}  BY <1>1, <1>2
  <2>2. k \in I  BY <2>1, Least DEF Min
  <2>3. RemoveFirst(s, r) = RemoveAt(s, k)
    BY <1>2 DEF RemoveFirst, SelectInSeq
  <2>4. k \in 1..Len(s)  BY <2>2
  <2> HIDE DEF k
  <2>5. SubSeq(s, 1, k - 1) \in Seq(S)
    <3>1. \A i \in 1..(k - 1) : s[i] \in S  BY <2>4, <1>1
    <3>2. QED  BY <3>1, <2>4, <1>1, SubSeqProperties
  <2>6. SubSeq(s, k + 1, Len(s)) \in Seq(S)
    <3>1. \A i \in (k + 1)..Len(s) : s[i] \in S  BY <2>4, <1>1
    <3>2. QED  BY <3>1, <2>4, <1>1, SubSeqProperties
  <2>7. QED  BY <2>3, <2>5, <2>6, ConcatProperties DEF RemoveAt
<1>3. CASE ~ \E i \in 1..Len(s) : s[i] = r
  BY <1>3 DEF RemoveFirst
<1>4. QED  BY <1>2, <1>3

\* When one request moves, a set of requests grows or shrinks by that one alone.
LEMMA OneMoves ==
    ASSUME NEW F \in SUBSET Requests, NEW G \in SUBSET Requests, NEW r \in Requests,
           \A x \in Requests \ {r} : x \in G <=> x \in F
    PROVE  /\ Cardinality(F) \in Nat /\ Cardinality(G) \in Nat
           /\ Cardinality(G) = Cardinality(F) + (IF r \in G THEN 1 ELSE 0)
                                              - (IF r \in F THEN 1 ELSE 0)
<1>1. IsFiniteSet(F) /\ Cardinality(F) \in Nat /\ Cardinality(G) \in Nat
  BY FS_Subset, FS_CardinalityType, RequestsAssumption
<1>2. CASE r \in G
  <2>1. G = F \cup {r}
    BY <1>2
  <2>2. Cardinality(G) = IF r \in F THEN Cardinality(F) ELSE Cardinality(F) + 1
    BY <1>1, <2>1, FS_AddElement
  <2>3. QED  BY <1>1, <1>2, <2>2
<1>3. CASE r \notin G
  <2>1. G = F \ {r}
    BY <1>3
  <2>2. Cardinality(G) = IF r \in F THEN Cardinality(F) - 1 ELSE Cardinality(F)
    BY <1>1, <2>1, FS_RemoveElement
  <2>3. QED  BY <1>1, <1>3, <2>2
<1>4. QED  BY <1>2, <1>3

-----------------------------------------------------------------------------
(* What a step does, whichever it is *)

\* The phase of the request that moves, and the gauges that follow it.
Moves(r) ==
    /\ phase' = [phase EXCEPT ![r] = phase'[r]] /\ phase'[r] \in Phases
    /\ queued' = queued + (IF phase'[r] = "orchestrate" THEN 1 ELSE 0)
                        - (IF phase[r] = "orchestrate" THEN 1 ELSE 0)
    /\ active' = active + (IF phase'[r] = "running" THEN 1 ELSE 0)
                        - (IF phase[r] = "running" THEN 1 ELSE 0)

\* A step that leaves the phases and the gauges alone keeps them in step.
LEMMA StandingMoves ==
    ASSUME TypeOK, NEW r \in Requests, UNCHANGED <<phase, queued, active>>
    PROVE  Moves(r)
<1>1. /\ phase \in [Requests -> Phases] /\ queued \in Nat /\ active \in Nat
  BY DEF TypeOK
<1>2. phase' = phase /\ queued' = queued /\ active' = active
  OBVIOUS
<1>3. phase = [phase EXCEPT ![r] = phase[r]] /\ phase[r] \in Phases
  BY <1>1
<1>4. QED  BY ONLY <1>1, <1>2, <1>3 DEF Moves

\* The end of a future takes its guard or permit out of the gauges.
LEMMA EndMoves ==
    ASSUME TypeOK, NEW r \in Requests, End(r) \/ Dropped(r)
    PROVE  Moves(r)
<1>1. /\ phase \in [Requests -> Phases] /\ queued \in Nat /\ active \in Nat
  BY DEF TypeOK
<1>2. /\ queued' = queued - (IF phase[r] = "orchestrate" THEN 1 ELSE 0)
      /\ active' = active - (IF phase[r] = "running" THEN 1 ELSE 0)
  BY DEF End, Dropped, ReleaseAll
<1>3. PICK p \in {"answered", "done"} : phase' = [phase EXCEPT ![r] = p]
  BY DEF End, Dropped, Goto
<1>4. phase'[r] = p /\ p \in Phases /\ p # "orchestrate" /\ p # "running"
  BY <1>1, <1>3 DEF Phases
<1>5. QED  BY ONLY <1>1, <1>2, <1>3, <1>4 DEF Moves

\* Whatever a request does, it changes its own phase only, and the gauges of the
\* orchestrations change with that phase: a guard or a permit is dropped
\* wherever its future is.
LEMMA StepMoves ==
    ASSUME TypeOK, NEW r \in Requests, Step(r)
    PROVE  Moves(r)
<1>1. /\ phase \in [Requests -> Phases] /\ queued \in Nat /\ active \in Nat
  BY DEF TypeOK
<1>2. CASE GrantJob(r)
  BY <1>1, <1>2 DEF GrantJob, Goto, Moves, Phases
<1>3. CASE Lookup(r)
  BY <1>1, <1>3 DEF Lookup, Goto, Moves, Phases
<1>4. CASE GrantTenant(r)
  BY <1>1, <1>4 DEF GrantTenant, Goto, Moves, Phases
<1>5. CASE Orchestrate(r)
  BY <1>1, <1>5 DEF Orchestrate, JoinQueue, Goto, Moves, Phases
<1>6. CASE Poll(r)
  BY <1>1, <1>6 DEF Poll, JoinQueue, Goto, Moves, Phases
<1>7. CASE GrantSlots(r)
  BY <1>1, <1>7 DEF GrantSlots, Goto, Moves, Phases
<1>8. CASE Report(r)
  <2>1. CASE End(r)  BY <2>1, EndMoves
  <2>2. CASE ~End(r)  BY <1>1, <1>8, <2>2 DEF Report, Goto, Moves, Phases
  <2>3. QED  BY <2>1, <2>2
<1>9. CASE GrantCall(r)
  <2>1. CASE phase[r] = "provider"
    BY <1>1, <1>9, <2>1 DEF GrantCall, Goto, Moves, Phases
  <2>2. CASE phase[r] # "provider"
    BY <1>9, <2>2, StandingMoves DEF GrantCall, OnlyCalls
  <2>3. QED  BY <2>1, <2>2
<1>10. CASE AgentCallEnds(r)
  BY <1>10, StandingMoves DEF AgentCallEnds, OnlyCalls
<1>11. CASE CallProvider(r)
  BY <1>1, <1>11 DEF CallProvider, Goto, Moves, Phases
<1>12. CASE CallAnswered(r)
  BY <1>1, <1>12 DEF CallAnswered, Goto, Moves, Phases
<1>13. CASE HeadSent(r)
  <2>1. CASE End(r)  BY <2>1, EndMoves
  <2>2. CASE ~End(r)  BY <1>1, <1>13, <2>2 DEF HeadSent, Goto, Moves, Phases
  <2>3. QED  BY <2>1, <2>2
<1>14. CASE BodyRead(r)
  BY <1>14, EndMoves DEF BodyRead
<1>15. CASE FirstComment(r)
  BY <1>15, EndMoves, StandingMoves DEF FirstComment, TaskEnds
<1>16. CASE TakeResult(r)
  BY <1>1, <1>16 DEF TakeResult, Goto, Moves, Phases
<1>17. CASE SendResult(r)
  BY <1>17, EndMoves DEF SendResult, TaskEnds
<1>18. CASE KernelReturns(r)
  BY <1>1, <1>18 DEF KernelReturns, Goto, Moves, Phases
<1>19. CASE KernelFails(r)
  BY <1>19, EndMoves DEF KernelFails
<1>20. CASE Arrive(r)
  BY <1>1, <1>20 DEF Arrive, Goto, Moves, Phases
<1>21. CASE StartCall(r)
  BY <1>21, StandingMoves DEF StartCall, OnlyCalls
<1>22. CASE Tick(r)
  BY <1>22, EndMoves, StandingMoves DEF Tick, TaskEnds
<1>23. CASE TenantTimeout(r)
  BY <1>23, EndMoves DEF TenantTimeout
<1>24. CASE PrepareFails(r)
  BY <1>24, EndMoves DEF PrepareFails
<1>25. CASE SlotsTimeout(r)
  BY <1>25, EndMoves DEF SlotsTimeout
<1>26. CASE CallFails(r)
  BY <1>26, EndMoves DEF CallFails
<1>27. CASE ClientReads(r)
  BY <1>27, StandingMoves DEF ClientReads
<1>28. CASE ClientLeaves(r)
  BY <1>28, EndMoves, StandingMoves DEF ClientLeaves
<1>29. QED
  BY <1>2, <1>3, <1>4, <1>5, <1>6, <1>7, <1>8, <1>9, <1>10, <1>11, <1>12, <1>13, <1>14, <1>15,
       <1>16, <1>17, <1>18, <1>19, <1>20, <1>21, <1>22, <1>23, <1>24, <1>25, <1>26, <1>27,
       <1>28 DEF Step, Progress, RunEnds

-----------------------------------------------------------------------------
(* The semaphores of the tenants *)

Permitted == NeedsSemaphore \ {"tenant"}

\* Every step but a lookup leaves the table alone and keeps a request's
\* reference for as long as the request needs it; only a grant gives a permit.
KeepsRef(r) ==
    /\ semaphores' = semaphores
    /\ \/ ref' = ref /\ (phase'[r] \in NeedsSemaphore => phase[r] \in NeedsSemaphore)
       \/ ref' = [ref EXCEPT ![r] = Nobody] /\ phase'[r] \notin NeedsSemaphore
    /\ phase'[r] \in Permitted => phase[r] \in Permitted \/ GrantTenant(r)

\* The end of a future drops its reference.
LEMMA EndKeepsRef ==
    ASSUME TypeOK, NEW r \in Requests, End(r) \/ Dropped(r)
    PROVE  KeepsRef(r)
<1>1. phase \in [Requests -> Phases]
  BY DEF TypeOK
<1>2. semaphores' = semaphores /\ ref' = [ref EXCEPT ![r] = Nobody]
  BY DEF End, Dropped, ReleaseAll, Unref
<1>3. PICK p \in {"answered", "done"} : phase' = [phase EXCEPT ![r] = p]
  BY DEF End, Dropped, Goto
<1>4. phase'[r] \notin NeedsSemaphore
  BY <1>1, <1>3 DEF NeedsSemaphore
<1>5. QED  BY <1>2, <1>4 DEF KeepsRef, Permitted

\* A step that changes neither phases nor references keeps them.
LEMMA StandingKeepsRef ==
    ASSUME TypeOK, NEW r \in Requests, UNCHANGED <<phase, semaphores, ref>>
    PROVE  KeepsRef(r)
BY DEF KeepsRef

\* Whatever a request does, its reference outlives its need of the semaphore.
LEMMA StepKeepsRef ==
    ASSUME TypeOK, NEW r \in Requests, Step(r), ~Lookup(r)
    PROVE  KeepsRef(r)
<1>1. phase \in [Requests -> Phases]
  BY DEF TypeOK
<1>2. CASE GrantJob(r)
  BY <1>1, <1>2 DEF GrantJob, Goto, tenant_vars, KeepsRef, NeedsSemaphore, Permitted
<1>3. CASE GrantTenant(r)
  BY <1>1, <1>3 DEF GrantTenant, Goto, tenant_vars, KeepsRef, NeedsSemaphore, Permitted
<1>4. CASE Orchestrate(r)
  BY <1>1, <1>4 DEF Orchestrate, JoinQueue, Goto, tenant_vars, KeepsRef, NeedsSemaphore,
       Permitted
<1>5. CASE Poll(r)
  BY <1>1, <1>5 DEF Poll, JoinQueue, Goto, tenant_vars, KeepsRef, NeedsSemaphore, Permitted
<1>6. CASE GrantSlots(r)
  BY <1>1, <1>6 DEF GrantSlots, Goto, tenant_vars, KeepsRef, NeedsSemaphore, Permitted
<1>7. CASE Report(r)
  <2>1. CASE End(r)  BY <2>1, EndKeepsRef
  <2>2. CASE ~End(r)
    BY <1>1, <1>7, <2>2 DEF Report, Goto, tenant_vars, KeepsRef, NeedsSemaphore, Permitted
  <2>3. QED  BY <2>1, <2>2
<1>8. CASE GrantCall(r)
  <2>1. CASE phase[r] = "provider"
    BY <1>1, <1>8, <2>1 DEF GrantCall, Goto, tenant_vars, KeepsRef, NeedsSemaphore, Permitted
  <2>2. CASE phase[r] # "provider"
    BY <1>8, <2>2, StandingKeepsRef DEF GrantCall, OnlyCalls, tenant_vars
  <2>3. QED  BY <2>1, <2>2
<1>9. CASE AgentCallEnds(r)
  BY <1>9, StandingKeepsRef DEF AgentCallEnds, OnlyCalls, tenant_vars
<1>10. CASE CallProvider(r)
  BY <1>1, <1>10 DEF CallProvider, Goto, tenant_vars, KeepsRef, NeedsSemaphore, Permitted
<1>11. CASE CallAnswered(r)
  BY <1>1, <1>11 DEF CallAnswered, Goto, tenant_vars, KeepsRef, NeedsSemaphore, Permitted
<1>12. CASE HeadSent(r)
  <2>1. CASE End(r)  BY <2>1, EndKeepsRef
  <2>2. CASE ~End(r)
    BY <1>1, <1>12, <2>2 DEF HeadSent, Goto, Unref, tenant_vars, KeepsRef, NeedsSemaphore,
         Permitted
  <2>3. QED  BY <2>1, <2>2
<1>13. CASE BodyRead(r)
  BY <1>13, EndKeepsRef DEF BodyRead
<1>14. CASE FirstComment(r)
  BY <1>14, EndKeepsRef, StandingKeepsRef DEF FirstComment, TaskEnds, tenant_vars
<1>15. CASE TakeResult(r)
  BY <1>1, <1>15 DEF TakeResult, Goto, tenant_vars, KeepsRef, NeedsSemaphore, Permitted
<1>16. CASE SendResult(r)
  BY <1>16, EndKeepsRef DEF SendResult, TaskEnds
<1>17. CASE KernelReturns(r)
  BY <1>1, <1>17 DEF KernelReturns, Goto, tenant_vars, KeepsRef, NeedsSemaphore, Permitted
<1>18. CASE KernelFails(r)
  BY <1>18, EndKeepsRef DEF KernelFails
<1>19. CASE Arrive(r)
  BY <1>1, <1>19 DEF Arrive, Goto, tenant_vars, KeepsRef, NeedsSemaphore, Permitted
<1>20. CASE StartCall(r)
  BY <1>20, StandingKeepsRef DEF StartCall, OnlyCalls, tenant_vars
<1>21. CASE Tick(r)
  BY <1>21, EndKeepsRef, StandingKeepsRef DEF Tick, TaskEnds, tenant_vars
<1>22. CASE TenantTimeout(r)
  BY <1>22, EndKeepsRef DEF TenantTimeout
<1>23. CASE PrepareFails(r)
  BY <1>23, EndKeepsRef DEF PrepareFails
<1>24. CASE SlotsTimeout(r)
  BY <1>24, EndKeepsRef DEF SlotsTimeout
<1>25. CASE CallFails(r)
  BY <1>25, EndKeepsRef DEF CallFails
<1>26. CASE ClientReads(r)
  BY <1>26, StandingKeepsRef DEF ClientReads, tenant_vars
<1>27. CASE ClientLeaves(r)
  BY <1>27, EndKeepsRef, StandingKeepsRef DEF ClientLeaves, tenant_vars
<1>28. QED
  BY <1>2, <1>3, <1>4, <1>5, <1>6, <1>7, <1>8, <1>9, <1>10, <1>11, <1>12, <1>13, <1>14, <1>15,
       <1>16, <1>17, <1>18, <1>19, <1>20, <1>21, <1>22, <1>23, <1>24, <1>25, <1>26, <1>27 DEF
       Step, Progress, RunEnds


\* A lookup makes the semaphore it takes the tenant's, and forgets none that
\* another request still waits for or holds.
LEMMA LookupKeepsCurrent ==
    ASSUME TypeOK, RefsAreCurrent, NEW r \in Requests, Lookup(r)
    PROVE  RefsAreCurrent'
<1> DEFINE kept == [t \in Tenants |-> IF Alive(semaphores[t]) THEN semaphores[t] ELSE Nobody]
           mine == IF kept[Tenant(r)] = Nobody THEN r ELSE kept[Tenant(r)]
<1>1. /\ phase \in [Requests -> Phases]
      /\ ref \in [Requests -> Requests \cup {Nobody}]
  BY DEF TypeOK
<1>2. /\ semaphores' = [kept EXCEPT ![Tenant(r)] = mine]
      /\ ref' = [ref EXCEPT ![r] = mine]
      /\ phase' = [phase EXCEPT ![r] = "tenant"]
  BY DEF Lookup, UseSemaphore, Goto
<1>3. \A x \in Requests : Tenant(x) \in Tenants
  BY DEF Tenants, Tenant
<1>4. mine # Nobody
  BY RequestsAssumption
<1>5. SUFFICES ASSUME NEW x \in Requests, phase'[x] \in NeedsSemaphore
               PROVE  ref'[x] # Nobody /\ ref'[x] = semaphores'[Tenant(x)]
  BY DEF RefsAreCurrent
<1>6. CASE x = r
  <2>1. ref'[x] = mine  BY <1>1, <1>2, <1>6
  <2>2. semaphores'[Tenant(x)] = mine  BY <1>2, <1>3, <1>6
  <2>3. QED  BY <1>4, <2>1, <2>2
<1>7. CASE x # r
  <2>1. phase'[x] = phase[x] /\ ref'[x] = ref[x]
    BY <1>1, <1>2, <1>7
  <2>2. ref[x] # Nobody /\ ref[x] = semaphores[Tenant(x)]
    BY <1>5, <2>1 DEF RefsAreCurrent
  <2>3. kept[Tenant(x)] = ref[x]
    BY <1>3, <2>2 DEF Alive
  <2>4. semaphores'[Tenant(x)] = ref[x]
    <3>1. CASE Tenant(x) = Tenant(r)
      <4>1. mine = ref[x]  BY <2>2, <2>3, <3>1
      <4>2. QED  BY <1>2, <1>3, <3>1, <4>1
    <3>2. CASE Tenant(x) # Tenant(r)
      BY <1>2, <1>3, <2>3, <3>2
    <3>3. QED  BY <3>1, <3>2
  <2>5. QED  BY <2>1, <2>2, <2>4
<1>8. QED  BY <1>6, <1>7

\* A request that waits for or holds a permit stays with the tenant's semaphore.
LEMMA StepKeepsCurrent ==
    ASSUME TypeOK, RefsAreCurrent, NEW r \in Requests, Step(r)
    PROVE  RefsAreCurrent'
<1>1. CASE Lookup(r)
  BY <1>1, LookupKeepsCurrent
<1>2. CASE ~Lookup(r)
  <2>1. /\ phase \in [Requests -> Phases]
        /\ ref \in [Requests -> Requests \cup {Nobody}]
    BY DEF TypeOK
  <2>2. KeepsRef(r)
    BY <1>2, StepKeepsRef
  <2>3. phase' = [phase EXCEPT ![r] = phase'[r]]
    BY StepMoves DEF Moves
  <2>4. SUFFICES ASSUME NEW x \in Requests, phase'[x] \in NeedsSemaphore
                 PROVE  ref'[x] # Nobody /\ ref'[x] = semaphores'[Tenant(x)]
    BY DEF RefsAreCurrent
  <2>5. phase[x] \in NeedsSemaphore /\ ref'[x] = ref[x] /\ semaphores' = semaphores
    BY <2>1, <2>2, <2>3, <2>4 DEF KeepsRef
  <2>6. QED  BY <2>5 DEF RefsAreCurrent
<1>3. QED  BY <1>1, <1>2

\* A permit is given while the holders of the tenant's semaphore are fewer than
\* the cap, and these are all the holders the tenant has.
LEMMA StepKeepsBound ==
    ASSUME TypeOK, RefsAreCurrent, TenantBound, NEW r \in Requests, Step(r)
    PROVE  TenantBound'
<1>1. phase \in [Requests -> Phases]
  BY DEF TypeOK
<1>2. phase' = [phase EXCEPT ![r] = phase'[r]]
  BY StepMoves DEF Moves
<1>3. \A x \in Requests : /\ HoldsTenant(x) <=> phase[x] \in Permitted
                          /\ HoldsTenant(x)' <=> phase'[x] \in Permitted
  BY DEF HoldsTenant, Permitted, NeedsSemaphore
<1>4. SUFFICES ASSUME NEW t \in Tenants
      PROVE Cardinality({x \in Requests : Tenant(x) = t /\ HoldsTenant(x)'}) <= MaxPerTenant
  BY DEF TenantBound, Tenant, Tenants
<1> DEFINE Old == {x \in Requests : Tenant(x) = t /\ HoldsTenant(x)}
           New == {x \in Requests : Tenant(x) = t /\ HoldsTenant(x)'}
<1>5. /\ IsFiniteSet(Old) /\ Cardinality(Old) \in Nat
      /\ Cardinality(Old) <= MaxPerTenant
  <2>1. IsFiniteSet(Old)  BY FS_Subset, RequestsAssumption
  <2>2. QED  BY <2>1, FS_CardinalityType DEF TenantBound
<1>6. CASE New \subseteq Old
  <2>1. Cardinality(New) <= Cardinality(Old) /\ IsFiniteSet(New)
    BY <1>5, <1>6, FS_Subset
  <2>2. Cardinality(New) \in Nat
    BY <2>1, FS_CardinalityType
  <2> HIDE DEF Old, New
  <2>3. Cardinality(New) <= MaxPerTenant
    BY <1>5, <2>1, <2>2, LimitsAssumption
  <2>4. QED  BY <2>3 DEF New
<1>7. CASE ~(New \subseteq Old)
  <2>1. /\ phase'[r] \in Permitted /\ phase[r] \notin Permitted
        /\ Tenant(r) = t
    BY <1>1, <1>2, <1>3, <1>7
  <2>2. GrantTenant(r)
    <3>1. ~Lookup(r)
      BY <1>1, <2>1 DEF Lookup, Goto, Permitted
    <3>2. QED  BY <2>1, <3>1, StepKeepsRef DEF KeepsRef
  <2> DEFINE Holders == {x \in Requests : HoldsTenant(x) /\ ref[x] = ref[r]}
  <2>3. phase[r] = "tenant" /\ Cardinality(Holders) < MaxPerTenant
    BY <2>2 DEF GrantTenant
  <2>4. Old \subseteq Holders
    <3>1. ref[r] = semaphores[t]
      BY <2>1, <2>3 DEF RefsAreCurrent, NeedsSemaphore
    <3>2. \A x \in Old : ref[x] = semaphores[t]
      BY <1>3 DEF RefsAreCurrent, Permitted
    <3>3. QED  BY <3>1, <3>2
  <2>5. New = Old \cup {r}
    BY <1>1, <1>2, <1>3, <2>1
  <2>6. IsFiniteSet(Holders) /\ Cardinality(Holders) \in Nat
    <3>1. IsFiniteSet(Holders)  BY FS_Subset, RequestsAssumption
    <3>2. QED  BY <3>1, FS_CardinalityType
  <2>7. Cardinality(Old) <= Cardinality(Holders)
    BY <2>4, <2>6, FS_Subset
  <2>8. Cardinality(New) <= Cardinality(Old) + 1
    <3> HIDE DEF Old, New
    <3>1. Cardinality(New) = IF r \in Old THEN Cardinality(Old) ELSE Cardinality(Old) + 1
      BY <1>5, <2>5, FS_AddElement
    <3>2. QED  BY <1>5, <3>1
  <2>9. Cardinality(New) \in Nat
    <3> HIDE DEF Old, New
    <3>1. IsFiniteSet(New)  BY <1>5, <2>5, FS_AddElement
    <3>2. QED  BY <3>1, FS_CardinalityType
  <2> HIDE DEF Old, New, Holders
  <2>10. Cardinality(New) <= MaxPerTenant
    BY <1>5, <2>3, <2>6, <2>7, <2>8, <2>9, LimitsAssumption
  <2>11. QED  BY <2>10 DEF New
<1>8. QED  BY <1>6, <1>7

-----------------------------------------------------------------------------
(* The tasks of streamed orchestrations and their channels *)

TaskStates == {"none", "opening", "polling", "result", "ended"}
InTask == {"opening", "polling", "result"}

\* What a step does to the task, the channel and the client of its request.
Streams(r) ==
    /\ task' = [task EXCEPT ![r] = task'[r]] /\ task'[r] \in TaskStates
    /\ chan' = [chan EXCEPT ![r] = chan'[r]] /\ chan'[r] \in Seq({"comment", "result"})
    /\ client' = [client EXCEPT ![r] = client'[r]]
    /\ client'[r] \in {"waits", "answered", "gone"}
    /\ streams' = streams + (IF task'[r] \in InTask THEN 1 ELSE 0)
                          - (IF task[r] \in InTask THEN 1 ELSE 0)
    /\ TaskFollows(r)' /\ ChannelTells(r)'

\* The types of what a stream is made of.
StreamTypes ==
    /\ phase \in [Requests -> Phases]
    /\ task \in [Requests -> TaskStates]
    /\ chan \in [Requests -> Seq({"comment", "result"})]
    /\ client \in [Requests -> {"waits", "answered", "gone"}]
    /\ streams \in Nat

\* A heartbeat that is sent leaves nothing but heartbeats before it.
LEMMA CommentSent ==
    ASSUME NEW s \in Seq({"comment", "result"}), OnlyComments(s)
    PROVE  /\ Append(s, "comment") \in Seq({"comment", "result"})
           /\ OnlyComments(Append(s, "comment"))
BY DEF OnlyComments

\* A result that is sent is the last thing in the channel.
LEMMA ResultSent ==
    ASSUME NEW s \in Seq({"comment", "result"}), OnlyComments(s)
    PROVE  /\ Append(s, "result") \in Seq({"comment", "result"})
           /\ ResultLast(Append(s, "result"))
<1>1. /\ Append(s, "result") \in Seq({"comment", "result"})
      /\ Len(Append(s, "result")) = Len(s) + 1 /\ Len(s) \in Nat
      /\ Append(s, "result")[Len(s) + 1] = "result"
  OBVIOUS
<1>2. \A i \in 1..Len(s) : Append(s, "result")[i] = "comment"
  BY DEF OnlyComments
<1>3. Append(s, "result") # <<>>
  BY <1>1
<1>4. QED  BY <1>1, <1>2, <1>3 DEF ResultLast

\* Reading a heartbeat takes nothing else away.
LEMMA CommentRead ==
    ASSUME NEW s \in Seq({"comment", "result"}), s # <<>>
    PROVE  /\ Head(s) \in {"comment", "result"}
           /\ Tail(s) \in Seq({"comment", "result"})
           /\ OnlyComments(s) => Head(s) = "comment" /\ OnlyComments(Tail(s))
           /\ ResultLast(s) /\ Head(s) = "comment" => ResultLast(Tail(s))
           /\ ResultLast(s) /\ Head(s) = "result" => Tail(s) = <<>>
<1>1. /\ Len(s) \in Nat \ {0} /\ Head(s) = s[1] /\ Head(s) \in {"comment", "result"}
      /\ Tail(s) \in Seq({"comment", "result"}) /\ Len(Tail(s)) = Len(s) - 1
      /\ \A i \in 1..(Len(s) - 1) : Tail(s)[i] = s[i + 1]
  OBVIOUS
<1> DEFINE t == Tail(s)
<1>2. t = <<>> <=> Len(t) = 0
  BY <1>1
<1> HIDE DEF t
<1>3. OnlyComments(s) => Head(s) = "comment" /\ OnlyComments(Tail(s))
  BY <1>1 DEF OnlyComments
<1>4. ASSUME ResultLast(s), Head(s) = "comment" PROVE ResultLast(Tail(s))
  <2>1. Len(s) > 1
    BY <1>1, <1>4 DEF ResultLast
  <2>2. Tail(s)[Len(s) - 1] = "result"
    BY <1>1, <1>4, <2>1 DEF ResultLast
  <2>3. Tail(s) # <<>>
    BY <1>1, <1>2, <2>1 DEF t
  <2>4. \A i \in 1..(Len(s) - 2) : Tail(s)[i] = "comment"
    BY <1>1, <1>4, <2>1 DEF ResultLast
  <2>5. QED  BY <1>1, <2>2, <2>4, <2>3 DEF ResultLast
<1>5. ASSUME ResultLast(s), Head(s) = "result" PROVE Tail(s) = <<>>
  <2>1. Len(s) = 1
    BY <1>1, <1>5 DEF ResultLast
  <2>2. QED  BY <1>1, <1>2, <2>1 DEF t
<1>6. QED  BY <1>1, <1>3, <1>4, <1>5

\* The types that this part needs are those of TypeOK.
LEMMA StreamsTyped == TypeOK => StreamTypes
BY DEF TypeOK, StreamTypes, TaskStates

\* A streamed orchestration answers through its task, never in a response that
\* carries its permits.
LEMMA TaskHasNoResponse ==
    ASSUME NEW r \in Requests, SseTask(r)
    PROVE  Orchestrated(r) /\ ~PermitInResponse(r)
BY DEF SseTask, PermitInResponse, RootStream, Orchestrated

\* A step that leaves the stream alone keeps it as it was, if its handler is
\* still where the task expects it.
LEMMA StreamKept ==
    ASSUME StreamTypes, NEW r \in Requests, ChannelTells(r), UNCHANGED <<stream_vars, client>>,
           TaskFollows(r)'
    PROVE  Streams(r)
<1>1. task' = task /\ chan' = chan /\ client' = client /\ streams' = streams
  BY DEF stream_vars
<1>2. ChannelTells(r)'
  BY <1>1 DEF ChannelTells
<1>3. /\ task = [task EXCEPT ![r] = task[r]] /\ task[r] \in TaskStates
      /\ chan = [chan EXCEPT ![r] = chan[r]] /\ chan[r] \in Seq({"comment", "result"})
      /\ client = [client EXCEPT ![r] = client[r]]
      /\ client[r] \in {"waits", "answered", "gone"} /\ streams \in Nat
  BY DEF StreamTypes
<1>4. streams = streams + (IF task[r] \in InTask THEN 1 ELSE 0)
                        - (IF task[r] \in InTask THEN 1 ELSE 0)
  BY <1>3
<1>5. QED  BY ONLY <1>1, <1>2, <1>3, <1>4, TaskFollows(r)' DEF Streams

\* A handler that has been polled ends either with an answer for its task or,
\* when it has no task, with one for its client, whose channel was never used.
LEMMA EndStreams ==
    ASSUME StreamTypes, NEW r \in Requests, TaskFollows(r), ChannelTells(r), End(r),
           phase[r] \notin {"unpolled", "done"}
    PROVE  Streams(r)
<1>1. UNCHANGED stream_vars
  BY DEF End
<1>2. task' = task /\ chan' = chan /\ streams' = streams
  BY <1>1 DEF stream_vars
<1>3. CASE task[r] = "polling"
  <2>1. phase' = [phase EXCEPT ![r] = "answered"] /\ client' = client
    BY <1>3 DEF End, Goto
  <2>2. TaskFollows(r)'
    BY <1>2, <1>3, <2>1 DEF TaskFollows, SseTask, Orchestrated, Direct, RootStream, StreamTypes
  <2>3. QED  BY <1>1, <2>1, <2>2, StreamKept
<1>4. CASE task[r] # "polling"
  <2>1. /\ phase' = [phase EXCEPT ![r] = "done"]
        /\ client' = [client EXCEPT ![r] = "answered"]
    BY <1>4 DEF End, Goto
  <2>2. task[r] = "none"
    BY <1>4 DEF TaskFollows, StreamTypes, TaskStates
  <2>3. TaskFollows(r)'
    BY <1>2, <2>1, <2>2 DEF TaskFollows, StreamTypes
  <2>4. client'[r] = "answered" /\ chan[r] = <<>>
    BY <2>1, <2>2 DEF StreamTypes, ChannelTells
  <2>5. ChannelTells(r)'
    BY <1>2, <2>2, <2>4 DEF ChannelTells
  <2>6. /\ task = [task EXCEPT ![r] = task[r]] /\ task[r] \in TaskStates
        /\ chan = [chan EXCEPT ![r] = chan[r]] /\ chan[r] \in Seq({"comment", "result"})
        /\ streams \in Nat
    BY DEF StreamTypes
  <2>7. task[r] \notin InTask
    BY <2>2 DEF InTask
  <2>8. client' = [client EXCEPT ![r] = client'[r]]
    BY <2>1, <2>4
  <2>9. QED  BY ONLY <1>2, <2>3, <2>4, <2>5, <2>6, <2>7, <2>8 DEF Streams
<1>5. QED  BY <1>3, <1>4

\* The task of a stream ends when the client has gone, or with the result.
LEMMA TaskEndStreams ==
    ASSUME StreamTypes, NEW r \in Requests, TaskFollows(r), ChannelTells(r), TaskEnds(r),
           UNCHANGED client, task[r] \in InTask,
           \/ Gone(r) /\ UNCHANGED chan
           \/ task[r] = "result" /\ Send(r, "result")
    PROVE  Streams(r)
<1>1. /\ task' = [task EXCEPT ![r] = "ended"] /\ streams' = streams - 1
      /\ phase' = [phase EXCEPT ![r] = "done"] /\ client' = client
  BY DEF TaskEnds, Dropped, Goto
<1>2. /\ task'[r] = "ended" /\ phase'[r] = "done"
      /\ chan[r] \in Seq({"comment", "result"}) /\ client[r] \in {"waits", "answered", "gone"}
      /\ client = [client EXCEPT ![r] = client[r]] /\ streams \in Nat
      /\ chan = [chan EXCEPT ![r] = chan[r]]
  BY <1>1 DEF StreamTypes
<1>3. TaskFollows(r)'
  BY <1>2 DEF TaskFollows
<1>4. OnlyComments(chan[r]) /\ client[r] # "answered" /\ client'[r] = client[r]
  BY DEF ChannelTells, InTask
<1>5. /\ chan' = [chan EXCEPT ![r] = chan'[r]] /\ chan'[r] \in Seq({"comment", "result"})
      /\ client[r] = "waits" => ResultLast(chan'[r])
  <2>1. CASE Gone(r) /\ UNCHANGED chan
    BY <1>2, <2>1 DEF Gone
  <2>2. CASE Send(r, "result")
    <3>1. chan' = [chan EXCEPT ![r] = Append(chan[r], "result")]
      BY <2>2 DEF Send
    <3>2. chan'[r] = Append(chan[r], "result")
      BY <3>1 DEF StreamTypes
    <3>3. QED  BY <1>2, <1>4, <3>1, <3>2, ResultSent
  <2>3. QED  BY <2>1, <2>2
<1>6. ChannelTells(r)'
  BY <1>2, <1>4, <1>5 DEF ChannelTells
<1>7. "ended" \in TaskStates /\ "ended" \notin InTask
  BY DEF TaskStates, InTask
<1>8. /\ client' = [client EXCEPT ![r] = client'[r]]
      /\ client'[r] \in {"waits", "answered", "gone"}
  BY <1>1, <1>2
<1>9. /\ task' = [task EXCEPT ![r] = task'[r]] /\ task'[r] \in TaskStates
      /\ streams' = streams + (IF task'[r] \in InTask THEN 1 ELSE 0)
                            - (IF task[r] \in InTask THEN 1 ELSE 0)
  <2>1. task' = [task EXCEPT ![r] = task'[r]] /\ task'[r] \in TaskStates
    BY <1>1, <1>2, <1>7
  <2>2. task'[r] \notin InTask
    BY <1>2, <1>7
  <2>3. QED  BY ONLY <1>1, <1>2, <2>1, <2>2, task[r] \in InTask
<1>10. /\ chan' = [chan EXCEPT ![r] = chan'[r]]
       /\ chan'[r] \in Seq({"comment", "result"})
  BY <1>5
<1>11. QED  BY ONLY <1>3, <1>6, <1>8, <1>9, <1>10 DEF Streams

\* The task sends a heartbeat and polls its handler, the first time and again.
LEMMA CommentStreams ==
    ASSUME StreamTypes, NEW r \in Requests, TaskFollows(r), ChannelTells(r),
           task[r] \in {"opening", "polling"}, task' = [task EXCEPT ![r] = "polling"],
           Send(r, "comment"), UNCHANGED <<phase, client, streams>>
    PROVE  Streams(r)
<1>1. /\ task'[r] = "polling" /\ phase' = phase /\ client' = client /\ streams' = streams
      /\ chan[r] \in Seq({"comment", "result"}) /\ client[r] \in {"waits", "answered", "gone"}
      /\ client = [client EXCEPT ![r] = client[r]] /\ streams \in Nat
  BY DEF StreamTypes
<1>2. TaskFollows(r)'
  BY <1>1 DEF TaskFollows, SseTask, Orchestrated, Direct, RootStream
<1>3. OnlyComments(chan[r]) /\ client[r] # "answered"
  BY DEF ChannelTells
<1>4. /\ chan' = [chan EXCEPT ![r] = Append(chan[r], "comment")]
      /\ chan'[r] = Append(chan[r], "comment")
  BY DEF Send, StreamTypes
<1>5. OnlyComments(chan'[r]) /\ chan'[r] \in Seq({"comment", "result"})
  BY <1>1, <1>3, <1>4, CommentSent
<1>6. ChannelTells(r)'
  BY <1>1, <1>3, <1>5 DEF ChannelTells
<1>7. "polling" \in TaskStates /\ "polling" \in InTask /\ task[r] \in InTask
  BY DEF TaskStates, InTask
<1>8. /\ task' = [task EXCEPT ![r] = task'[r]]
      /\ chan' = [chan EXCEPT ![r] = chan'[r]]
      /\ client' = [client EXCEPT ![r] = client'[r]]
  BY <1>1, <1>4
<1>9. streams' = streams + (IF task'[r] \in InTask THEN 1 ELSE 0)
                         - (IF task[r] \in InTask THEN 1 ELSE 0)
  BY <1>1, <1>7
<1>10. QED  BY ONLY <1>1, <1>2, <1>5, <1>6, <1>7, <1>8, <1>9 DEF Streams

\* The client reads: a result that it gets was the last thing in the channel.
LEMMA ReadStreams ==
    ASSUME StreamTypes, NEW r \in Requests, TaskFollows(r), ChannelTells(r), ClientReads(r)
    PROVE  Streams(r)
<1> DEFINE got == IF Head(chan[r]) = "result" THEN "answered" ELSE client[r]
<1>1. /\ task' = task /\ phase' = phase /\ streams' = streams
      /\ chan' = [chan EXCEPT ![r] = Tail(chan[r])]
      /\ client' = [client EXCEPT ![r] = got]
      /\ chan[r] # <<>> /\ client[r] # "gone"
  BY DEF ClientReads, Gone
<1>2. /\ task[r] \in TaskStates /\ task = [task EXCEPT ![r] = task[r]] /\ streams \in Nat
      /\ chan[r] \in Seq({"comment", "result"}) /\ client[r] \in {"waits", "answered", "gone"}
      /\ chan'[r] = Tail(chan[r]) /\ client'[r] = got
  BY <1>1 DEF StreamTypes
<1>3. client[r] = "waits" /\ task[r] # "none"
  BY <1>1, <1>2 DEF ChannelTells
<1>4. TaskFollows(r)'
  BY <1>1, <1>3 DEF TaskFollows, SseTask, Orchestrated, Direct, RootStream
<1>5. /\ Tail(chan[r]) \in Seq({"comment", "result"})
      /\ OnlyComments(chan[r]) => got = "waits" /\ OnlyComments(Tail(chan[r]))
      /\ ResultLast(chan[r]) =>
           \/ got = "waits" /\ ResultLast(Tail(chan[r]))
           \/ got = "answered" /\ Tail(chan[r]) = <<>>
  BY <1>1, <1>2, <1>3, CommentRead
<1>6. got \in {"waits", "answered", "gone"}
  BY <1>3
<1> HIDE DEF got
<1>7. ChannelTells(r)'
  <2>1. task[r] \in {"polling", "result", "ended"}
    BY <1>1, <1>2 DEF ChannelTells, TaskStates
  <2>2. CASE task[r] \in {"polling", "result"}
    BY <1>1, <1>2, <1>5, <2>2 DEF ChannelTells
  <2>3. CASE task[r] = "ended"
    BY <1>1, <1>2, <1>3, <1>5, <2>3 DEF ChannelTells
  <2>4. QED  BY <2>1, <2>2, <2>3
<1>8. streams = streams + (IF task[r] \in InTask THEN 1 ELSE 0)
                        - (IF task[r] \in InTask THEN 1 ELSE 0)
  BY <1>2
<1>9. QED  BY ONLY <1>1, <1>2, <1>4, <1>5, <1>6, <1>7, <1>8 DEF Streams

\* A step of the task that sends nothing.
LEMMA StreamMoved ==
    ASSUME StreamTypes, NEW r \in Requests, NEW t \in TaskStates,
           task' = [task EXCEPT ![r] = t], UNCHANGED <<chan, client>>,
           streams' = streams + (IF t \in InTask THEN 1 ELSE 0)
                              - (IF task[r] \in InTask THEN 1 ELSE 0),
           TaskFollows(r)', ChannelTells(r)'
    PROVE  Streams(r)
<1>1. /\ task'[r] = t /\ chan' = chan /\ client' = client
      /\ chan[r] \in Seq({"comment", "result"}) /\ client[r] \in {"waits", "answered", "gone"}
      /\ chan = [chan EXCEPT ![r] = chan[r]] /\ client = [client EXCEPT ![r] = client[r]]
  BY DEF StreamTypes
<1>2. QED  BY <1>1 DEF Streams

\* Whatever a request does, its stream keeps telling its client the truth, and
\* the gauge of the streams follows the task.
LEMMA StepStreams ==
    ASSUME TypeOK, TasksFollow, ChannelsTell, NEW r \in Requests, Step(r)
    PROVE  Streams(r)
<1>1. /\ StreamTypes /\ TaskFollows(r) /\ ChannelTells(r)
      /\ SseTask(r) => Orchestrated(r) /\ ~PermitInResponse(r)
  BY StreamsTyped, TaskHasNoResponse DEF TasksFollow, ChannelsTell
<1>2. /\ task[r] \in TaskStates /\ phase \in [Requests -> Phases] /\ streams \in Nat
  BY <1>1 DEF StreamTypes
<1>3. SseTask(r)' <=> SseTask(r)
  BY DEF SseTask, Orchestrated, Direct, RootStream
<1>4. CASE GrantJob(r)
  <2>1. UNCHANGED <<stream_vars, client>>
    BY <1>4 DEF GrantJob
  <2>2. TaskFollows(r)'
    BY <1>1, <1>2, <1>3, <1>4, <2>1 DEF GrantJob, TaskFollows, Goto, stream_vars
  <2>3. QED  BY <1>1, <2>1, <2>2, StreamKept
<1>5. CASE Lookup(r)
  <2>1. UNCHANGED <<stream_vars, client>>
    BY <1>5 DEF Lookup
  <2>2. TaskFollows(r)'
    BY <1>1, <1>2, <1>3, <1>5, <2>1 DEF Lookup, TaskFollows, Goto, stream_vars
  <2>3. QED  BY <1>1, <2>1, <2>2, StreamKept
<1>6. CASE GrantTenant(r)
  <2>1. UNCHANGED <<stream_vars, client>>
    BY <1>6 DEF GrantTenant
  <2>2. TaskFollows(r)'
    BY <1>1, <1>2, <1>3, <1>6, <2>1 DEF GrantTenant, TaskFollows, Goto, stream_vars
  <2>3. QED  BY <1>1, <2>1, <2>2, StreamKept
<1>7. CASE Orchestrate(r)
  <2>1. CASE SseTask(r)
    <3>1. /\ phase' = [phase EXCEPT ![r] = "unpolled"] /\ chan' = chan /\ client' = client
          /\ task' = [task EXCEPT ![r] = "opening"] /\ streams' = streams + 1
          /\ phase[r] = "admitted"
      BY <1>7, <2>1 DEF Orchestrate, Goto
    <3>2. phase'[r] = "unpolled" /\ task'[r] = "opening" /\ task[r] = "none"
      BY <1>1, <1>2, <3>1 DEF TaskFollows, StreamTypes, TaskStates
    <3>3. TaskFollows(r)'
      BY <1>3, <2>1, <3>2 DEF TaskFollows
    <3>4. chan[r] = <<>> /\ client[r] # "answered"
      BY <1>1, <3>1, <3>2 DEF ChannelTells, TaskFollows
    <3>5. ChannelTells(r)'
      BY <3>1, <3>2, <3>4 DEF ChannelTells, OnlyComments
    <3>6. streams' = streams + (IF "opening" \in InTask THEN 1 ELSE 0)
                             - (IF task[r] \in InTask THEN 1 ELSE 0)
      BY <1>2, <3>1, <3>2 DEF InTask
    <3>7. "opening" \in TaskStates
      BY DEF TaskStates
    <3>8. QED  BY <1>1, <3>1, <3>3, <3>5, <3>6, <3>7, StreamMoved
  <2>2. CASE ~SseTask(r)
    <3>1. UNCHANGED <<stream_vars, client>>
      BY <1>7, <2>2 DEF Orchestrate, stream_vars
    <3>2. TaskFollows(r)'
      BY <1>1, <1>2, <1>3, <1>7, <2>2, <3>1 DEF Orchestrate, JoinQueue, TaskFollows, Goto,
           stream_vars
    <3>3. QED  BY <1>1, <3>1, <3>2, StreamKept
  <2>3. QED  BY <2>1, <2>2
<1>8. CASE Poll(r)
  <2>1. UNCHANGED <<stream_vars, client>>
    BY <1>8 DEF Poll
  <2>2. TaskFollows(r)'
    BY <1>1, <1>2, <1>3, <1>8, <2>1 DEF Poll, JoinQueue, TaskFollows, Goto, stream_vars
  <2>3. QED  BY <1>1, <2>1, <2>2, StreamKept
<1>9. CASE GrantSlots(r)
  <2>1. UNCHANGED <<stream_vars, client>>
    BY <1>9 DEF GrantSlots
  <2>2. TaskFollows(r)'
    BY <1>1, <1>2, <1>3, <1>9, <2>1 DEF GrantSlots, TaskFollows, Goto, stream_vars
  <2>3. QED  BY <1>1, <2>1, <2>2, StreamKept
<1>10. CASE Report(r)
  <2>1. CASE End(r)  BY <1>1, <1>10, <2>1, EndStreams DEF Report
  <2>2. CASE ~End(r)
    <3>1. UNCHANGED <<stream_vars, client>>
      BY <1>10, <2>2 DEF Report
    <3>2. TaskFollows(r)'
      BY <1>1, <1>2, <1>3, <1>10, <2>2, <3>1 DEF Report, TaskFollows, Goto, stream_vars
    <3>3. QED  BY <1>1, <3>1, <3>2, StreamKept
  <2>3. QED  BY <2>1, <2>2
<1>11. CASE GrantCall(r)
  <2>1. UNCHANGED <<stream_vars, client>>
    BY <1>11 DEF GrantCall, OnlyCalls
  <2>2. phase' = phase \/ (phase[r] = "provider" /\ Goto(r, "sending"))
    BY <1>11 DEF GrantCall, OnlyCalls
  <2>3. TaskFollows(r)'
    BY <1>1, <1>2, <1>3, <2>1, <2>2 DEF TaskFollows, Goto, stream_vars
  <2>4. QED  BY <1>1, <2>1, <2>3, StreamKept
<1>12. CASE AgentCallEnds(r)
  <2>1. UNCHANGED <<phase, stream_vars, client>>
    BY <1>12 DEF AgentCallEnds, OnlyCalls
  <2>2. TaskFollows(r)'
    BY <1>1, <1>3, <2>1 DEF TaskFollows, stream_vars
  <2>3. QED  BY <1>1, <2>1, <2>2, StreamKept
<1>13. CASE CallProvider(r)
  <2>1. UNCHANGED <<stream_vars, client>>
    BY <1>13 DEF CallProvider
  <2>2. TaskFollows(r)'
    BY <1>1, <1>2, <1>3, <1>13, <2>1 DEF CallProvider, TaskFollows, Goto, stream_vars
  <2>3. QED  BY <1>1, <2>1, <2>2, StreamKept
<1>14. CASE CallAnswered(r)
  <2>1. UNCHANGED <<stream_vars, client>>
    BY <1>14 DEF CallAnswered
  <2>2. TaskFollows(r)'
    BY <1>1, <1>2, <1>3, <1>14, <2>1 DEF CallAnswered, TaskFollows, Goto, stream_vars
  <2>3. QED  BY <1>1, <2>1, <2>2, StreamKept
<1>15. CASE HeadSent(r)
  <2>1. CASE End(r)  BY <1>1, <1>15, <2>1, EndStreams DEF HeadSent
  <2>2. CASE ~End(r)
    <3>1. UNCHANGED <<stream_vars, client>>
      BY <1>15, <2>2 DEF HeadSent
    <3>2. TaskFollows(r)'
      BY <1>1, <1>2, <1>3, <1>15, <2>2, <3>1 DEF HeadSent, TaskFollows, Goto, stream_vars
    <3>3. QED  BY <1>1, <3>1, <3>2, StreamKept
  <2>3. QED  BY <2>1, <2>2
<1>16. CASE BodyRead(r)
  BY <1>1, <1>16, EndStreams DEF BodyRead
<1>17. CASE FirstComment(r)
  <2>1. CASE Gone(r)
    BY <1>1, <1>17, <2>1, TaskEndStreams DEF FirstComment, InTask
  <2>2. CASE ~Gone(r)
    BY <1>1, <1>17, <2>2, CommentStreams DEF FirstComment
  <2>3. QED  BY <2>1, <2>2
<1>18. CASE TakeResult(r)
  <2>1. /\ phase' = [phase EXCEPT ![r] = "done"] /\ chan' = chan /\ client' = client
        /\ task' = [task EXCEPT ![r] = "result"] /\ streams' = streams
        /\ task[r] = "polling"
    BY <1>18 DEF TakeResult, Goto
  <2>2. phase'[r] = "done" /\ task'[r] = "result"
    BY <1>1, <2>1 DEF StreamTypes
  <2>3. TaskFollows(r)'
    BY <2>2 DEF TaskFollows
  <2>4. ChannelTells(r)'
    BY <1>1, <2>1, <2>2 DEF ChannelTells
  <2>5. streams' = streams + (IF "result" \in InTask THEN 1 ELSE 0)
                           - (IF task[r] \in InTask THEN 1 ELSE 0)
    BY <1>2, <2>1 DEF InTask
  <2>6. "result" \in TaskStates
    BY DEF TaskStates
  <2>7. QED  BY <1>1, <2>1, <2>3, <2>4, <2>5, <2>6, StreamMoved
<1>19. CASE SendResult(r)
  BY <1>1, <1>19, TaskEndStreams DEF SendResult, InTask
<1>20. CASE KernelReturns(r)
  <2>1. UNCHANGED <<stream_vars, client>>
    BY <1>20 DEF KernelReturns
  <2>2. TaskFollows(r)'
    BY <1>1, <1>2, <1>3, <1>20, <2>1 DEF KernelReturns, TaskFollows, Goto, stream_vars
  <2>3. QED  BY <1>1, <2>1, <2>2, StreamKept
<1>21. CASE KernelFails(r)
  BY <1>1, <1>21, EndStreams DEF KernelFails
<1>22. CASE Arrive(r)
  <2>1. UNCHANGED <<stream_vars, client>>
    BY <1>22 DEF Arrive
  <2>2. TaskFollows(r)'
    BY <1>1, <1>2, <1>3, <1>22, <2>1 DEF Arrive, TaskFollows, Goto, stream_vars
  <2>3. QED  BY <1>1, <2>1, <2>2, StreamKept
<1>23. CASE StartCall(r)
  <2>1. UNCHANGED <<phase, stream_vars, client>>
    BY <1>23 DEF StartCall, OnlyCalls
  <2>2. TaskFollows(r)'
    BY <1>1, <1>3, <2>1 DEF TaskFollows, stream_vars
  <2>3. QED  BY <1>1, <2>1, <2>2, StreamKept
<1>24. CASE Tick(r)
  <2>1. CASE Gone(r)
    BY <1>1, <1>24, <2>1, TaskEndStreams DEF Tick, InTask
  <2>2. CASE ~Gone(r)
    <3>1. task' = [task EXCEPT ![r] = "polling"]
      BY <1>1, <1>24, <2>2 DEF Tick, StreamTypes
    <3>2. QED  BY <1>1, <1>24, <2>2, <3>1, CommentStreams DEF Tick
  <2>3. QED  BY <2>1, <2>2
<1>25. CASE TenantTimeout(r)
  BY <1>1, <1>25, EndStreams DEF TenantTimeout
<1>26. CASE PrepareFails(r)
  BY <1>1, <1>26, EndStreams DEF PrepareFails
<1>27. CASE SlotsTimeout(r)
  BY <1>1, <1>27, EndStreams DEF SlotsTimeout
<1>28. CASE CallFails(r)
  BY <1>1, <1>28, EndStreams DEF CallFails
<1>29. CASE ClientReads(r)
  BY <1>1, <1>29, ReadStreams
<1>30. CASE ClientLeaves(r)
  <2>1. /\ task' = task /\ chan' = chan /\ streams' = streams /\ client[r] = "waits"
        /\ client' = [client EXCEPT ![r] = "gone"] /\ (task[r] # "none" => phase' = phase)
    BY <1>30 DEF ClientLeaves, stream_vars
  <2>2. client'[r] = "gone"
    BY <1>1, <2>1 DEF StreamTypes
  <2>3. TaskFollows(r)'
    BY <1>1, <1>3, <2>1, <2>2 DEF TaskFollows
  <2>4. ChannelTells(r)'
    BY <1>1, <2>1, <2>2 DEF ChannelTells
  <2>5. /\ task = [task EXCEPT ![r] = task[r]] /\ chan = [chan EXCEPT ![r] = chan[r]]
        /\ chan[r] \in Seq({"comment", "result"})
    BY <1>1 DEF StreamTypes
  <2>6. streams = streams + (IF task[r] \in InTask THEN 1 ELSE 0)
                          - (IF task[r] \in InTask THEN 1 ELSE 0)
    BY <1>2
  <2>7. QED  BY ONLY <1>2, <2>1, <2>2, <2>3, <2>4, <2>5, <2>6 DEF Streams
<1>31. QED
  BY <1>4, <1>5, <1>6, <1>7, <1>8, <1>9, <1>10, <1>11, <1>12, <1>13, <1>14, <1>15, <1>16,
       <1>17, <1>18, <1>19, <1>20, <1>21, <1>22, <1>23, <1>24, <1>25, <1>26, <1>27, <1>28,
       <1>29, <1>30 DEF Step, Progress, RunEnds

-----------------------------------------------------------------------------
(* The types of the rest *)

RestTypes ==
    /\ semaphores \in [Tenants -> Requests \cup {Nobody}]
    /\ ref \in [Requests -> Requests \cup {Nobody}]
    /\ queue \in [Semaphores -> Seq(Requests)]
    /\ calls \in [Requests -> [waiting : Nat, sending : Nat]]
    /\ leaves \in 0..MaxLeaves

\* Joining and leaving a queue.
LEMMA QueueTypes ==
    ASSUME RestTypes, NEW r \in Requests
    PROVE  /\ \A s \in Semaphores : Enqueue(r, s) => queue' \in [Semaphores -> Seq(Requests)]
           /\ Leave(r) => queue' \in [Semaphores -> Seq(Requests)]
<1>1. \A s \in Semaphores : queue[s] \in Seq(Requests)
  BY DEF RestTypes
<1>2. ASSUME NEW s \in Semaphores, Enqueue(r, s)
      PROVE  queue' \in [Semaphores -> Seq(Requests)]
  <2>1. Append(queue[s], r) \in Seq(Requests)
    BY <1>1
  <2>2. QED  BY <1>2, <2>1 DEF Enqueue, RestTypes
<1>3. ASSUME Leave(r) PROVE queue' \in [Semaphores -> Seq(Requests)]
  <2>1. \A s \in Semaphores : RemoveFirst(queue[s], r) \in Seq(Requests)
    BY <1>1, RemovedStaysTyped
  <2>2. QED  BY <1>3, <2>1 DEF Leave
<1>4. QED  BY <1>2, <1>3

\* The calls of a request.
LEMMA CallTypes ==
    ASSUME RestTypes, NEW r \in Requests, NEW w \in Nat, NEW s \in Nat, Counts(r, w, s)
    PROVE  calls' \in [Requests -> [waiting : Nat, sending : Nat]]
BY DEF Counts, RestTypes

\* What a future drops at its end.
LEMMA EndTypes ==
    ASSUME RestTypes, NEW r \in Requests, End(r) \/ Dropped(r), leaves' \in 0..MaxLeaves
    PROVE  RestTypes'
<1>1. ReleaseAll(r) /\ semaphores' = semaphores
  BY DEF End, Dropped
<1>2. queue' \in [Semaphores -> Seq(Requests)]
  BY <1>1, QueueTypes DEF ReleaseAll
<1>3. ref' \in [Requests -> Requests \cup {Nobody}]
  BY <1>1 DEF ReleaseAll, Unref, RestTypes
<1>4. calls' \in [Requests -> [waiting : Nat, sending : Nat]]
  BY <1>1 DEF ReleaseAll, RestTypes, NoCalls
<1>5. QED  BY <1>1, <1>2, <1>3, <1>4 DEF RestTypes

\* A step that touches none of these.
LEMMA RestStays ==
    ASSUME RestTypes, UNCHANGED <<semaphores, ref, queue, calls, leaves>>
    PROVE  RestTypes'
BY DEF RestTypes

\* Whatever a request does keeps the types.
LEMMA StepTypes ==
    ASSUME RestTypes, NEW r \in Requests, Step(r)
    PROVE  RestTypes'
<1>1. /\ leaves \in 0..MaxLeaves /\ calls[r].waiting \in Nat /\ calls[r].sending \in Nat
      /\ "jobs" \in Semaphores /\ "slots" \in Semaphores /\ Requests \subseteq Semaphores
  BY DEF RestTypes, Semaphores
<1>2. CASE GrantJob(r)
  <2>1. UNCHANGED <<semaphores, ref, calls, leaves>>
    BY <1>2 DEF GrantJob, tenant_vars
  <2>2. queue' \in [Semaphores -> Seq(Requests)]
    BY <1>2, QueueTypes DEF GrantJob
  <2>3. QED  BY <2>1, <2>2 DEF RestTypes
<1>3. CASE Lookup(r)
  <2> DEFINE kept == [t \in Tenants |->
                        IF Alive(semaphores[t]) THEN semaphores[t] ELSE Nobody]
             mine == IF kept[Tenant(r)] = Nobody THEN r ELSE kept[Tenant(r)]
  <2>1. /\ semaphores' = [kept EXCEPT ![Tenant(r)] = mine]
        /\ ref' = [ref EXCEPT ![r] = mine]
        /\ Enqueue(r, ref'[r]) /\ UNCHANGED <<calls, leaves>>
    BY <1>3 DEF Lookup, UseSemaphore
  <2>2. Tenant(r) \in Tenants
    BY DEF Tenant, Tenants
  <2>3. kept \in [Tenants -> Requests \cup {Nobody}] /\ mine \in Requests
    BY <2>2 DEF RestTypes
  <2> HIDE DEF mine, kept
  <2>4. /\ semaphores' \in [Tenants -> Requests \cup {Nobody}]
        /\ ref' \in [Requests -> Requests \cup {Nobody}] /\ ref'[r] = mine
    BY <2>1, <2>3 DEF RestTypes
  <2>5. queue' \in [Semaphores -> Seq(Requests)]
    BY <1>1, <2>1, <2>3, <2>4, QueueTypes
  <2>6. QED  BY <2>1, <2>4, <2>5 DEF RestTypes
<1>4. CASE GrantTenant(r)
  <2>1. UNCHANGED <<semaphores, ref, calls, leaves>>
    BY <1>4 DEF GrantTenant, tenant_vars
  <2>2. queue' \in [Semaphores -> Seq(Requests)]
    BY <1>4, QueueTypes DEF GrantTenant
  <2>3. QED  BY <2>1, <2>2 DEF RestTypes
<1>5. CASE Orchestrate(r)
  <2>1. UNCHANGED <<semaphores, ref, calls, leaves>>
    BY <1>5 DEF Orchestrate, tenant_vars
  <2>2. queue' = queue \/ Enqueue(r, "slots")
    BY <1>5 DEF Orchestrate, JoinQueue
  <2>3. queue' \in [Semaphores -> Seq(Requests)]
    BY <1>1, <2>2, QueueTypes DEF RestTypes
  <2>4. QED  BY <2>1, <2>3 DEF RestTypes
<1>6. CASE Poll(r)
  <2>1. UNCHANGED <<semaphores, ref, calls, leaves>>
    BY <1>6 DEF Poll, tenant_vars
  <2>2. queue' \in [Semaphores -> Seq(Requests)]
    BY <1>1, <1>6, QueueTypes DEF Poll, JoinQueue
  <2>3. QED  BY <2>1, <2>2 DEF RestTypes
<1>7. CASE GrantSlots(r)
  <2>1. UNCHANGED <<semaphores, ref, calls, leaves>>
    BY <1>7 DEF GrantSlots, tenant_vars
  <2>2. queue' \in [Semaphores -> Seq(Requests)]
    BY <1>7, QueueTypes DEF GrantSlots
  <2>3. QED  BY <2>1, <2>2 DEF RestTypes
<1>8. CASE Report(r)
  <2>1. CASE End(r)  BY <1>1, <2>1, EndTypes DEF End
  <2>2. CASE ~End(r)  BY <1>8, <2>2, RestStays DEF Report, tenant_vars
  <2>3. QED  BY <2>1, <2>2
<1>9. CASE GrantCall(r)
  <2>1. UNCHANGED <<semaphores, ref, queue, leaves>>
    BY <1>9 DEF GrantCall, OnlyCalls, tenant_vars
  <2>2. calls' \in [Requests -> [waiting : Nat, sending : Nat]]
    BY <1>1, <1>9, CallTypes DEF GrantCall
  <2>3. QED  BY <2>1, <2>2 DEF RestTypes
<1>10. CASE AgentCallEnds(r)
  <2>1. UNCHANGED <<semaphores, ref, queue, leaves>>
    BY <1>10 DEF AgentCallEnds, OnlyCalls, tenant_vars
  <2>2. calls' \in [Requests -> [waiting : Nat, sending : Nat]]
    BY <1>1, <1>10, CallTypes DEF AgentCallEnds
  <2>3. QED  BY <2>1, <2>2 DEF RestTypes
<1>11. CASE CallProvider(r)
  <2>1. UNCHANGED <<semaphores, ref, queue, leaves>>
    BY <1>11 DEF CallProvider, tenant_vars
  <2>2. calls' \in [Requests -> [waiting : Nat, sending : Nat]]
    BY <1>1, <1>11, CallTypes DEF CallProvider
  <2>3. QED  BY <2>1, <2>2 DEF RestTypes
<1>12. CASE CallAnswered(r)
  <2>1. UNCHANGED <<semaphores, ref, queue, leaves>>
    BY <1>12 DEF CallAnswered, tenant_vars
  <2>2. calls' \in [Requests -> [waiting : Nat, sending : Nat]]
    BY <1>1, <1>12, CallTypes DEF CallAnswered, RestTypes
  <2>3. QED  BY <2>1, <2>2 DEF RestTypes
<1>13. CASE HeadSent(r)
  <2>1. CASE End(r)  BY <1>1, <2>1, EndTypes DEF End
  <2>2. CASE ~End(r)
    <3>1. Unref(r) /\ UNCHANGED <<semaphores, queue, calls, leaves>>
      BY <1>13, <2>2 DEF HeadSent
    <3>2. QED  BY <3>1 DEF RestTypes, Unref
  <2>3. QED  BY <2>1, <2>2
<1>14. CASE BodyRead(r)
  BY <1>1, <1>14, EndTypes DEF BodyRead, End
<1>15. CASE FirstComment(r)
  <2>1. leaves' = leaves
    BY <1>15 DEF FirstComment
  <2>2. QED  BY <1>1, <1>15, <2>1, EndTypes, RestStays DEF FirstComment, TaskEnds, tenant_vars
<1>16. CASE TakeResult(r)
  BY <1>16, RestStays DEF TakeResult, tenant_vars
<1>17. CASE SendResult(r)
  <2>1. leaves' = leaves
    BY <1>17 DEF SendResult
  <2>2. QED  BY <1>1, <1>17, <2>1, EndTypes, RestStays DEF SendResult, TaskEnds, tenant_vars
<1>18. CASE KernelReturns(r)
  BY <1>18, RestStays DEF KernelReturns, tenant_vars
<1>19. CASE KernelFails(r)
  BY <1>1, <1>19, EndTypes DEF KernelFails, End
<1>20. CASE Arrive(r)
  <2>1. UNCHANGED <<semaphores, ref, calls, leaves>>
    BY <1>20 DEF Arrive, tenant_vars
  <2>2. queue' \in [Semaphores -> Seq(Requests)]
    BY <1>1, <1>20, QueueTypes DEF Arrive
  <2>3. QED  BY <2>1, <2>2 DEF RestTypes
<1>21. CASE StartCall(r)
  <2>1. UNCHANGED <<semaphores, ref, queue, leaves>>
    BY <1>21 DEF StartCall, OnlyCalls, tenant_vars
  <2>2. calls' \in [Requests -> [waiting : Nat, sending : Nat]]
    BY <1>1, <1>21, CallTypes DEF StartCall
  <2>3. QED  BY <2>1, <2>2 DEF RestTypes
<1>22. CASE Tick(r)
  <2>1. leaves' = leaves
    BY <1>22 DEF Tick
  <2>2. QED  BY <1>1, <1>22, <2>1, EndTypes, RestStays DEF Tick, TaskEnds, tenant_vars
<1>23. CASE TenantTimeout(r)
  BY <1>1, <1>23, EndTypes DEF TenantTimeout, End
<1>24. CASE PrepareFails(r)
  BY <1>1, <1>24, EndTypes DEF PrepareFails, End
<1>25. CASE SlotsTimeout(r)
  BY <1>1, <1>25, EndTypes DEF SlotsTimeout, End
<1>26. CASE CallFails(r)
  BY <1>1, <1>26, EndTypes DEF CallFails, End
<1>27. CASE ClientReads(r)
  BY <1>27, RestStays DEF ClientReads, tenant_vars
<1>28. CASE ClientLeaves(r)
  <2>1. leaves' \in 0..MaxLeaves
    BY <1>1, <1>28, LimitsAssumption DEF ClientLeaves
  <2>2. CASE Dropped(r)  BY <2>1, <2>2, EndTypes
  <2>3. CASE ~Dropped(r)
    <3>1. UNCHANGED <<semaphores, ref, queue, calls>>
      BY <1>28, <2>3 DEF ClientLeaves, tenant_vars
    <3>2. QED  BY <2>1, <3>1 DEF RestTypes
  <2>4. QED  BY <2>2, <2>3
<1>29. QED
  BY <1>2, <1>3, <1>4, <1>5, <1>6, <1>7, <1>8, <1>9, <1>10, <1>11, <1>12, <1>13, <1>14, <1>15,
       <1>16, <1>17, <1>18, <1>19, <1>20, <1>21, <1>22, <1>23, <1>24, <1>25, <1>26, <1>27,
       <1>28 DEF Step, Progress, RunEnds

-----------------------------------------------------------------------------
(* Sums over sets of requests *)

\* The sum of the values of w over T, as the module's MapThenSumSet computes it.
Sum(w, T) == MapThenSumSet(LAMBDA r : w[r], T)

\* One step of that computation, for the subsets of T.
SumStep(w, f, T) ==
    [s \in SUBSET T |->
        IF s = {} THEN 0 ELSE LET x == CHOOSE x \in s : TRUE IN w[x] + f[s \ {x}]]

\* f is the table of the sums of w over all sets of requests.
SumTable(w, f) == f \in [SUBSET Requests -> Nat] /\ f = SumStep(w, f, Requests)

\* A collection of sets of requests that is not empty has a member none of
\* whose proper subsets belongs to it.
LEMMA Smallest ==
    ASSUME NEW C \in SUBSET (SUBSET Requests), C # {}
    PROVE  \E s \in C : \A t \in C : t \subseteq s => t = s
<1>1. \A s \in SUBSET Requests : IsFiniteSet(s) /\ Cardinality(s) \in Nat
  BY RequestsAssumption, FS_Subset, FS_CardinalityType
<1> DEFINE Sizes == {Cardinality(s) : s \in C}
<1>2. PICK n \in Sizes : \A m \in Sizes : n <= m
  <2>1. Sizes \in SUBSET Nat /\ Sizes # {}
    BY <1>1
  <2>2. QED  BY <2>1, Least
<1>3. PICK s \in C : Cardinality(s) = n
  BY <1>2
<1>4. ASSUME NEW t \in C, t \subseteq s PROVE t = s
  <2>1. IsFiniteSet(s) /\ Cardinality(s) \in Nat /\ Cardinality(t) \in Nat
    BY <1>1
  <2>2. Cardinality(s) <= Cardinality(t)
    BY <1>2, <1>3
  <2>3. Cardinality(t) <= Cardinality(s) /\ (Cardinality(s) = Cardinality(t) => s = t)
    BY <1>4, <2>1, FS_Subset
  <2>4. QED  BY <2>1, <2>2, <2>3
<1>5. QED  BY <1>3, <1>4

\* There is a table of sums: it is built up by the size of the sets.
LEMMA SumTableExists ==
    ASSUME NEW w \in [Requests -> Nat]
    PROVE  \E f : SumTable(w, f)
<1> DEFINE Small(n) == {s \in SUBSET Requests : Cardinality(s) <= n}
           Value(f, s) ==
               IF s = {} THEN 0 ELSE LET x == CHOOSE x \in s : TRUE IN w[x] + f[s \ {x}]
           Table(n, f) == f \in [Small(n) -> Nat] /\ \A s \in Small(n) : f[s] = Value(f, s)
           Missing == {n \in Nat : ~ \E f : Table(n, f)}
<1>1. \A s \in SUBSET Requests : IsFiniteSet(s) /\ Cardinality(s) \in Nat
  BY RequestsAssumption, FS_Subset, FS_CardinalityType
<1>2. \A s \in SUBSET Requests : s # {} =>
        /\ (CHOOSE x \in s : TRUE) \in s
        /\ Cardinality(s \ {CHOOSE x \in s : TRUE}) = Cardinality(s) - 1
  BY <1>1, FS_RemoveElement
<1>3. \A s \in SUBSET Requests : Cardinality(s) = 0 <=> s = {}
  BY <1>1, FS_EmptySet
<1>4. \E f : Table(0, f)
  <2> DEFINE f == [s \in Small(0) |-> 0]
  <2>1. \A s \in Small(0) : s = {}
    BY <1>1, <1>3
  <2>2. Table(0, f)
    BY <2>1
  <2>3. QED  BY <2>2
<1>5. ASSUME NEW n \in Nat, NEW f, Table(n, f) PROVE \E g : Table(n + 1, g)
  <2> DEFINE g == [s \in Small(n + 1) |-> Value(f, s)]
  <2>1. Small(n) \subseteq Small(n + 1)
    BY <1>1
  <2>2. ASSUME NEW s \in Small(n + 1), s # {}
        PROVE  /\ (CHOOSE x \in s : TRUE) \in Requests
               /\ s \ {CHOOSE x \in s : TRUE} \in Small(n)
    BY <1>1, <1>2, <2>2
  <2>3. g \in [Small(n + 1) -> Nat]
    BY <1>5, <2>2
  <2>4. \A s \in Small(n) : g[s] = f[s]
    BY <1>5, <2>1
  <2>5. ASSUME NEW s \in Small(n + 1) PROVE g[s] = Value(g, s)
    <3>1. g[s] = Value(f, s)
      OBVIOUS
    <3>2. CASE s = {}
      BY <3>1, <3>2
    <3>3. CASE s # {}
      <4>1. g[s \ {CHOOSE x \in s : TRUE}] = f[s \ {CHOOSE x \in s : TRUE}]
        BY <2>2, <2>4, <3>3
      <4>2. QED  BY <3>1, <3>3, <4>1
    <3>4. QED  BY <3>2, <3>3
  <2>6. Table(n + 1, g)
    BY <2>3, <2>5
  <2>7. QED  BY <2>6
<1>6. Missing = {}
  <2>1. SUFFICES ASSUME Missing # {} PROVE FALSE
    OBVIOUS
  <2> HIDE DEF Table
  <2>2. PICK n \in Missing : \A m \in Missing : n <= m
    BY <2>1, Least
  <2>3. n \in Nat /\ n # 0
    BY <1>4, <2>2
  <2>4. n - 1 \in Nat /\ n - 1 \notin Missing
    BY <2>2, <2>3
  <2>5. \E f : Table(n - 1, f)
    BY <2>4
  <2>6. \E g : Table((n - 1) + 1, g)
    BY <1>5, <2>4, <2>5
  <2>7. (n - 1) + 1 = n
    BY <2>3
  <2>8. QED  BY <2>2, <2>6, <2>7
<1>7. PICK f : Table(Cardinality(Requests), f)
  <2> HIDE DEF Table
  <2>1. Cardinality(Requests) \in Nat
    BY <1>1
  <2>2. QED  BY <1>6, <2>1
<1>8. Small(Cardinality(Requests)) = SUBSET Requests
  BY <1>1, RequestsAssumption, FS_Subset
<1>9. SumTable(w, f)
  BY <1>7, <1>8 DEF SumTable, SumStep
<1>10. QED  BY <1>9

\* Sum is read off the table: the recursive function that computes it over T
\* agrees with the table on every subset of T.
LEMMA SumIsInTable ==
    ASSUME NEW w \in [Requests -> Nat], NEW f, SumTable(w, f), NEW T \in SUBSET Requests
    PROVE  Sum(w, T) = f[T]
<1> DEFINE g == CHOOSE h : h = SumStep(w, h, T)
<1>1. Sum(w, T) = g[T]
  BY DEF Sum, MapThenSumSet, MapThenFoldSet, SumStep
<1>2. g = SumStep(w, g, T)
  <2> DEFINE h == [s \in SUBSET T |-> f[s]]
  <2>1. h = SumStep(w, h, T)
    <3>1. ASSUME NEW s \in SUBSET T
          PROVE  h[s] = IF s = {} THEN 0
                        ELSE LET x == CHOOSE x \in s : TRUE IN w[x] + h[s \ {x}]
      BY DEF SumTable, SumStep
    <3>2. QED  BY <3>1 DEF SumStep
  <2>2. QED  BY <2>1
<1> HIDE DEF g
<1> DEFINE Differ == {s \in SUBSET T : g[s] # f[s]}
<1>3. Differ = {}
  <2>1. SUFFICES ASSUME Differ # {} PROVE FALSE
    OBVIOUS
  <2>2. PICK s \in Differ : \A t \in Differ : t \subseteq s => t = s
    <3>1. Differ \in SUBSET (SUBSET Requests)
      OBVIOUS
    <3>2. QED  BY <2>1, <3>1, Smallest
  <2>3. g[s] = IF s = {} THEN 0 ELSE LET x == CHOOSE x \in s : TRUE IN w[x] + g[s \ {x}]
    BY <1>2 DEF SumStep
  <2>4. f[s] = IF s = {} THEN 0 ELSE LET x == CHOOSE x \in s : TRUE IN w[x] + f[s \ {x}]
    BY DEF SumTable, SumStep
  <2>5. s # {}
    BY <2>2, <2>3, <2>4
  <2> DEFINE c == CHOOSE x \in s : TRUE
  <2>6. c \in s
    BY <2>5
  <2>7. g[s \ {c}] = f[s \ {c}]
    <3>1. s \ {c} # s /\ s \ {c} \subseteq s /\ s \ {c} \in SUBSET T
      BY <2>6
    <3>2. QED  BY <2>2, <3>1
  <2>8. QED  BY <2>2, <2>3, <2>4, <2>7
<1>4. QED  BY <1>1, <1>3

\* An element can be taken out of a sum first, whichever the computation takes.
LEMMA TableTakesAny ==
    ASSUME NEW w \in [Requests -> Nat], NEW f, SumTable(w, f)
    PROVE  \A s \in SUBSET Requests : \A r \in s : f[s] = w[r] + f[s \ {r}]
<1> DEFINE Wrong == {s \in SUBSET Requests : \E r \in s : f[s] # w[r] + f[s \ {r}]}
<1>1. SUFFICES ASSUME Wrong # {} PROVE FALSE
  OBVIOUS
<1>2. PICK s \in Wrong : \A t \in Wrong : t \subseteq s => t = s
  <2>1. Wrong \in SUBSET (SUBSET Requests)
    OBVIOUS
  <2>2. QED  BY <1>1, <2>1, Smallest
<1>3. PICK r \in s : f[s] # w[r] + f[s \ {r}]
  BY <1>2
<1> DEFINE c == CHOOSE x \in s : TRUE
<1>4. c \in s /\ f[s] = w[c] + f[s \ {c}]
  BY <1>3 DEF SumTable, SumStep
<1> HIDE DEF c
<1>5. c # r
  BY <1>3, <1>4
<1>6. s \ {c} \notin Wrong /\ s \ {r} \notin Wrong
  BY <1>2, <1>3, <1>4
<1>7. f[s \ {c}] = w[r] + f[(s \ {c}) \ {r}] /\ f[s \ {r}] = w[c] + f[(s \ {r}) \ {c}]
  BY <1>3, <1>4, <1>5, <1>6
<1>8. (s \ {c}) \ {r} = (s \ {r}) \ {c}
  OBVIOUS
<1> DEFINE rest == f[(s \ {r}) \ {c}]
<1>9. w[r] \in Nat /\ w[c] \in Nat /\ rest \in Nat
  BY <1>3, <1>4 DEF SumTable
<1>10. f[s] = w[c] + (w[r] + rest) /\ f[s \ {r}] = w[c] + rest
  BY <1>4, <1>7, <1>8
<1> HIDE DEF rest
<1>11. QED  BY <1>3, <1>9, <1>10

\* What a sum is: a natural number, zero over nothing, and any element can be
\* taken out of it.
LEMMA SumTakes ==
    ASSUME NEW w \in [Requests -> Nat]
    PROVE  /\ \A T \in SUBSET Requests : Sum(w, T) \in Nat
           /\ Sum(w, {}) = 0
           /\ \A T \in SUBSET Requests : \A r \in T : Sum(w, T) = w[r] + Sum(w, T \ {r})
<1>1. PICK f : SumTable(w, f)
  BY SumTableExists
<1>2. \A T \in SUBSET Requests : Sum(w, T) = f[T] /\ f[T] \in Nat
  BY <1>1, SumIsInTable DEF SumTable
<1>3. f[{}] = 0
  BY <1>1 DEF SumTable, SumStep
<1>4. \A T \in SUBSET Requests : \A r \in T : f[T] = w[r] + f[T \ {r}]
  <2>1. SUFFICES ASSUME NEW T \in SUBSET Requests, NEW r \in T PROVE f[T] = w[r] + f[T \ {r}]
    OBVIOUS
  <2>2. SumTable(w, f)
    BY <1>1
  <2>3. QED  BY <2>2, TableTakesAny
<1>5. ASSUME NEW T \in SUBSET Requests, NEW r \in T PROVE Sum(w, T) = w[r] + Sum(w, T \ {r})
  <2>1. T \ {r} \in SUBSET Requests
    OBVIOUS
  <2>2. Sum(w, T) = f[T] /\ Sum(w, T \ {r}) = f[T \ {r}]
    BY <1>2, <2>1
  <2>3. QED  BY <1>4, <2>2
<1>6. Sum(w, {}) = 0
  BY <1>2, <1>3
<1>7. QED  BY <1>2, <1>5, <1>6

\* Sums of smaller values are smaller.
LEMMA SumAtMost ==
    ASSUME NEW u \in [Requests -> Nat], NEW w \in [Requests -> Nat],
           NEW T \in SUBSET Requests, \A r \in T : u[r] <= w[r]
    PROVE  Sum(u, T) <= Sum(w, T)
<1> DEFINE Wrong == {s \in SUBSET T : ~(Sum(u, s) <= Sum(w, s))}
<1>1. SUFFICES ASSUME Wrong # {} PROVE FALSE
  OBVIOUS
<1>2. PICK s \in Wrong : \A t \in Wrong : t \subseteq s => t = s
  <2>1. Wrong \in SUBSET (SUBSET Requests)
    OBVIOUS
  <2>2. QED  BY <1>1, <2>1, Smallest
<1>3. s # {}
  <2>1. Sum(u, {}) <= Sum(w, {})
    BY SumTakes
  <2>2. QED  BY <1>2, <2>1
<1>4. PICK r \in s : TRUE
  BY <1>3
<1>5. s \ {r} \notin Wrong /\ s \ {r} \in SUBSET T
  BY <1>2, <1>4
<1>6. Sum(u, s \ {r}) <= Sum(w, s \ {r})
  BY <1>5
<1>7. /\ Sum(u, s) = u[r] + Sum(u, s \ {r}) /\ Sum(w, s) = w[r] + Sum(w, s \ {r})
      /\ Sum(u, s \ {r}) \in Nat /\ Sum(w, s \ {r}) \in Nat
  <2>1. s \in SUBSET Requests /\ s \ {r} \in SUBSET Requests
    BY <1>2
  <2>2. QED  BY <1>4, <2>1, SumTakes
<1>8. u[r] \in Nat /\ w[r] \in Nat /\ u[r] <= w[r]
  BY <1>2, <1>4
<1>9. Sum(u, s) <= Sum(w, s)
  BY <1>6, <1>7, <1>8
<1>10. QED  BY <1>2, <1>9

\* The sum over a part is at most the sum over the whole, and the same when
\* there is nothing in the rest.
LEMMA SumOfPart ==
    ASSUME NEW w \in [Requests -> Nat], NEW S \in SUBSET Requests, NEW T \in SUBSET S
    PROVE  /\ Sum(w, T) <= Sum(w, S)
           /\ (\A r \in S \ T : w[r] = 0) => Sum(w, S) = Sum(w, T)
<1> DEFINE Zero == \A r \in S \ T : w[r] = 0
           Right(s) == Sum(w, T) <= Sum(w, s) /\ (Zero => Sum(w, s) = Sum(w, T))
           Wrong == {s \in SUBSET S : T \subseteq s /\ ~Right(s)}
<1>1. SUFFICES ASSUME Wrong # {} PROVE FALSE
  OBVIOUS
<1>2. PICK s \in Wrong : \A t \in Wrong : t \subseteq s => t = s
  <2>1. Wrong \in SUBSET (SUBSET Requests)
    OBVIOUS
  <2>2. QED  BY <1>1, <2>1, Smallest
<1>3. s # T
  <2>1. Sum(w, T) \in Nat
    BY SumTakes
  <2>2. QED  BY <1>2, <2>1
<1>4. PICK r \in s : r \notin T
  BY <1>2, <1>3
<1>5. Right(s \ {r})
  <2>1. s \ {r} \notin Wrong /\ s \ {r} \in SUBSET S /\ T \subseteq s \ {r}
    BY <1>2, <1>4
  <2>2. QED  BY <2>1
<1>6. /\ Sum(w, s) = w[r] + Sum(w, s \ {r})
      /\ Sum(w, s \ {r}) \in Nat /\ Sum(w, T) \in Nat /\ w[r] \in Nat
  <2>1. s \in SUBSET Requests /\ s \ {r} \in SUBSET Requests
    BY <1>2
  <2>2. QED  BY <1>4, <2>1, SumTakes
<1>7. Zero => w[r] = 0
  BY <1>2, <1>4
<1> HIDE DEF Zero
<1>8. Right(s)
  BY <1>5, <1>6, <1>7
<1>9. QED  BY <1>2, <1>8

\* A multiple of every value gives the multiple of the sum.
LEMMA SumOfMultiple ==
    ASSUME NEW w \in [Requests -> Nat], NEW p \in Nat, NEW T \in SUBSET Requests
    PROVE  Sum([r \in Requests |-> p * w[r]], T) = p * Sum(w, T)
<1> DEFINE v == [r \in Requests |-> p * w[r]]
           Wrong == {s \in SUBSET T : Sum(v, s) # p * Sum(w, s)}
<1>1. v \in [Requests -> Nat] /\ \A r \in Requests : v[r] = p * w[r]
  OBVIOUS
<1> HIDE DEF v
<1>2. SUFFICES ASSUME Wrong # {} PROVE FALSE
  BY DEF v
<1>3. PICK s \in Wrong : \A t \in Wrong : t \subseteq s => t = s
  <2>1. Wrong \in SUBSET (SUBSET Requests)
    OBVIOUS
  <2>2. QED  BY <1>2, <2>1, Smallest
<1>4. s # {}
  <2>1. Sum(v, {}) = 0 /\ Sum(w, {}) = 0
    BY <1>1, SumTakes
  <2>2. p * 0 = 0
    OBVIOUS
  <2>3. Sum(v, {}) = p * Sum(w, {})
    BY ONLY <2>1, <2>2
  <2>4. QED  BY <1>3, <2>3
<1>5. PICK r \in s : TRUE
  BY <1>4
<1>6. Sum(v, s \ {r}) = p * Sum(w, s \ {r})
  <2>1. s \ {r} \notin Wrong /\ s \ {r} \in SUBSET T
    BY <1>3, <1>5
  <2>2. QED  BY <2>1
<1>7. s \in SUBSET Requests /\ s \ {r} \in SUBSET Requests
  BY <1>3
<1>8. Sum(v, s) = v[r] + Sum(v, s \ {r})
  BY <1>1, <1>5, <1>7, SumTakes
<1>9. Sum(w, s) = w[r] + Sum(w, s \ {r}) /\ Sum(w, s \ {r}) \in Nat /\ w[r] \in Nat
  BY <1>5, <1>7, SumTakes
<1>10. v[r] = p * w[r]
  BY <1>1, <1>7
<1>11. \A a, b \in Nat : p * (a + b) = p * a + p * b
  OBVIOUS
<1>12. Sum(v, s) = p * Sum(w, s)
  BY <1>6, <1>8, <1>9, <1>10, <1>11
<1>13. QED  BY <1>3, <1>12

-----------------------------------------------------------------------------
(* The slots of the orchestration admission *)

Weights == [r \in Requests |-> Weight(r)]

\* What Max and Min are of two numbers.
LEMMA OfTwo ==
    ASSUME NEW a \in Nat, NEW b \in Nat
    PROVE  /\ Max({a, b}) = IF a >= b THEN a ELSE b
           /\ Min({a, b}) = IF a <= b THEN a ELSE b
BY DEF Max, Min

\* A request has a slot at least and all slots at most, and below that enough
\* for its agents: rounding up never leaves an agent without room.
LEMMA WeightBounds ==
    ASSUME NEW r \in Requests
    PROVE  /\ Agents(r) \in Nat \ {0} /\ Weight(r) \in 1..Limit
           /\ Weight(r) < Limit => Agents(r) <= PerSlot * Weight(r)
<1> DEFINE a == Agents(r)
           q == (a + PerSlot - 1) \div PerSlot
<1>1. a \in Nat \ {0}
  BY ParallelAssumption, OfTwo DEF Agents
<1>2. Weight(r) = Max({1, Min({q, Limit})})
  BY DEF Weight, Agents
<1> HIDE DEF a
<1>3. q \in Nat /\ a <= PerSlot * q
  BY <1>1, LimitsAssumption
<1> HIDE DEF q
<1>4. Min({q, Limit}) = IF q <= Limit THEN q ELSE Limit
  BY <1>3, LimitsAssumption, OfTwo
<1>5. Weight(r) = IF 1 >= Min({q, Limit}) THEN 1 ELSE Min({q, Limit})
  <2>1. Min({q, Limit}) \in Nat
    BY <1>3, <1>4, LimitsAssumption
  <2>2. QED  BY <1>2, <2>1, OfTwo
<1>6. Weight(r) \in 1..Limit
  BY <1>3, <1>4, <1>5, LimitsAssumption
<1>7. ASSUME Weight(r) < Limit PROVE a <= PerSlot * Weight(r)
  <2>1. q <= Weight(r)
    BY <1>3, <1>4, <1>5, <1>6, <1>7, LimitsAssumption
  <2>2. \A i, j, p \in Nat : i <= j => p * i <= p * j
    OBVIOUS
  <2>3. PerSlot * q <= PerSlot * Weight(r)
    BY <1>3, <1>6, <2>1, <2>2, LimitsAssumption
  <2>4. PerSlot * q \in Nat /\ PerSlot * Weight(r) \in Nat
    BY <1>3, <1>6, LimitsAssumption
  <2>5. QED  BY <1>1, <1>3, <2>3, <2>4
<1>8. QED  BY <1>1, <1>6, <1>7 DEF a

\* The slots in use are a sum over the requests that run.
LEMMA UsedSlotsIsSum ==
    /\ Weights \in [Requests -> Nat]
    /\ UsedSlots = Sum(Weights, Running)
    /\ UsedSlots' = Sum(Weights, Running')
<1>1. \A r \in Requests : Weight(r) \in Nat
  BY WeightBounds, LimitsAssumption
<1>2. Weights \in [Requests -> Nat]
  BY <1>1 DEF Weights
<1>3. UsedSlots = Sum(Weights, Running)
  BY DEF UsedSlots, Sum, MapThenSumSet, MapThenFoldSet, Running, Weights
<1>4. UsedSlots' = Sum(Weights, Running')
  BY DEF UsedSlots, Sum, MapThenSumSet, MapThenFoldSet, Running, Weights
<1>5. QED  BY <1>2, <1>3, <1>4

\* The provider permits in use are a sum over all requests.
LEMMA SendingIsSum ==
    ASSUME calls \in [Requests -> [waiting : Nat, sending : Nat]]
    PROVE  /\ [r \in Requests |-> calls[r].sending] \in [Requests -> Nat]
           /\ Sending = Sum([r \in Requests |-> calls[r].sending], Requests)
<1>1. \A r \in Requests : calls[r].sending \in Nat
  OBVIOUS
<1> DEFINE w == [r \in Requests |-> calls[r].sending]
           Stepped(f) == [s \in SUBSET Requests |->
               IF s = {} THEN 0
               ELSE LET x == CHOOSE x \in s : TRUE IN calls[x].sending + f[s \ {x}]]
<1>2. Sending = Sum(w, Requests)
  <2>1. ASSUME NEW f PROVE Stepped(f) = SumStep(w, f, Requests)
    <3>1. \A s \in SUBSET Requests : s # {} => (CHOOSE x \in s : TRUE) \in Requests
      OBVIOUS
    <3>2. QED  BY <3>1 DEF SumStep
  <2>2. Sending = (CHOOSE f : f = Stepped(f))[Requests]
    BY DEF Sending, MapThenSumSet, MapThenFoldSet
  <2>3. Sum(w, Requests) = (CHOOSE f : f = SumStep(w, f, Requests))[Requests]
    BY DEF Sum, MapThenSumSet, MapThenFoldSet, SumStep
  <2> HIDE DEF Stepped, w
  <2>4. (CHOOSE f : f = Stepped(f)) = (CHOOSE f : f = SumStep(w, f, Requests))
    BY <2>1
  <2>5. QED  BY <2>2, <2>3, <2>4
<1>3. QED  BY <1>1, <1>2

-----------------------------------------------------------------------------
(* The calls of a run *)

\* A step changes the calls of its own request only, keeps them within its
\* agents, and lets a run begin only by a grant of slots.
CallsMove(r) ==
    /\ calls' = [calls EXCEPT ![r] = calls'[r]]
    /\ CallsFit(r)'
    /\ phase'[r] = "running" => phase[r] = "running" \/ GrantSlots(r)

\* The types that this part needs.
CallsTyped ==
    /\ phase \in [Requests -> Phases]
    /\ calls \in [Requests -> [waiting : Nat, sending : Nat]]

\* The end of a future drops its calls.
LEMMA EndCalls ==
    ASSUME CallsTyped, NEW r \in Requests, End(r) \/ Dropped(r)
    PROVE  CallsMove(r)
<1>1. calls' = [calls EXCEPT ![r] = NoCalls]
  BY DEF End, Dropped, ReleaseAll
<1>2. PICK p \in {"answered", "done"} : phase' = [phase EXCEPT ![r] = p]
  BY DEF End, Dropped, Goto
<1>3. calls'[r] = NoCalls /\ phase'[r] = p
  BY <1>1, <1>2 DEF CallsTyped
<1>4. QED  BY <1>1, <1>3 DEF CallsMove, CallsFit, BeforeCalls

\* A step that leaves calls and phases alone.
LEMMA CallsStay ==
    ASSUME CallsTyped, NEW r \in Requests, CallsFit(r), UNCHANGED <<calls, phase>>
    PROVE  CallsMove(r)
BY DEF CallsTyped, CallsMove, CallsFit, Agents

\* A step to another phase that leaves the calls alone.
LEMMA CallsKept ==
    ASSUME CallsTyped, NEW r \in Requests, CallsFit(r), UNCHANGED calls, NEW p, Goto(r, p),
           p \in BeforeCalls => phase[r] \in BeforeCalls,
           p = "running" => GrantSlots(r)
    PROVE  CallsMove(r)
<1>1. calls' = calls /\ phase'[r] = p
  BY DEF Goto, CallsTyped
<1>2. calls' = [calls EXCEPT ![r] = calls'[r]]
  BY <1>1 DEF CallsTyped
<1>3. CASE p = "running"
  <2>1. calls[r] = NoCalls /\ Agents(r) \in Nat
    BY <1>3, WeightBounds DEF GrantSlots, CallsFit, BeforeCalls
  <2>2. calls'[r].waiting + calls'[r].sending <= Agents(r)
    BY <1>1, <2>1 DEF NoCalls
  <2>3. CallsFit(r)'
    BY <1>1, <1>3, <2>2 DEF CallsFit, BeforeCalls, Agents
  <2>4. QED  BY <1>2, <1>3, <2>3 DEF CallsMove
<1>4. CASE p # "running"
  BY <1>1, <1>2, <1>4 DEF CallsMove, CallsFit
<1>5. QED  BY <1>3, <1>4

\* A step of the calls of a request.
LEMMA CallsChange ==
    ASSUME CallsTyped, NEW r \in Requests, NEW w \in Nat, NEW s \in Nat, Counts(r, w, s),
           phase'[r] \notin BeforeCalls,
           phase'[r] = "running" => phase[r] = "running" /\ w + s <= Agents(r)
    PROVE  CallsMove(r)
<1>1. /\ calls' = [calls EXCEPT ![r] = [waiting |-> w, sending |-> s]]
      /\ calls'[r] = [waiting |-> w, sending |-> s]
  BY DEF Counts, CallsTyped
<1>2. CallsFit(r)'
  BY <1>1 DEF CallsFit, Agents
<1>3. QED  BY <1>1, <1>2 DEF CallsMove

\* Whatever a request does, its calls stay within its agents.
LEMMA StepCalls ==
    ASSUME TypeOK, CallsFollow, NEW r \in Requests, Step(r)
    PROVE  CallsMove(r)
<1>1. /\ CallsTyped /\ CallsFit(r) /\ phase[r] \in Phases
      /\ calls[r].waiting \in Nat /\ calls[r].sending \in Nat /\ Agents(r) \in Nat \ {0}
  BY WeightBounds DEF CallsTyped, TypeOK, CallsFollow
<1>2. CASE GrantJob(r)
  <2>1. Goto(r, "start") /\ UNCHANGED calls
    BY <1>2 DEF GrantJob
  <2>2. "start" \in BeforeCalls => phase[r] \in BeforeCalls
    BY <1>2 DEF GrantJob, BeforeCalls
  <2>3. QED  BY <1>1, <1>2, <2>1, <2>2, CallsKept
<1>3. CASE Lookup(r)
  <2>1. Goto(r, "tenant") /\ UNCHANGED calls
    BY <1>3 DEF Lookup
  <2>2. "tenant" \in BeforeCalls => phase[r] \in BeforeCalls
    BY <1>3 DEF Lookup, BeforeCalls
  <2>3. QED  BY <1>1, <1>3, <2>1, <2>2, CallsKept
<1>4. CASE GrantTenant(r)
  <2>1. Goto(r, "admitted") /\ UNCHANGED calls
    BY <1>4 DEF GrantTenant
  <2>2. "admitted" \in BeforeCalls => phase[r] \in BeforeCalls
    BY <1>4 DEF GrantTenant, BeforeCalls
  <2>3. QED  BY <1>1, <1>4, <2>1, <2>2, CallsKept
<1>5. CASE Orchestrate(r)
  <2>1. UNCHANGED calls /\ phase[r] \in BeforeCalls
    BY <1>5 DEF Orchestrate, BeforeCalls
  <2>2. Goto(r, "unpolled") \/ Goto(r, "orchestrate")
    BY <1>5 DEF Orchestrate, JoinQueue
  <2>3. QED  BY <1>1, <2>1, <2>2, CallsKept
<1>6. CASE Poll(r)
  <2>1. Goto(r, "orchestrate") /\ UNCHANGED calls
    BY <1>6 DEF Poll, JoinQueue
  <2>2. "orchestrate" \in BeforeCalls => phase[r] \in BeforeCalls
    BY <1>6 DEF Poll, BeforeCalls
  <2>3. QED  BY <1>1, <1>6, <2>1, <2>2, CallsKept
<1>7. CASE GrantSlots(r)
  <2>1. Goto(r, "running") /\ UNCHANGED calls
    BY <1>7 DEF GrantSlots
  <2>2. "running" \in BeforeCalls => phase[r] \in BeforeCalls
    BY <1>7 DEF GrantSlots, BeforeCalls
  <2>3. QED  BY <1>1, <1>7, <2>1, <2>2, CallsKept
<1>8. CASE Report(r)
  <2>1. CASE End(r)  BY <1>1, <2>1, EndCalls
  <2>2. CASE ~End(r)
    <3>1. Goto(r, "head") /\ UNCHANGED calls
      BY <1>8, <2>2 DEF Report
    <3>2. QED  BY <1>1, <3>1, CallsKept DEF BeforeCalls
  <2>3. QED  BY <2>1, <2>2
<1>9. CASE GrantCall(r)
  <2> DEFINE w == calls[r].waiting - 1
             s == calls[r].sending + 1
  <2>1. Counts(r, w, s) /\ w \in Nat /\ s \in Nat
    BY <1>1, <1>9 DEF GrantCall
  <2>2. phase[r] \notin BeforeCalls
    BY <1>1, <1>9 DEF GrantCall, CallsFit, NoCalls
  <2>3. phase'[r] = phase[r] \/ phase'[r] = "sending"
    BY <1>1, <1>9 DEF GrantCall, OnlyCalls, Goto, CallsTyped
  <2>4. phase[r] = "running" => w + s <= Agents(r)
    BY <1>1 DEF CallsFit
  <2> HIDE DEF w, s
  <2>5. QED  BY <1>1, <2>1, <2>2, <2>3, <2>4, CallsChange DEF BeforeCalls
<1>10. CASE AgentCallEnds(r)
  <2>1. phase[r] = "running" /\ phase'[r] = "running"
    BY <1>10 DEF AgentCallEnds, OnlyCalls
  <2>2. calls[r].waiting + calls[r].sending <= Agents(r)
    BY <1>1, <2>1 DEF CallsFit
  <2>3. PICK w \in Nat, s \in Nat : Counts(r, w, s) /\ w + s <= Agents(r)
    BY <1>1, <1>10, <2>2 DEF AgentCallEnds
  <2>4. QED  BY <1>1, <2>1, <2>3, CallsChange DEF BeforeCalls
<1>11. CASE CallProvider(r)
  <2>1. Counts(r, 1, 0) /\ phase'[r] = "provider"
    BY <1>1, <1>11 DEF CallProvider, Goto, CallsTyped
  <2>2. QED  BY <1>1, <2>1, CallsChange DEF BeforeCalls
<1>12. CASE CallAnswered(r)
  <2>1. CASE Goto(r, "head") /\ UNCHANGED calls
    BY <1>1, <2>1, CallsKept DEF BeforeCalls
  <2>2. CASE Goto(r, "store") /\ Counts(r, 0, 0)
    <3>1. phase'[r] = "store"
      BY <1>1, <2>2 DEF Goto, CallsTyped
    <3>2. QED  BY <1>1, <2>2, <3>1, CallsChange DEF BeforeCalls
  <2>3. QED  BY <1>12, <2>1, <2>2 DEF CallAnswered
<1>13. CASE HeadSent(r)
  <2>1. CASE End(r)  BY <1>1, <2>1, EndCalls
  <2>2. CASE ~End(r)
    <3>1. Goto(r, "body") /\ UNCHANGED calls
      BY <1>13, <2>2 DEF HeadSent
    <3>2. QED  BY <1>1, <3>1, CallsKept DEF BeforeCalls
  <2>3. QED  BY <2>1, <2>2
<1>14. CASE BodyRead(r)
  BY <1>1, <1>14, EndCalls DEF BodyRead
<1>15. CASE FirstComment(r)
  BY <1>1, <1>15, EndCalls, CallsStay DEF FirstComment, TaskEnds
<1>16. CASE TakeResult(r)
  <2>1. Goto(r, "done") /\ UNCHANGED calls
    BY <1>16 DEF TakeResult
  <2>2. "done" \in BeforeCalls => phase[r] \in BeforeCalls
    BY <1>16 DEF TakeResult, BeforeCalls
  <2>3. QED  BY <1>1, <1>16, <2>1, <2>2, CallsKept
<1>17. CASE SendResult(r)
  BY <1>1, <1>17, EndCalls DEF SendResult, TaskEnds
<1>18. CASE KernelReturns(r)
  <2>1. Goto(r, "finishing") /\ UNCHANGED calls
    BY <1>18 DEF KernelReturns
  <2>2. "finishing" \in BeforeCalls => phase[r] \in BeforeCalls
    BY <1>18 DEF KernelReturns, BeforeCalls
  <2>3. QED  BY <1>1, <1>18, <2>1, <2>2, CallsKept
<1>19. CASE KernelFails(r)
  BY <1>1, <1>19, EndCalls DEF KernelFails
<1>20. CASE Arrive(r)
  <2>1. Goto(r, "job") /\ UNCHANGED calls
    BY <1>20 DEF Arrive
  <2>2. "job" \in BeforeCalls => phase[r] \in BeforeCalls
    BY <1>20 DEF Arrive, BeforeCalls
  <2>3. QED  BY <1>1, <1>20, <2>1, <2>2, CallsKept
<1>21. CASE StartCall(r)
  <2>1. /\ Counts(r, calls[r].waiting + 1, calls[r].sending)
        /\ phase'[r] = "running" /\ phase[r] = "running"
        /\ calls[r].waiting + calls[r].sending < Agents(r)
    BY <1>21 DEF StartCall, OnlyCalls, Agents
  <2>2. (calls[r].waiting + 1) + calls[r].sending <= Agents(r)
    BY <1>1, <2>1
  <2>3. QED  BY <1>1, <2>1, <2>2, CallsChange DEF BeforeCalls
<1>22. CASE Tick(r)
  BY <1>1, <1>22, EndCalls, CallsStay DEF Tick, TaskEnds
<1>23. CASE TenantTimeout(r)
  BY <1>1, <1>23, EndCalls DEF TenantTimeout
<1>24. CASE PrepareFails(r)
  BY <1>1, <1>24, EndCalls DEF PrepareFails
<1>25. CASE SlotsTimeout(r)
  BY <1>1, <1>25, EndCalls DEF SlotsTimeout
<1>26. CASE CallFails(r)
  BY <1>1, <1>26, EndCalls DEF CallFails
<1>27. CASE ClientReads(r)
  BY <1>1, <1>27, CallsStay DEF ClientReads
<1>28. CASE ClientLeaves(r)
  BY <1>1, <1>28, EndCalls, CallsStay DEF ClientLeaves
<1>29. QED
  BY <1>2, <1>3, <1>4, <1>5, <1>6, <1>7, <1>8, <1>9, <1>10, <1>11, <1>12, <1>13, <1>14, <1>15,
       <1>16, <1>17, <1>18, <1>19, <1>20, <1>21, <1>22, <1>23, <1>24, <1>25, <1>26, <1>27,
       <1>28 DEF Step, Progress, RunEnds

\* The calls of all requests stay within their agents.
LEMMA StepKeepsCalls ==
    ASSUME TypeOK, CallsFollow, NEW r \in Requests, Step(r)
    PROVE  CallsFollow'
<1>1. CallsMove(r) /\ Moves(r)
  BY StepCalls, StepMoves
<1>2. \A x \in Requests \ {r} : calls'[x] = calls[x] /\ phase'[x] = phase[x]
  BY <1>1 DEF CallsMove, Moves, TypeOK
<1>3. ASSUME NEW x \in Requests PROVE CallsFit(x)'
  <2>1. CASE x = r
    BY <1>1, <2>1 DEF CallsMove
  <2>2. CASE x # r
    BY <1>2, <2>2 DEF CallsFollow, CallsFit, Agents
  <2>3. QED  BY <2>1, <2>2
<1>4. QED  BY <1>3 DEF CallsFollow

\* A run begins only while its slots are free, so that the slots in use never
\* exceed the limit.
LEMMA StepKeepsSlots ==
    ASSUME TypeOK, CallsFollow, SlotsWithinLimit, NEW r \in Requests, Step(r)
    PROVE  SlotsWithinLimit'
<1>1. CallsMove(r) /\ Moves(r)
  BY StepCalls, StepMoves
<1>2. \A x \in Requests \ {r} : phase'[x] = phase[x]
  BY <1>1 DEF Moves, TypeOK
<1>3. /\ Weights \in [Requests -> Nat] /\ Weights[r] = Weight(r)
      /\ Running \in SUBSET Requests /\ Running' \in SUBSET Requests
      /\ UsedSlots = Sum(Weights, Running) /\ UsedSlots' = Sum(Weights, Running')
  BY UsedSlotsIsSum DEF Weights, Running
<1>4. /\ Sum(Weights, Running) \in Nat /\ Sum(Weights, Running') \in Nat
  BY <1>3, SumTakes
<1>5. CASE Running' \subseteq Running
  <2>1. Sum(Weights, Running') <= Sum(Weights, Running)
    BY <1>3, <1>5, SumOfPart
  <2>2. QED  BY <1>3, <1>4, <2>1, LimitsAssumption DEF SlotsWithinLimit
<1>6. CASE ~(Running' \subseteq Running)
  <2>1. phase'[r] = "running" /\ phase[r] # "running"
    BY <1>2, <1>6 DEF Running
  <2>2. UsedSlots + Weight(r) <= Limit
    BY <1>1, <2>1 DEF CallsMove, GrantSlots
  <2>3. r \in Running' /\ Running' \ {r} = Running
    BY <1>2, <2>1 DEF Running
  <2>4. Sum(Weights, Running') = Weights[r] + Sum(Weights, Running)
    BY <1>3, <2>3, SumTakes
  <2>5. Weight(r) \in Nat
    BY WeightBounds, LimitsAssumption
  <2>6. QED  BY <1>3, <1>4, <2>2, <2>4, <2>5, LimitsAssumption DEF SlotsWithinLimit
<1>7. QED  BY <1>5, <1>6

\* While two runs are admitted, no run has all slots: each has room in its slots
\* for all its agents, and together the runs have room for theirs.  So if the
\* permits of the provider are all taken by runs, none of their agents waits.
LEMMA NoRunWaitsForAnother ==
    ASSUME TypeOK, CallsFollow, SlotsWithinLimit
    PROVE  AgentsWaitForNoOtherRun
<1> DEFINE sends == [r \in Requests |-> calls[r].sending]
           rooms == [r \in Requests |-> PerSlot * Weights[r]]
<1>1. SUFFICES ASSUME Limit * PerSlot <= ProviderLimit, Sending = ProviderLimit,
                      NEW r \in Running, calls[r].waiting > 0, Cardinality(Running) # 1,
                      ~ \E x \in Requests \ Running : calls[x].sending > 0
               PROVE  FALSE
  BY DEF AgentsWaitForNoOtherRun
<1>2. /\ calls \in [Requests -> [waiting : Nat, sending : Nat]]
      /\ Running \in SUBSET Requests /\ r \in Requests /\ IsFiniteSet(Running)
  BY RequestsAssumption, FS_Subset DEF TypeOK, Running
<1>3. /\ sends \in [Requests -> Nat] /\ Sending = Sum(sends, Requests)
      /\ \A x \in Requests : sends[x] = calls[x].sending
  BY <1>2, SendingIsSum
<1>4. /\ Weights \in [Requests -> Nat] /\ UsedSlots = Sum(Weights, Running)
      /\ \A x \in Requests : Weights[x] = Weight(x)
  BY UsedSlotsIsSum DEF Weights
<1>5. rooms \in [Requests -> Nat] /\ \A x \in Requests : rooms[x] = PerSlot * Weight(x)
  <2>1. \A a, b \in Nat : a * b \in Nat
    OBVIOUS
  <2>2. QED  BY <1>4, <2>1, LimitsAssumption
<1>6. Sum(rooms, Running) = PerSlot * Sum(Weights, Running)
  BY <1>2, <1>4, SumOfMultiple, LimitsAssumption
<1> HIDE DEF sends, rooms
<1>7. Sum(sends, Requests) = Sum(sends, Running)
  <2>1. \A x \in Requests \ Running : sends[x] = 0
    BY <1>1, <1>2, <1>3
  <2>2. QED  BY <1>2, <1>3, <2>1, SumOfPart
<1>8. ASSUME NEW x \in Running PROVE Weight(x) < Limit
  <2>1. PICK y \in Running : y # x
    <3>1. Running # {x}
      BY <1>1, FS_Singleton
    <3>2. QED  BY <1>8, <3>1
  <2>2. /\ Weight(x) \in Nat /\ Weight(y) \in Nat \ {0}
    BY <1>2, WeightBounds, LimitsAssumption
  <2>3. Sum(Weights, Running) = Weights[x] + Sum(Weights, Running \ {x})
    BY <1>2, <1>4, SumTakes
  <2>4. Sum(Weights, Running \ {x}) = Weights[y] + Sum(Weights, (Running \ {x}) \ {y})
    <3>1. Running \ {x} \in SUBSET Requests /\ y \in Running \ {x}
      BY <1>2, <2>1
    <3>2. QED  BY <1>4, <3>1, SumTakes
  <2>5. Sum(Weights, (Running \ {x}) \ {y}) \in Nat
    <3>1. (Running \ {x}) \ {y} \in SUBSET Requests
      BY <1>2
    <3>2. QED  BY <1>4, <3>1, SumTakes
  <2>6. Sum(Weights, Running) <= Limit
    BY <1>4 DEF SlotsWithinLimit
  <2>7. Weights[x] = Weight(x) /\ Weights[y] = Weight(y)
    BY <1>2, <1>4, <1>8
  <2> DEFINE rest == Sum(Weights, (Running \ {x}) \ {y})
  <2>8. Weight(x) + (Weight(y) + rest) <= Limit
    BY <2>3, <2>4, <2>6, <2>7
  <2> HIDE DEF rest
  <2>9. QED  BY <2>2, <2>5, <2>8, LimitsAssumption DEF rest
<1>9. ASSUME NEW x \in Running
      PROVE  /\ calls[x].waiting + calls[x].sending <= rooms[x]
             /\ calls[x].waiting \in Nat /\ calls[x].sending \in Nat /\ rooms[x] \in Nat
  <2>1. x \in Requests /\ phase[x] = "running"
    BY DEF Running
  <2>2. /\ calls[x].waiting + calls[x].sending <= Agents(x)
        /\ calls[x].waiting \in Nat /\ calls[x].sending \in Nat
    BY <1>2, <2>1 DEF CallsFollow, CallsFit
  <2>3. Agents(x) <= rooms[x] /\ Agents(x) \in Nat /\ rooms[x] \in Nat
    BY <1>5, <1>8, <2>1, WeightBounds
  <2>4. QED  BY <2>2, <2>3
<1>10. Running \ {r} \in SUBSET Requests
  BY <1>2
<1>11. Sum(sends, Running \ {r}) <= Sum(rooms, Running \ {r})
  <2>1. \A x \in Running \ {r} : sends[x] <= rooms[x]
    BY <1>2, <1>3, <1>9
  <2>2. QED  BY <1>3, <1>5, <1>10, <2>1, SumAtMost
<1>12. sends[r] < rooms[r]
  BY <1>1, <1>2, <1>3, <1>9
<1>13. Sum(sends, Running) < Sum(rooms, Running)
  <2>1. /\ Sum(sends, Running) = sends[r] + Sum(sends, Running \ {r})
        /\ Sum(sends, Running \ {r}) \in Nat
    BY <1>2, <1>3, <1>10, SumTakes
  <2>2. /\ Sum(rooms, Running) = rooms[r] + Sum(rooms, Running \ {r})
        /\ Sum(rooms, Running \ {r}) \in Nat
    BY <1>2, <1>5, <1>10, SumTakes
  <2>3. sends[r] \in Nat /\ rooms[r] \in Nat
    BY <1>2, <1>3, <1>5
  <2>4. QED  BY <1>11, <1>12, <2>1, <2>2, <2>3
<1>14. PerSlot * Sum(Weights, Running) <= Limit * PerSlot
  <2>1. Sum(Weights, Running) <= Limit /\ Sum(Weights, Running) \in Nat
    BY <1>2, <1>4, SumTakes DEF SlotsWithinLimit
  <2>2. \A i, j, p \in Nat : i <= j => p * i <= j * p
    OBVIOUS
  <2>3. QED  BY <2>1, <2>2, LimitsAssumption
<1>15. Sum(rooms, Running) <= ProviderLimit
  <2>1. Sum(rooms, Running) \in Nat /\ Limit * PerSlot \in Nat
    BY <1>2, <1>5, SumTakes, LimitsAssumption
  <2>2. QED  BY <1>1, <1>6, <1>14, <2>1, LimitsAssumption
<1>16. Sum(sends, Running) \in Nat /\ Sum(rooms, Running) \in Nat
  BY <1>2, <1>3, <1>5, SumTakes
<1>17. QED  BY <1>1, <1>3, <1>7, <1>13, <1>15, <1>16, LimitsAssumption

-----------------------------------------------------------------------------
(* The invariant *)

\* The gauges count what they name, after a step as before it.
LEMMA StepKeepsGauges ==
    ASSUME TypeOK, TasksFollow, ChannelsTell, GaugesAreExact, NEW r \in Requests, Step(r)
    PROVE  /\ GaugesAreExact'
           /\ queued' \in Nat /\ active' \in Nat /\ streams' \in Nat
<1>1. phase \in [Requests -> Phases] /\ task \in [Requests -> TaskStates]
  BY DEF TypeOK, TaskStates
<1>2. Moves(r) /\ Streams(r)
  BY StepMoves, StepStreams
<1>3. \A x \in Requests \ {r} : phase'[x] = phase[x] /\ task'[x] = task[x]
  BY <1>1, <1>2 DEF Moves, Streams
<1> DEFINE Queued == {x \in Requests : phase[x] = "orchestrate"}
           QueuedNext == {x \in Requests : phase'[x] = "orchestrate"}
           Active == {x \in Requests : phase[x] = "running"}
           ActiveNext == {x \in Requests : phase'[x] = "running"}
           Streamed == {x \in Requests : task[x] \in InTask}
           StreamedNext == {x \in Requests : task'[x] \in InTask}
<1>4. /\ queued = Cardinality(Queued) /\ active = Cardinality(Active)
      /\ streams = Cardinality(Streamed)
  BY DEF GaugesAreExact, Running, InTask
<1>5. GaugesAreExact' <=> /\ queued' = Cardinality(QueuedNext)
                          /\ active' = Cardinality(ActiveNext)
                          /\ streams' = Cardinality(StreamedNext)
  BY DEF GaugesAreExact, Running, InTask
<1>6. /\ Queued \in SUBSET Requests /\ QueuedNext \in SUBSET Requests
      /\ Active \in SUBSET Requests /\ ActiveNext \in SUBSET Requests
      /\ Streamed \in SUBSET Requests /\ StreamedNext \in SUBSET Requests
  OBVIOUS
<1>7. /\ \A x \in Requests \ {r} : x \in QueuedNext <=> x \in Queued
      /\ \A x \in Requests \ {r} : x \in ActiveNext <=> x \in Active
      /\ \A x \in Requests \ {r} : x \in StreamedNext <=> x \in Streamed
  BY <1>3
<1>8. /\ r \in Queued <=> phase[r] = "orchestrate"
      /\ r \in QueuedNext <=> phase'[r] = "orchestrate"
      /\ r \in Active <=> phase[r] = "running"
      /\ r \in ActiveNext <=> phase'[r] = "running"
      /\ r \in Streamed <=> task[r] \in InTask
      /\ r \in StreamedNext <=> task'[r] \in InTask
  OBVIOUS
<1> HIDE DEF Queued, QueuedNext, Active, ActiveNext, Streamed, StreamedNext
<1>9. queued' = Cardinality(QueuedNext) /\ queued' \in Nat
  BY <1>2, <1>4, <1>6, <1>7, <1>8, OneMoves DEF Moves
<1>10. active' = Cardinality(ActiveNext) /\ active' \in Nat
  BY <1>2, <1>4, <1>6, <1>7, <1>8, OneMoves DEF Moves
<1>11. streams' = Cardinality(StreamedNext) /\ streams' \in Nat
  <2>1. streams' = streams + (IF task'[r] \in InTask THEN 1 ELSE 0)
                           - (IF task[r] \in InTask THEN 1 ELSE 0)
    BY <1>2 DEF Streams
  <2>2. /\ Cardinality(Streamed) \in Nat /\ Cardinality(StreamedNext) \in Nat
        /\ Cardinality(StreamedNext)
             = Cardinality(Streamed) + (IF r \in StreamedNext THEN 1 ELSE 0)
                                     - (IF r \in Streamed THEN 1 ELSE 0)
    BY <1>6, <1>7, OneMoves
  <2>3. QED  BY ONLY <1>4, <1>8, <2>1, <2>2
<1>12. QED  BY <1>5, <1>9, <1>10, <1>11

\* Only the request that moves can find its task or its channel changed.
LEMMA StepKeepsStreams ==
    ASSUME TypeOK, TasksFollow, ChannelsTell, NEW r \in Requests, Step(r)
    PROVE  TasksFollow' /\ ChannelsTell'
<1>1. Moves(r) /\ Streams(r)
  BY StepMoves, StepStreams
<1>2. \A x \in Requests \ {r} : /\ phase'[x] = phase[x] /\ task'[x] = task[x]
                                /\ chan'[x] = chan[x] /\ client'[x] = client[x]
  <2>1. /\ phase' = [phase EXCEPT ![r] = phase'[r]] /\ task' = [task EXCEPT ![r] = task'[r]]
        /\ chan' = [chan EXCEPT ![r] = chan'[r]] /\ client' = [client EXCEPT ![r] = client'[r]]
    BY <1>1 DEF Moves, Streams
  <2>2. /\ DOMAIN phase = Requests /\ DOMAIN task = Requests
        /\ DOMAIN chan = Requests /\ DOMAIN client = Requests
    BY DEF TypeOK
  <2>3. QED  BY ONLY <2>1, <2>2
<1>3. ASSUME NEW x \in Requests PROVE TaskFollows(x)' /\ ChannelTells(x)'
  <2>1. CASE x = r
    BY <1>1, <2>1 DEF Streams
  <2>2. CASE x # r
    <3>1. TaskFollows(x)'
      BY <1>2, <2>2 DEF TasksFollow, TaskFollows, SseTask, Orchestrated, Direct, RootStream
    <3>2. ChannelTells(x)'
      BY <1>2, <2>2 DEF ChannelsTell, ChannelTells
    <3>3. QED  BY <3>1, <3>2
  <2>3. QED  BY <2>1, <2>2
<1>4. QED  BY <1>3 DEF TasksFollow, ChannelsTell

\* All types together.
LEMMA StepKeepsTypes ==
    ASSUME TypeOK, TasksFollow, ChannelsTell, GaugesAreExact, NEW r \in Requests, Step(r)
    PROVE  TypeOK'
<1>1. RestTypes'
  <2>1. RestTypes  BY DEF TypeOK, RestTypes
  <2>2. QED  BY <2>1, StepTypes
<1>2. Moves(r) /\ Streams(r)
  BY StepMoves, StepStreams
<1>3. queued' \in Nat /\ active' \in Nat /\ streams' \in Nat
  BY StepKeepsGauges
<1>4. \A f, g, v, V : f \in [Requests -> V] /\ v \in V /\ g = [f EXCEPT ![r] = v]
                       => g \in [Requests -> V]
  OBVIOUS
<1>5. phase' \in [Requests -> Phases]
  BY <1>2, <1>4 DEF Moves, TypeOK
<1>6. task' \in [Requests -> TaskStates]
  BY <1>2, <1>4 DEF Streams, TypeOK, TaskStates
<1>7. chan' \in [Requests -> Seq({"comment", "result"})]
  BY <1>2, <1>4 DEF Streams, TypeOK
<1>8. client' \in [Requests -> {"waits", "answered", "gone"}]
  BY <1>2, <1>4 DEF Streams, TypeOK
<1>9. QED
  BY <1>1, <1>3, <1>5, <1>6, <1>7, <1>8 DEF TypeOK, RestTypes, TaskStates

\* At the start nobody has anything.
LEMMA InitInv == Init => IInv
<1> SUFFICES ASSUME Init PROVE IInv
  OBVIOUS
<1>1. TypeOK
  BY LimitsAssumption DEF Init, TypeOK, Phases, NoCalls
<1>2. TasksFollow /\ ChannelsTell
  BY DEF Init, TasksFollow, TaskFollows, ChannelsTell, ChannelTells
<1>3. RefsAreCurrent
  BY DEF Init, RefsAreCurrent, NeedsSemaphore
<1>4. TenantBound
  <2>1. SUFFICES ASSUME NEW t \in Tenants
        PROVE Cardinality({r \in Requests : Tenant(r) = t /\ HoldsTenant(r)}) <= MaxPerTenant
    BY DEF TenantBound
  <2>2. {r \in Requests : Tenant(r) = t /\ HoldsTenant(r)} = {}
    BY DEF Init, HoldsTenant
  <2>3. QED  BY <2>2, FS_EmptySet, LimitsAssumption
<1>5. GaugesAreExact
  <2>1. /\ {r \in Requests : phase[r] = "orchestrate"} = {} /\ Running = {}
        /\ {r \in Requests : task[r] \in {"opening", "polling", "result"}} = {}
    BY DEF Init, Running
  <2>2. QED  BY <2>1, FS_EmptySet DEF Init, GaugesAreExact
<1>6. CallsFollow
  BY WeightBounds DEF Init, CallsFollow, CallsFit, NoCalls
<1>7. SlotsWithinLimit
  <2>1. Running = {} /\ UsedSlots = Sum(Weights, Running) /\ Weights \in [Requests -> Nat]
    BY UsedSlotsIsSum DEF Init, Running
  <2>2. QED  BY <2>1, SumTakes, LimitsAssumption DEF SlotsWithinLimit
<1>8. QED  BY <1>1, <1>2, <1>3, <1>4, <1>5, <1>6, <1>7 DEF IInv

\* No step breaks the invariant.
LEMMA StepInv ==
    ASSUME IInv, [Next]_vars
    PROVE  IInv'
<1>1. CASE UNCHANGED vars
  <2>1. /\ phase' = phase /\ semaphores' = semaphores /\ ref' = ref /\ queue' = queue
        /\ calls' = calls /\ queued' = queued /\ active' = active /\ streams' = streams
        /\ task' = task /\ chan' = chan /\ client' = client /\ leaves' = leaves
    BY <1>1 DEF vars
  <2>2. TypeOK'  BY <2>1 DEF IInv, TypeOK
  <2>3. TasksFollow' /\ ChannelsTell'
    BY <2>1 DEF IInv, TasksFollow, TaskFollows, ChannelsTell, ChannelTells, SseTask,
                Orchestrated, Direct, RootStream
  <2>4. RefsAreCurrent'  BY <2>1 DEF IInv, RefsAreCurrent, Tenant
  <2>5. TenantBound'  BY <2>1 DEF IInv, TenantBound, HoldsTenant, Tenant, Tenants
  <2>6. GaugesAreExact'  BY <2>1 DEF IInv, GaugesAreExact, Running
  <2>7. CallsFollow'  BY <2>1 DEF IInv, CallsFollow, CallsFit, Agents
  <2>8. SlotsWithinLimit'
    <3>1. Running' = Running  BY <2>1 DEF Running
    <3>2. QED  BY <3>1, UsedSlotsIsSum DEF IInv, SlotsWithinLimit
  <2>9. QED  BY <2>2, <2>3, <2>4, <2>5, <2>6, <2>7, <2>8 DEF IInv
<1>2. ASSUME NEW r \in Requests, Step(r) PROVE IInv'
  BY <1>2, StepKeepsTypes, StepKeepsStreams, StepKeepsCurrent, StepKeepsBound,
     StepKeepsGauges, StepKeepsCalls, StepKeepsSlots DEF IInv
<1>3. QED  BY <1>1, <1>2 DEF Next, Finished

\* The invariant holds in every state of every behaviour.
THEOREM Invariance == Spec => []IInv
BY InitInv, StepInv, PTL DEF Spec

-----------------------------------------------------------------------------
(* The theorems *)

\* Every variable has its type: gauges never go below zero, whichever way a
\* request ends.
THEOREM TypeCorrect == Spec => []TypeOK
<1>1. IInv => TypeOK  BY DEF IInv
<1>2. QED  BY <1>1, Invariance, PTL

\* The books of admission are right: the requests of a tenant never hold more
\* permits than the cap, although semaphores are forgotten and made anew, and
\* the gauges count exactly the requests that they name
\* (TenantConcurrencyLimiter::acquire, OrchestrationQueueGaugeGuard,
\* OrchestrationAdmissionPermit).
THEOREM BooksAlwaysRight == Spec => []BooksAreRight
<1>1. IInv => BooksAreRight  BY DEF IInv, BooksAreRight
<1>2. QED  BY <1>1, Invariance, PTL

\* A streamed orchestration whose client stays ends with its result in the
\* channel, as the last thing there, however full the channel was and however
\* the heartbeats and the reads fell (orchestration_sse_response).
THEOREM NeverSilent == Spec => []NoSilentEnd
<1>1. ASSUME IInv PROVE NoSilentEnd
  <2>1. SUFFICES ASSUME NEW r \in Requests
        PROVE /\ (task[r] = "ended" /\ client[r] = "waits") =>
                   (chan[r] # <<>> /\ Last(chan[r]) = "result")
              /\ client[r] = "answered" => chan[r] = <<>>
    BY DEF NoSilentEnd
  <2>2. ChannelTells(r)
    BY <1>1 DEF IInv, ChannelsTell
  <2>3. QED  BY <2>2 DEF ChannelTells, ResultLast, Last
<1>2. QED  BY <1>1, Invariance, PTL

\* The weights of the admission bound the runs: the slots in use never exceed
\* the limit, and a run never has more calls under way than it has agents
\* (OrchestrationAdmission::acquire_for_parallelism).
THEOREM RunsWithinLimit == Spec => [](SlotsWithinLimit /\ CallsFollow)
<1>1. IInv => SlotsWithinLimit /\ CallsFollow  BY DEF IInv
<1>2. QED  BY <1>1, Invariance, PTL

\* With a limit derived from the permits of the provider, an agent waits for a
\* permit only while a direct call has one, or when its run is the only one
\* (derived_orchestration_limit and the rounded-up weights).
THEOREM NobodyWaitsForARun == Spec => []AgentsWaitForNoOtherRun
<1>1. IInv => AgentsWaitForNoOtherRun  BY NoRunWaitsForAnother DEF IInv
<1>2. QED  BY <1>1, Invariance, PTL

=============================================================================
