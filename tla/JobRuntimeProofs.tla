-------------------------- MODULE JobRuntimeProofs --------------------------
(***************************************************************************)
(* The safety properties of JobRuntime for every number of calls, keys,    *)
(* cancellers and permits, and the proof that it implements JobScheduler.  *)
(*                                                                         *)
(* The inductive invariant IInv is the conjunction of the properties that  *)
(* TLC checks and of two facts about tokens: a canceller only holds, and   *)
(* has only signalled, tokens that have been registered.                   *)
(***************************************************************************)
EXTENDS JobRuntime, FiniteSetTheorems, FunctionTheorems, TLAPS

TokensWereRegistered ==
    /\ \A s \in signalled : Tokened(s)
    /\ \A x \in Cancellers : held[x] # NoSpawn => Tokened(held[x])

KeysInv == OneJobPerKey /\ RunningIsExact /\ CancelReachesJob /\ NoStaleToken

IInv == TypeOK /\ KeysInv /\ TokensWereRegistered

\* Every variable keeps values of its type: a permit is only given back by a
\* task that holds one, hence the count of permits in the hypothesis.
LEMMA TypeStep ==
    ASSUME TypeOK, PermitsConserved, [Next]_vars
    PROVE  TypeOK'
<1> USE DEF TypeOK, Phases, Goto
<1>1. ASSUME NEW s \in Spawns, SpawnStep(s)  PROVE TypeOK'
  <2>1. CASE ClaimKey(s)       BY <2>1 DEF ClaimKey
  <2>2. CASE RefuseKey(s)      BY <2>2 DEF RefuseKey
  <2>3. CASE RegisterToken(s)  BY <2>3 DEF RegisterToken
  <2>4. CASE AcquirePermit(s)
    <3>1. permits' \in 0..MaxConcurrentJobs
      BY <2>4, PermitsAssumption DEF AcquirePermit
    <3>2. QED BY <2>4, <3>1 DEF AcquirePermit
  <2>5. CASE WorkerReturns(s)  BY <2>5 DEF WorkerReturns
  <2>6. CASE RemoveToken(s)    BY <2>6 DEF RemoveToken
  <2>7. CASE ReleaseKey(s)     BY <2>7 DEF ReleaseKey
  <2>8. CASE DropPermit(s)
    <3>1. s \in PermitHolders
      BY <2>8 DEF DropPermit, PermitHolders, HoldsPermit
    <3>2. IsFiniteSet(PermitHolders)
      BY FiniteAssumption, FS_Subset DEF PermitHolders
    <3>3. Cardinality(PermitHolders) \in Nat /\ Cardinality(PermitHolders) # 0
      BY <3>1, <3>2, FS_CardinalityType, FS_EmptySet
    <3>4. permits' \in 0..MaxConcurrentJobs
      BY <2>8, <3>3, PermitsAssumption DEF DropPermit, PermitsConserved
    <3>5. QED BY <2>8, <3>4 DEF DropPermit
  <2>9. QED
    BY <1>1, <2>1, <2>2, <2>3, <2>4, <2>5, <2>6, <2>7, <2>8 DEF SpawnStep
<1>2. ASSUME NEW x \in Cancellers, CancelStep(x)  PROVE TypeOK'
  BY <1>2 DEF CancelStep, LookupToken, SignalToken
<1>3. CASE UNCHANGED vars
  BY <1>3 DEF vars
<1>4. QED
  BY <1>1, <1>2, <1>3 DEF Next

\* Taking a permit adds the task to the holders, dropping it removes it, and
\* no other step changes who holds one.
LEMMA PermitsStep ==
    ASSUME TypeOK, PermitsConserved, [Next]_vars
    PROVE  PermitsConserved'
<1> USE DEF TypeOK, Goto, HoldsPermit
<1>0. IsFiniteSet(PermitHolders) /\ Cardinality(PermitHolders) \in Nat
  BY FiniteAssumption, FS_Subset, FS_CardinalityType DEF PermitHolders
<1>1. ASSUME NEW s \in Spawns, SpawnStep(s)  PROVE PermitsConserved'
  <2>1. CASE AcquirePermit(s)
    <3>1. s \notin PermitHolders
      BY <2>1 DEF AcquirePermit, PermitHolders
    <3>2. PermitHolders' = PermitHolders \cup {s}
      BY <2>1 DEF AcquirePermit, PermitHolders
    <3>3. Cardinality(PermitHolders') = Cardinality(PermitHolders) + 1
      BY <1>0, <3>1, <3>2, FS_AddElement
    <3>4. QED
      BY <2>1, <1>0, <3>3 DEF AcquirePermit, PermitsConserved
  <2>2. CASE DropPermit(s)
    <3>1. s \in PermitHolders
      BY <2>2 DEF DropPermit, PermitHolders
    <3>2. PermitHolders' = PermitHolders \ {s}
      BY <2>2 DEF DropPermit, PermitHolders
    <3>3. Cardinality(PermitHolders') = Cardinality(PermitHolders) - 1
      BY <1>0, <3>1, <3>2, FS_RemoveElement
    <3>4. QED
      BY <2>2, <1>0, <3>3 DEF DropPermit, PermitsConserved
  <2>3. CASE ~AcquirePermit(s) /\ ~DropPermit(s)
    <3>1. permits' = permits /\ PermitHolders' = PermitHolders
      BY <1>1, <2>3
      DEF SpawnStep, ClaimKey, RefuseKey, RegisterToken, WorkerReturns,
          RemoveToken, ReleaseKey, PermitHolders
    <3>2. QED BY <3>1 DEF PermitsConserved
  <2>4. QED BY <2>1, <2>2, <2>3
<1>2. ASSUME NEW x \in Cancellers, CancelStep(x)  PROVE PermitsConserved'
  BY <1>2 DEF CancelStep, LookupToken, SignalToken, PermitsConserved, PermitHolders
<1>3. CASE UNCHANGED vars
  BY <1>3 DEF vars, PermitsConserved, PermitHolders
<1>4. QED
  BY <1>1, <1>2, <1>3 DEF Next

\* The books on keys and tokens are kept by every step.
LEMMA KeysStep ==
    ASSUME TypeOK, KeysInv, [Next]_vars
    PROVE  KeysInv'
<1> USE SpawnsAssumption DEF TypeOK, KeysInv, Goto, Registered, OwnsKey
<1>1. ASSUME NEW s \in Spawns, SpawnStep(s)  PROVE KeysInv'
  <2> USE DEF OneJobPerKey, RunningIsExact, CancelReachesJob, NoStaleToken
  <2>1. CASE ClaimKey(s)
    <3>1. \A t \in Spawns : OwnsKey(t)' <=> OwnsKey(t) \/ t = s
      BY <2>1 DEF ClaimKey
    <3>2. \A t \in Spawns : OwnsKey(t) => key[t] # key[s]
      BY <2>1 DEF ClaimKey
    <3>3. OneJobPerKey'
      BY <2>1, <3>1, <3>2 DEF ClaimKey
    <3>4. RunningIsExact'
      BY <2>1, <3>1 DEF ClaimKey
    <3>5. CancelReachesJob' /\ NoStaleToken'
      BY <2>1 DEF ClaimKey
    <3>6. QED BY <3>3, <3>4, <3>5
  <2>2. CASE RefuseKey(s)
    BY <2>2 DEF RefuseKey
  <2>3. CASE RegisterToken(s)
    <3>1. \A t \in Spawns : OwnsKey(t)' <=> OwnsKey(t)
      BY <2>3 DEF RegisterToken
    <3>2. OneJobPerKey' /\ RunningIsExact'
      BY <2>3, <3>1 DEF RegisterToken
    <3>3. CancelReachesJob' /\ NoStaleToken'
      BY <2>3 DEF RegisterToken
    <3>4. QED BY <3>2, <3>3
  <2>4. CASE AcquirePermit(s)
    BY <2>4 DEF AcquirePermit
  <2>5. CASE WorkerReturns(s)
    BY <2>5 DEF WorkerReturns
  <2>6. CASE RemoveToken(s)
    <3>1. \A t \in Spawns : OwnsKey(t)' <=> OwnsKey(t)
      BY <2>6 DEF RemoveToken
    <3>2. OneJobPerKey' /\ RunningIsExact'
      BY <2>6, <3>1 DEF RemoveToken
    <3>3. CancelReachesJob' /\ NoStaleToken'
      BY <2>6 DEF RemoveToken
    <3>4. QED BY <3>2, <3>3
  <2>7. CASE ReleaseKey(s)
    <3>1. \A t \in Spawns : OwnsKey(t)' <=> OwnsKey(t) /\ t # s
      BY <2>7 DEF ReleaseKey
    <3>2. OneJobPerKey'
      BY <2>7, <3>1 DEF ReleaseKey
    <3>3. \A t \in Spawns : OwnsKey(t) /\ t # s => key[t] # key[s]
      BY <2>7 DEF ReleaseKey
    <3>4. RunningIsExact'
      BY <2>7, <3>1, <3>3 DEF ReleaseKey
    <3>5. CancelReachesJob' /\ NoStaleToken'
      BY <2>7 DEF ReleaseKey
    <3>6. QED BY <3>2, <3>4, <3>5
  <2>8. CASE DropPermit(s)
    BY <2>8 DEF DropPermit
  <2>9. QED
    BY <1>1, <2>1, <2>2, <2>3, <2>4, <2>5, <2>6, <2>7, <2>8 DEF SpawnStep
<1>2. ASSUME NEW x \in Cancellers, CancelStep(x)  PROVE KeysInv'
  BY <1>2 DEF CancelStep, LookupToken, SignalToken, OneJobPerKey, RunningIsExact,
              CancelReachesJob, NoStaleToken
<1>3. CASE UNCHANGED vars
  BY <1>3 DEF vars, OneJobPerKey, RunningIsExact, CancelReachesJob, NoStaleToken
<1>4. QED
  BY <1>1, <1>2, <1>3 DEF Next

\* A call that has been registered stays so, and cancellers take tokens from
\* the map only.
LEMMA TokensStep ==
    ASSUME TypeOK, KeysInv, TokensWereRegistered, [Next]_vars
    PROVE  TokensWereRegistered'
<1> USE SpawnsAssumption
    DEF TypeOK, TokensWereRegistered, Goto, Tokened, Registered
<1>1. ASSUME NEW s \in Spawns, SpawnStep(s)  PROVE TokensWereRegistered'
  <2>1. \A t \in Spawns : Tokened(t) => Tokened(t)'
    BY <1>1 DEF SpawnStep, ClaimKey, RefuseKey, RegisterToken, AcquirePermit,
                WorkerReturns, RemoveToken, ReleaseKey, DropPermit
  <2>2. UNCHANGED <<signalled, held>>
    BY <1>1 DEF SpawnStep, ClaimKey, RefuseKey, RegisterToken, AcquirePermit,
                WorkerReturns, RemoveToken, ReleaseKey, DropPermit
  <2>3. QED BY <2>1, <2>2
<1>2. ASSUME NEW x \in Cancellers, CancelStep(x)  PROVE TokensWereRegistered'
  <2>1. ASSUME NEW k \in Keys, LookupToken(x, k)  PROVE TokensWereRegistered'
    BY <2>1 DEF LookupToken, KeysInv, NoStaleToken
  <2>2. CASE SignalToken(x)
    BY <2>2 DEF SignalToken
  <2>3. QED BY <1>2, <2>1, <2>2 DEF CancelStep
<1>3. CASE UNCHANGED vars
  BY <1>3 DEF vars
<1>4. QED
  BY <1>1, <1>2, <1>3 DEF Next

-----------------------------------------------------------------------------
\* The invariant holds in every reachable state, permits included.
THEOREM Invariance == Spec => [](IInv /\ PermitsConserved)
<1>1. Init => IInv /\ PermitsConserved
  <2> SUFFICES ASSUME Init PROVE IInv /\ PermitsConserved
    OBVIOUS
  <2> USE SpawnsAssumption, PermitsAssumption DEF Init
  <2>1. TypeOK
    BY DEF TypeOK, Phases
  <2>2. KeysInv /\ TokensWereRegistered
    BY DEF KeysInv, OneJobPerKey, RunningIsExact, CancelReachesJob, NoStaleToken,
           TokensWereRegistered, Registered, OwnsKey
  <2>3. PermitHolders = {}
    BY DEF PermitHolders, HoldsPermit
  <2>4. PermitsConserved
    BY <2>3, FS_EmptySet DEF PermitsConserved
  <2>5. QED BY <2>1, <2>2, <2>4 DEF IInv
<1>2. (IInv /\ PermitsConserved) /\ [Next]_vars => (IInv /\ PermitsConserved)'
  BY TypeStep, PermitsStep, KeysStep, TokensStep DEF IInv
<1>3. QED
  BY <1>1, <1>2, PTL DEF Spec

\* Type correctness of the job runtime.
THEOREM TypeCorrect == Spec => []TypeOK
BY Invariance, PTL DEF IInv

\* At no time do two tasks of the same key exist.
THEOREM NoDuplicateJob == Spec => []OneJobPerKey
BY Invariance, PTL DEF IInv, KeysInv

\* The token of a queued or working job is always the one cancel finds.
THEOREM CancelIsNeverLost == Spec => []CancelReachesJob
BY Invariance, PTL DEF IInv, KeysInv

\* No key stays in the running set and no token in the map after its job.
THEOREM BooksExact == Spec => []BooksAreExact
BY Invariance, PTL DEF IInv, KeysInv, BooksAreExact

\* The semaphore's permits are conserved.
THEOREM PermitsAreConserved == Spec => []PermitsConserved
BY Invariance, PTL
-----------------------------------------------------------------------------
(* JobRuntime implements JobScheduler.                                     *)

\* The call of a job that is on the scheduler's books.
Booked(s) == pc[s] \in {"queued", "working"}

\* The abstract state of a key, read off the one call that is booked for it.
BookedIsRead ==
    OneJobPerKey /\ signalled \subseteq Spawns =>
        \A s \in Spawns : Booked(s) =>
            /\ AbstractJob(key[s]) = pc[s]
            /\ AbstractToken(key[s]) = IF s \in signalled THEN "cancelled" ELSE "live"

\* The mapping reads every booked call so.
LEMMA AbstractOfBooked == BookedIsRead
<1> USE DEF BookedIsRead
<1> SUFFICES ASSUME OneJobPerKey, signalled \subseteq Spawns, NEW s \in Spawns, Booked(s)
             PROVE  /\ AbstractJob(key[s]) = pc[s]
                    /\ AbstractToken(key[s]) = IF s \in signalled THEN "cancelled" ELSE "live"
  OBVIOUS
<1>1. \A t \in Spawns : Booked(t) /\ key[t] = key[s] => t = s
  BY DEF OneJobPerKey, OwnsKey, Registered, Booked
<1>2. AbstractJob(key[s]) = pc[s]
  BY <1>1 DEF AbstractJob, Booked
<1>3. AbstractJob(key[s]) # "idle"
  BY <1>2 DEF Booked
<1>4. (\E t \in signalled : key[t] = key[s] /\ Booked(t)) <=> s \in signalled
  BY <1>1
<1>5. QED BY <1>2, <1>3, <1>4 DEF AbstractToken, Booked

\* The same, in the next state.
LEMMA AbstractOfBookedNext ==
    ASSUME NEW s \in Spawns, key' = key, OneJobPerKey', signalled' \subseteq Spawns, Booked(s)'
    PROVE  /\ AbstractJob(key[s])' = pc'[s]
           /\ AbstractToken(key[s])' = IF s \in signalled' THEN "cancelled" ELSE "live"
<1>1. BookedIsRead'
  BY AbstractOfBooked, PTL
<1>2. QED BY <1>1 DEF BookedIsRead

\* A key with no job on the books is idle for the scheduler.
LEMMA AbstractOfFree ==
    ASSUME NEW k \in Keys, \A s \in Spawns : Booked(s) => key[s] # k
    PROVE  AbstractJob(k) = "idle" /\ AbstractToken(k) = "none"
BY DEF AbstractJob, AbstractToken, Booked

\* A key whose booked calls do not change looks the same after the step.
LEMMA AbstractFrame ==
    ASSUME TypeOK, key' = key, NEW k \in Keys,
           \A s \in Spawns : key[s] = k /\ (Booked(s) \/ Booked(s)') => pc'[s] = pc[s],
           \A s \in Spawns : key[s] = k => (Booked(s) => (s \in signalled' <=> s \in signalled)),
           signalled' \subseteq Spawns
    PROVE  AbstractJob(k)' = AbstractJob(k) /\ AbstractToken(k)' = AbstractToken(k)
<1>1. \A s \in Spawns : key[s] = k =>
          (pc'[s] = "working" <=> pc[s] = "working") /\ (pc'[s] = "queued" <=> pc[s] = "queued")
  BY DEF Booked
<1>2. AbstractJob(k)' = AbstractJob(k)
  BY <1>1 DEF AbstractJob
<1>3. (\E s \in signalled : key[s] = k /\ pc[s] \in {"queued", "working"})'
        <=> (\E s \in signalled : key[s] = k /\ pc[s] \in {"queued", "working"})
  BY <1>1 DEF TypeOK, Booked
<1>4. QED BY <1>2, <1>3 DEF AbstractToken

\* The working jobs of the scheduler are worked on by different tasks, each of
\* which holds a permit.
LEMMA WorkingNeedsPermits ==
    ASSUME TypeOK
    PROVE  /\ IsFiniteSet(Scheduler!WorkingJobs)
           /\ Cardinality(Scheduler!WorkingJobs) <= Cardinality(PermitHolders)
<1> DEFINE W == Scheduler!WorkingJobs
           on == [k \in W |-> CHOOSE s \in Spawns : key[s] = k /\ pc[s] = "working"]
<1>1. \A k \in W : \E s \in Spawns : key[s] = k /\ pc[s] = "working"
  BY DEF Scheduler!WorkingJobs, AbstractJob
<1>2. \A k \in W : on[k] \in Spawns /\ key[on[k]] = k /\ pc[on[k]] = "working"
  BY <1>1
<1>3. on \in [W -> PermitHolders]
  BY <1>2 DEF PermitHolders, HoldsPermit
<1>4. \A k, l \in W : on[k] = on[l] => k = l
  BY <1>2
<1>5. on \in Injection(W, PermitHolders)
  BY <1>3, <1>4 DEF Injection, IsInjective
<1>6. IsFiniteSet(PermitHolders)
  BY FiniteAssumption, FS_Subset DEF PermitHolders
<1>7. QED
  BY <1>5, <1>6, FS_Injection


\* Every step of the runtime is a step of the scheduler or leaves it alone.
LEMMA StepSimulation ==
    ASSUME IInv, PermitsConserved, [Next]_vars
    PROVE  [Scheduler!JobNext]_(Scheduler!jobVars)
<1> DEFINE J == [k \in Keys |-> AbstractJob(k)]
           T == [k \in Keys |-> AbstractToken(k)]
<1> USE DEF IInv, KeysInv
<1>0. SUFFICES [\/ \E k \in Keys : \/ Scheduler!EnqueueJob(k) \/ Scheduler!StartJob(k)
                                   \/ Scheduler!FinishJob(k) \/ Scheduler!CancelJob(k)
                \/ Scheduler!StopAllJobs]_<<J, T>>
  BY DEF Scheduler!JobNext, Scheduler!jobVars
<1>1. ASSUME UNCHANGED vars  PROVE J' = J /\ T' = T
  BY <1>1 DEF vars, AbstractJob, AbstractToken
<1>2. ASSUME NEW s \in Spawns, SpawnStep(s), ~RegisterToken(s),
             ~AcquirePermit(s), ~WorkerReturns(s)
      PROVE  J' = J /\ T' = T
  <2>1. /\ key' = key /\ signalled' = signalled
        /\ ~Booked(s) /\ ~Booked(s)'
        /\ \A t \in Spawns : t # s => pc'[t] = pc[t]
    BY <1>2 DEF SpawnStep, ClaimKey, RefuseKey, RemoveToken, ReleaseKey,
                DropPermit, Booked, Goto, TypeOK
  <2>2. \A t \in Spawns : Booked(t) \/ Booked(t)' => pc'[t] = pc[t]
    BY <2>1
  <2>3. \A k \in Keys : AbstractJob(k)' = AbstractJob(k) /\ AbstractToken(k)' = AbstractToken(k)
    BY <2>1, <2>2, AbstractFrame DEF TypeOK
  <2>4. QED BY <2>3
<1>3. ASSUME NEW s \in Spawns, RegisterToken(s)
      PROVE  Scheduler!EnqueueJob(key[s])
  <2>1. key[s] \in Keys /\ key' = key /\ signalled' = signalled /\ OneJobPerKey'
    BY <1>3, KeysStep DEF RegisterToken, TypeOK
  <2>2. pc[s] = "claimed" /\ pc' = [pc EXCEPT ![s] = "queued"]
    BY <1>3 DEF RegisterToken, Goto
  <2>3. \A t \in Spawns : Booked(t) => key[t] # key[s]
    BY <2>2 DEF OneJobPerKey, OwnsKey, Registered, Booked
  <2>4. J[key[s]] = "idle"
    BY <2>1, <2>3, AbstractOfFree
  <2>5. s \notin signalled
    BY <2>2 DEF TokensWereRegistered, Tokened, Registered
  <2>6. pc'[s] = "queued" /\ Booked(s)'
    BY <2>2 DEF TypeOK, Booked
  <2>7. AbstractJob(key[s])' = "queued" /\ AbstractToken(key[s])' = "live"
    BY <2>1, <2>5, <2>6, AbstractOfBookedNext DEF TypeOK
  <2>8. \A k \in Keys : k # key[s] =>
          AbstractJob(k)' = AbstractJob(k) /\ AbstractToken(k)' = AbstractToken(k)
    <3>1. \A t \in Spawns : t # s => pc'[t] = pc[t]
      BY <2>2 DEF TypeOK
    <3>2. QED BY <2>1, <3>1, AbstractFrame DEF TypeOK
  <2>9. J' = [J EXCEPT ![key[s]] = "queued"] /\ T' = [T EXCEPT ![key[s]] = "live"]
    BY <2>1, <2>7, <2>8
  <2>10. QED BY <2>4, <2>9 DEF Scheduler!EnqueueJob
<1>4. ASSUME NEW s \in Spawns, AcquirePermit(s)
      PROVE  Scheduler!StartJob(key[s])
  <2>1. key[s] \in Keys /\ key' = key /\ signalled' = signalled /\ OneJobPerKey'
    BY <1>4, KeysStep DEF AcquirePermit, TypeOK
  <2>2. pc[s] = "queued" /\ pc' = [pc EXCEPT ![s] = "working"] /\ Booked(s)
    BY <1>4 DEF AcquirePermit, Goto, Booked
  <2>3. pc'[s] = "working" /\ Booked(s)'
    BY <2>2 DEF TypeOK, Booked
  <2>4. /\ AbstractJob(key[s]) = "queued" /\ AbstractJob(key[s])' = "working"
        /\ AbstractToken(key[s])' = AbstractToken(key[s])
    BY <2>1, <2>2, <2>3, AbstractOfBooked, AbstractOfBookedNext DEF TypeOK, BookedIsRead
  <2>5. \A k \in Keys : k # key[s] =>
          AbstractJob(k)' = AbstractJob(k) /\ AbstractToken(k)' = AbstractToken(k)
    <3>1. \A t \in Spawns : t # s => pc'[t] = pc[t]
      BY <2>2 DEF TypeOK
    <3>2. QED BY <2>1, <3>1, AbstractFrame DEF TypeOK
  <2>6. J' = [J EXCEPT ![key[s]] = "working"] /\ T' = T /\ J[key[s]] = "queued"
    BY <2>1, <2>4, <2>5
  <2>7. Cardinality(Scheduler!WorkingJobs) < MaxConcurrentJobs
    <3>1. Cardinality(PermitHolders) < MaxConcurrentJobs
      <4>1. Cardinality(PermitHolders) \in Nat
        BY FiniteAssumption, FS_Subset, FS_CardinalityType DEF PermitHolders
      <4>2. permits > 0 /\ permits \in 0..MaxConcurrentJobs
        BY <1>4 DEF AcquirePermit, TypeOK
      <4>3. QED BY <4>1, <4>2, PermitsAssumption DEF PermitsConserved
    <3>2. Cardinality(Scheduler!WorkingJobs) \in Nat
      BY WorkingNeedsPermits, FS_CardinalityType
    <3>3. Cardinality(PermitHolders) \in Nat
      BY FiniteAssumption, FS_Subset, FS_CardinalityType DEF PermitHolders
    <3>4. QED BY <3>1, <3>2, <3>3, WorkingNeedsPermits, PermitsAssumption
  <2>8. QED BY <2>6, <2>7 DEF Scheduler!StartJob, Scheduler!Cardinality, Cardinality
<1>5. ASSUME NEW s \in Spawns, WorkerReturns(s)
      PROVE  Scheduler!FinishJob(key[s])
  <2>1. key[s] \in Keys /\ key' = key /\ signalled' = signalled
    BY <1>5 DEF WorkerReturns, TypeOK
  <2>2. pc[s] = "working" /\ pc' = [pc EXCEPT ![s] = "returned"] /\ Booked(s)
    BY <1>5 DEF WorkerReturns, Goto, Booked
  <2>3. J[key[s]] = "working"
    BY <2>1, <2>2, AbstractOfBooked DEF TypeOK, BookedIsRead
  <2>4. \A t \in Spawns : Booked(t) /\ t # s => key[t] # key[s]
    BY <2>2 DEF OneJobPerKey, OwnsKey, Registered, Booked
  <2>5. \A t \in Spawns : t # s => pc'[t] = pc[t]
    BY <2>2 DEF TypeOK
  <2>6. ~Booked(s)'
    BY <2>2 DEF TypeOK, Booked
  <2>7. \A t \in Spawns : Booked(t)' => key'[t] # key[s]
    BY <2>1, <2>4, <2>5, <2>6 DEF Booked
  <2>8. AbstractJob(key[s])' = "idle" /\ AbstractToken(key[s])' = "none"
    BY <2>1, <2>7 DEF AbstractJob, AbstractToken, Booked
  <2>9. \A k \in Keys : k # key[s] =>
          AbstractJob(k)' = AbstractJob(k) /\ AbstractToken(k)' = AbstractToken(k)
    BY <2>1, <2>5, AbstractFrame DEF TypeOK
  <2>10. J' = [J EXCEPT ![key[s]] = "idle"] /\ T' = [T EXCEPT ![key[s]] = "none"]
    BY <2>1, <2>8, <2>9
  <2>11. QED BY <2>3, <2>10 DEF Scheduler!FinishJob
<1>6. ASSUME NEW x \in Cancellers, NEW k \in Keys, LookupToken(x, k)
      PROVE  J' = J /\ T' = T
  BY <1>6 DEF LookupToken, AbstractJob, AbstractToken
<1>7. ASSUME NEW x \in Cancellers, SignalToken(x), NEW s \in Spawns, held[x] = s
      PROVE  (J' = J /\ T' = T) \/ Scheduler!CancelJob(key[s])
  <2>1. key[s] \in Keys /\ key' = key /\ pc' = pc /\ signalled' = signalled \cup {s}
    BY <1>7 DEF SignalToken, TypeOK
  <2>2. J' = J
    BY <2>1 DEF AbstractJob
  <2>3. \A k \in Keys : k # key[s] \/ ~Booked(s) => AbstractToken(k)' = AbstractToken(k)
    <3>1. \A k \in Keys : k # key[s] \/ ~Booked(s) =>
            \A t \in Spawns : key[t] = k => (Booked(t) => (t \in signalled' <=> t \in signalled))
      BY <2>1
    <3>2. QED BY <2>1, <3>1, AbstractFrame DEF TypeOK
  <2>4. CASE ~Booked(s)
    BY <2>2, <2>3, <2>4
  <2>5. CASE Booked(s)
    <3>1. AbstractJob(key[s]) = pc[s]
      BY <2>1, <2>5, AbstractOfBooked DEF TypeOK, BookedIsRead
    <3>2. OneJobPerKey' /\ Booked(s)'
      BY <2>1, <2>5 DEF OneJobPerKey, OwnsKey, Registered, Booked
    <3>3. AbstractToken(key[s])' = "cancelled"
      BY <2>1, <3>2, AbstractOfBookedNext DEF TypeOK
    <3>4. T' = [T EXCEPT ![key[s]] = "cancelled"] /\ J[key[s]] # "idle"
      BY <2>1, <2>3, <2>5, <3>1, <3>3 DEF Booked
    <3>5. QED BY <2>2, <3>4 DEF Scheduler!CancelJob
  <2>6. QED BY <2>4, <2>5
<1>8. QED
  <2>1. ASSUME NEW s \in Spawns, SpawnStep(s)  PROVE key[s] \in Keys
    BY DEF TypeOK
  <2>2. ASSUME NEW x \in Cancellers, SignalToken(x)
        PROVE  \E s \in Spawns : held[x] = s /\ key[s] \in Keys
    BY <2>2, SpawnsAssumption DEF SignalToken, TypeOK
  <2>3. QED
    BY <1>1, <1>2, <1>3, <1>4, <1>5, <1>6, <1>7, <2>1, <2>2 DEF Next, CancelStep

\* The runtime implements the scheduler that the durable job kinds rely on.
THEOREM Refinement == Spec => ImplementsScheduler
<1>1. Init => Scheduler!JobInit
  BY DEF Init, Scheduler!JobInit, AbstractJob, AbstractToken
<1>2. IInv /\ PermitsConserved /\ [Next]_vars => [Scheduler!JobNext]_(Scheduler!jobVars)
  BY StepSimulation
<1>3. QED
  BY <1>1, <1>2, Invariance, PTL DEF Spec, ImplementsScheduler, Scheduler!JobSpec

=============================================================================
