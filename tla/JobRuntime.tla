----------------------------- MODULE JobRuntime -----------------------------
(***************************************************************************)
(* The process-wide scheduler of durable jobs: struct JobRuntime in        *)
(* crates/api-server/src/lib.rs.  Its state is a set of running keys and a *)
(* map of cancellation tokens, each under a lock of its own, and a         *)
(* semaphore.  spawn takes the two locks one after the other, the spawned  *)
(* task gives the two entries back one after the other when the worker     *)
(* returns, and the permit is dropped last; cancel looks the token up      *)
(* under the lock and signals it afterwards.  Every one of these is a step *)
(* here, because handlers and tasks run on several threads.                *)
(***************************************************************************)
EXTENDS Naturals, FiniteSets

CONSTANTS Spawns,            \* the calls of spawn, each with one worker
          Keys,              \* the job keys
          Cancellers,        \* the concurrent callers of cancel
          MaxConcurrentJobs, \* max_concurrent of JobRuntime::new
          NoSpawn            \* "no entry" in the map of tokens

ASSUME SpawnsAssumption == NoSpawn \notin Spawns
ASSUME FiniteAssumption == IsFiniteSet(Spawns)
\* JobRuntime::new raises a configured 0 to 1.
ASSUME PermitsAssumption == MaxConcurrentJobs \in Nat \ {0}

VARIABLES key,           \* key[s]: the key argument of the call s
          pc,            \* pc[s]: how far the call and its task have come
          running,       \* the locked set of keys
          cancellations, \* the locked map from key to token (named by its spawn)
          signalled,     \* the spawns whose token has been cancelled
          permits,       \* available permits of the semaphore
          held           \* held[x]: token a canceller has looked up

vars == <<key, pc, running, cancellations, signalled, permits, held>>

Phases == {"new", "claimed", "queued", "working", "returned", "unregistered",
           "unlisted", "ended", "refused"}

TypeOK ==
    /\ key \in [Spawns -> Keys]
    /\ pc \in [Spawns -> Phases]
    /\ running \subseteq Keys
    /\ cancellations \in [Keys -> Spawns \cup {NoSpawn}]
    /\ signalled \subseteq Spawns
    /\ permits \in 0..MaxConcurrentJobs
    /\ held \in [Cancellers -> Spawns \cup {NoSpawn}]

Init ==
    /\ key \in [Spawns -> Keys]
    /\ pc = [s \in Spawns |-> "new"]
    /\ running = {}
    /\ cancellations = [k \in Keys |-> NoSpawn]
    /\ signalled = {}
    /\ permits = MaxConcurrentJobs
    /\ held = [x \in Cancellers |-> NoSpawn]

Goto(s, phase) == pc' = [pc EXCEPT ![s] = phase]

-----------------------------------------------------------------------------
(* spawn: the caller's thread *)

\* Mutant of ClaimKey: the result of running.insert is ignored.
ClaimKeyUnchecked(s) ==
    /\ pc[s] = "new"
    /\ running' = running \cup {key[s]}
    /\ Goto(s, "claimed")
    /\ UNCHANGED <<key, cancellations, signalled, permits, held>>

\* running.insert(key) under the first lock.
ClaimKey(s) ==
    /\ pc[s] = "new"
    /\ key[s] \notin running
    /\ running' = running \cup {key[s]}
    /\ Goto(s, "claimed")
    /\ UNCHANGED <<key, cancellations, signalled, permits, held>>

\* The key is taken: spawn returns false.
RefuseKey(s) ==
    /\ pc[s] = "new"
    /\ key[s] \in running
    /\ Goto(s, "refused")
    /\ UNCHANGED <<key, running, cancellations, signalled, permits, held>>

\* A new token goes into the map under the second lock, then tokio::spawn.
RegisterToken(s) ==
    /\ pc[s] = "claimed"
    /\ cancellations' = [cancellations EXCEPT ![key[s]] = s]
    /\ Goto(s, "queued")
    /\ UNCHANGED <<key, running, signalled, permits, held>>

-----------------------------------------------------------------------------
(* The spawned task *)

\* Mutant of AcquirePermit: the worker starts without waiting for a permit.
AcquireNoPermit(s) ==
    /\ pc[s] = "queued"
    /\ Goto(s, "working")
    /\ UNCHANGED <<key, running, cancellations, signalled, permits, held>>

AcquirePermit(s) ==
    /\ pc[s] = "queued"
    /\ permits > 0
    /\ permits' = permits - 1
    /\ Goto(s, "working")
    /\ UNCHANGED <<key, running, cancellations, signalled, held>>

\* Mutant of WorkerReturns: the key is freed as soon as the worker is done, so
\* the clean-up of the token comes after it.
WorkerFreesKey(s) ==
    /\ pc[s] = "working"
    /\ Goto(s, "returned")
    /\ running' = running \ {key[s]}
    /\ UNCHANGED <<key, cancellations, signalled, permits, held>>

WorkerReturns(s) ==
    /\ pc[s] = "working"
    /\ Goto(s, "returned")
    /\ UNCHANGED <<key, running, cancellations, signalled, permits, held>>

\* The token leaves the map before the key leaves the running set.
RemoveToken(s) ==
    /\ pc[s] = "returned"
    /\ cancellations' = [cancellations EXCEPT ![key[s]] = NoSpawn]
    /\ Goto(s, "unregistered")
    /\ UNCHANGED <<key, running, signalled, permits, held>>

ReleaseKey(s) ==
    /\ pc[s] = "unregistered"
    /\ running' = running \ {key[s]}
    /\ Goto(s, "unlisted")
    /\ UNCHANGED <<key, cancellations, signalled, permits, held>>

\* Mutant of DropPermit: the permit is forgotten.
LeakPermit(s) ==
    /\ pc[s] = "unlisted"
    /\ Goto(s, "ended")
    /\ UNCHANGED <<key, running, cancellations, signalled, permits, held>>

\* The permit is a local of the task's async block and is dropped at its end.
DropPermit(s) ==
    /\ pc[s] = "unlisted"
    /\ permits' = permits + 1
    /\ Goto(s, "ended")
    /\ UNCHANGED <<key, running, cancellations, signalled, held>>

-----------------------------------------------------------------------------
(* cancel: any handler's thread *)

LookupToken(x, k) ==
    /\ held[x] = NoSpawn
    /\ cancellations[k] # NoSpawn
    /\ held' = [held EXCEPT ![x] = cancellations[k]]
    /\ UNCHANGED <<key, pc, running, cancellations, signalled, permits>>

SignalToken(x) ==
    /\ held[x] # NoSpawn
    /\ signalled' = signalled \cup {held[x]}
    /\ held' = [held EXCEPT ![x] = NoSpawn]
    /\ UNCHANGED <<key, pc, running, cancellations, permits>>

-----------------------------------------------------------------------------
SpawnStep(s) ==
    \/ ClaimKey(s)      \/ RefuseKey(s)     \/ RegisterToken(s)
    \/ AcquirePermit(s) \/ WorkerReturns(s) \/ RemoveToken(s)
    \/ ReleaseKey(s)    \/ DropPermit(s)

CancelStep(x) == (\E k \in Keys : LookupToken(x, k)) \/ SignalToken(x)

Next == (\E s \in Spawns : SpawnStep(s)) \/ (\E x \in Cancellers : CancelStep(x))

Spec == Init /\ [][Next]_vars

\* Steps of a thread or a runnable task are taken; the tokio semaphore serves
\* its waiters in order, so a task that can repeatedly get a permit gets one;
\* a worker returns (OpenAiBatches shows it for the batch worker).
Fairness ==
    \A s \in Spawns :
        /\ WF_vars(RegisterToken(s) \/ WorkerReturns(s) \/ RemoveToken(s)
                   \/ ReleaseKey(s) \/ DropPermit(s))
        /\ SF_vars(AcquirePermit(s))

FairSpec == Spec /\ Fairness

-----------------------------------------------------------------------------
(* Properties *)

\* A task that has its token in the map and has not cleaned up yet.
Registered(s) == pc[s] \in {"queued", "working", "returned"}

\* A call that owns its key in the running set.
OwnsKey(s) == pc[s] = "claimed" \/ Registered(s) \/ pc[s] = "unregistered"

HoldsPermit(s) == pc[s] \in {"working", "returned", "unregistered", "unlisted"}

PermitHolders == {s \in Spawns : HoldsPermit(s)}

\* A call whose token has been, or still is, in the map.
Tokened(s) == Registered(s) \/ pc[s] \in {"unregistered", "unlisted", "ended"}

\* Two calls of spawn never both own the key they share: a durable job, and
\* so the model requests it makes, is not run twice at the same time.
OneJobPerKey ==
    \A s, t \in Spawns : OwnsKey(s) /\ OwnsKey(t) /\ key[s] = key[t] => s = t

\* The running set is exactly the keys that are owned, so that a key is
\* neither leaked (its job could never be scheduled again) nor freed early.
RunningIsExact == running = {key[s] : s \in {t \in Spawns : OwnsKey(t)}}

\* A job that waits or works can be cancelled: the map holds its own token,
\* never that of an earlier job of the key and never nothing.
CancelReachesJob ==
    \A s \in Spawns : Registered(s) => cancellations[key[s]] = s

\* No token is left behind in the map: an entry belongs to a task that has
\* not cleaned up, so cancel does not report success for a job that is gone.
NoStaleToken ==
    \A k \in Keys : cancellations[k] # NoSpawn =>
        Registered(cancellations[k]) /\ key[cancellations[k]] = k

\* What the two locks guard says exactly which jobs exist.
BooksAreExact == RunningIsExact /\ NoStaleToken

\* Permits are neither lost nor made: what is available and what the tasks
\* hold add up to the configured number.
PermitsConserved ==
    permits + Cardinality(PermitHolders) = MaxConcurrentJobs

\* Every call whose key is claimed ends and gives back its permit, whatever
\* the other calls do.
EveryJobEnds == \A s \in Spawns : pc[s] = "claimed" ~> pc[s] = "ended"

-----------------------------------------------------------------------------
(* Refinement of JobScheduler: a job is on the books from the moment its   *)
(* token is registered to the moment its worker returns.                   *)

AbstractJob(k) ==
    IF \E s \in Spawns : key[s] = k /\ pc[s] = "working" THEN "working"
    ELSE IF \E s \in Spawns : key[s] = k /\ pc[s] = "queued" THEN "queued"
    ELSE "idle"

AbstractToken(k) ==
    IF AbstractJob(k) = "idle" THEN "none"
    ELSE IF \E s \in signalled : key[s] = k /\ pc[s] \in {"queued", "working"}
         THEN "cancelled" ELSE "live"

Scheduler == INSTANCE JobScheduler
                 WITH job <- [k \in Keys |-> AbstractJob(k)],
                      token <- [k \in Keys |-> AbstractToken(k)]

\* The runtime does what JobScheduler promises to the job kinds.
ImplementsScheduler == Scheduler!JobSpec

=============================================================================
