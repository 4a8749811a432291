---------------------------- MODULE JobScheduler ----------------------------
(***************************************************************************)
(* What JobRuntime (crates/api-server/src/lib.rs, struct JobRuntime)       *)
(* promises to the code that schedules durable work through it: one job    *)
(* per key at a time, at most MaxConcurrentJobs of them working, and a     *)
(* cancellation token that belongs to the job of the key.                  *)
(*                                                                         *)
(* JobRuntime.tla is the detailed version, with the two locks, the         *)
(* semaphore and the clean-up of a finished task step by step; it          *)
(* implements this module.  The modules of the durable job kinds           *)
(* (OpenAiBatches, AnthropicBatches, BackgroundResponses) instantiate this *)
(* one and conjoin its actions to their own.                               *)
(***************************************************************************)
EXTENDS Naturals, FiniteSets

CONSTANTS Keys,              \* job keys, e.g. "openai-batch:<tenant>:<id>"
          MaxConcurrentJobs  \* permits of the job semaphore

VARIABLES job,    \* job[k]: the state of the task of key k
          token   \* token[k]: the CancellationToken handed to that task

jobVars == <<job, token>>

JobTypeOK ==
    /\ job \in [Keys -> {"idle", "queued", "working"}]
    /\ token \in [Keys -> {"none", "live", "cancelled"}]

WorkingJobs == {k \in Keys : job[k] = "working"}

JobInit ==
    /\ job = [k \in Keys |-> "idle"]
    /\ token = [k \in Keys |-> "none"]

\* spawn, when no task of the key is listed as running: a fresh token is
\* registered and the task waits for a permit.
EnqueueJob(k) ==
    /\ job[k] = "idle"
    /\ job' = [job EXCEPT ![k] = "queued"]
    /\ token' = [token EXCEPT ![k] = "live"]

\* spawn, when the key is already taken: it returns false, the new worker is
\* dropped and nothing changes.  A job is idle here once its worker has returned;
\* the runtime also refuses, for a moment, until the task has given the key back.
\* No job kind depends on that moment: what its worker leaves is ended, or a store
\* call has failed, which every property excuses.
RefuseJob(k) ==
    /\ job[k] # "idle"
    /\ UNCHANGED jobVars

\* The task acquires a permit and runs the worker.
StartJob(k) ==
    /\ job[k] = "queued"
    /\ Cardinality(WorkingJobs) < MaxConcurrentJobs
    /\ job' = [job EXCEPT ![k] = "working"]
    /\ UNCHANGED token

\* The worker returns: token, key and permit are given back.
FinishJob(k) ==
    /\ job[k] = "working"
    /\ job' = [job EXCEPT ![k] = "idle"]
    /\ token' = [token EXCEPT ![k] = "none"]

\* cancel: signals the registered token, and does nothing without one.
CancelJob(k) ==
    /\ UNCHANGED job
    /\ token' = [token EXCEPT ![k] = IF job[k] = "idle" THEN @ ELSE "cancelled"]

\* The process ends; tasks and tokens live in its memory only.
StopAllJobs ==
    /\ job' = [k \in Keys |-> "idle"]
    /\ token' = [k \in Keys |-> "none"]

JobNext ==
    \/ \E k \in Keys : EnqueueJob(k) \/ StartJob(k) \/ FinishJob(k) \/ CancelJob(k)
    \/ StopAllJobs

JobSpec == JobInit /\ [][JobNext]_jobVars

=============================================================================
