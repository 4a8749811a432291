-------------------------- MODULE ResilientProvider --------------------------
(***************************************************************************)
(* Calls to a model provider: the circuit breaker, the retry loop and the  *)
(* admission semaphore around every call (crates/api-server/src/lib.rs:    *)
(* CircuitBreaker, ResilientProvider, resilient_direct_send,               *)
(* AdmissionProvider).  The calls run concurrently; each looks at the      *)
(* breaker once when it starts and reports to it once when it is over,     *)
(* however the breaker has changed in between.  A call whose future is     *)
(* dropped (a timeout of the kernel, a cancelled batch, a client that      *)
(* disconnects) gives its permit back and never reports.                   *)
(***************************************************************************)
EXTENDS Naturals, FiniteSets

CONSTANTS Calls,         \* the calls of invoke, stream, resilient_direct_send
          Threshold,     \* circuit_failure_threshold, at least 1 as in .max(1)
          MaxRetries,    \* max_retries
          Cooldown,      \* circuit_cooldown, in ticks
          MaxConcurrent, \* permits of ProviderAdmission
          Closed,        \* None of open_until
          MaxTime,       \* bound on the clock
          MaxDrops       \* bound on dropped futures

ASSUME CallsAssumption == IsFiniteSet(Calls)
ASSUME NumbersAssumption ==
    /\ Threshold \in Nat \ {0} /\ MaxRetries \in Nat /\ Cooldown \in Nat
    /\ MaxConcurrent \in Nat \ {0} /\ MaxTime \in Nat /\ MaxDrops \in Nat
ASSUME ClosedAssumption == Closed \notin Nat

VARIABLES call,    \* call[c]: where the call is
          attempt, \* attempt[c]: retries so far
          consecutive_failures, open_until, half_open_probe, \* CircuitState
          permits, \* available permits of the admission semaphore
          now,     \* Instant::now()
          drops,   \* futures dropped so far
          opening, \* history: how often the circuit has opened
          passed   \* history: [opening, probe] at the start of the call

circuit == <<consecutive_failures, open_until, half_open_probe, opening>>
vars == <<call, attempt, circuit, permits, now, drops, passed>>

Phases == {"new", "queued", "sending", "backoff", "streaming",
           "ok", "failed", "rejected", "dropped"}

\* A call that the breaker has let through and that has not reported yet.
InFlight(c) == call[c] \in {"queued", "sending", "backoff"}

\* The permit is held while a request is sent and for as long as the body of
\* a streamed response is read.
HoldsPermit(c) == call[c] \in {"sending", "streaming"}

PermitHolders == {c \in Calls : HoldsPermit(c)}

TypeOK ==
    /\ call \in [Calls -> Phases]
    /\ attempt \in [Calls -> 0..MaxRetries]
    /\ consecutive_failures \in Nat
    /\ open_until \in Nat \cup {Closed}
    /\ half_open_probe \in BOOLEAN
    /\ permits \in 0..MaxConcurrent
    /\ now \in 0..MaxTime /\ drops \in 0..MaxDrops
    /\ opening \in Nat
    /\ passed \in [Calls -> [opening : Nat, probe : BOOLEAN]]

Init ==
    /\ call = [c \in Calls |-> "new"]
    /\ attempt = [c \in Calls |-> 0]
    /\ consecutive_failures = 0 /\ open_until = Closed /\ half_open_probe = FALSE
    /\ permits = MaxConcurrent
    /\ now = 0 /\ drops = 0 /\ opening = 0
    /\ passed = [c \in Calls |-> [opening |-> 0, probe |-> FALSE]]

Goto(c, phase) == call' = [call EXCEPT ![c] = phase]

-----------------------------------------------------------------------------
(* before_request *)

Cooling == open_until # Closed /\ now < open_until
CooledDown == open_until # Closed /\ now >= open_until

\* The call is let through and starts its first attempt.
Pass(c, isProbe) ==
    /\ call[c] = "new"
    /\ Goto(c, "queued")
    /\ passed' = [passed EXCEPT ![c] = [opening |-> opening, probe |-> isProbe]]
    /\ UNCHANGED <<attempt, consecutive_failures, open_until, opening, permits, now, drops>>

\* Mutant of PassClosed: the circuit is closed once the cooldown is over.
PassCooledDown(c) ==
    /\ ~Cooling
    /\ Pass(c, FALSE)
    /\ UNCHANGED half_open_probe

PassClosed(c) ==
    /\ open_until = Closed
    /\ Pass(c, FALSE)
    /\ UNCHANGED half_open_probe

\* Mutant of PassProbe: the flag is not set.
PassProbeUnmarked(c) ==
    /\ CooledDown /\ ~half_open_probe
    /\ Pass(c, TRUE)
    /\ UNCHANGED half_open_probe

\* The first call after the cooldown is the probe.
PassProbe(c) ==
    /\ CooledDown /\ ~half_open_probe
    /\ Pass(c, TRUE)
    /\ half_open_probe' = TRUE

\* CircuitOpen: in the cooldown, or because a probe is under way.
Reject(c) ==
    /\ call[c] = "new"
    /\ Cooling \/ (CooledDown /\ half_open_probe)
    /\ Goto(c, "rejected")
    /\ UNCHANGED <<attempt, circuit, permits, now, drops, passed>>

-----------------------------------------------------------------------------
(* record_success and record_failure *)

RecordSuccess ==
    /\ consecutive_failures' = 0 /\ open_until' = Closed /\ half_open_probe' = FALSE
    /\ UNCHANGED opening

RecordFailure ==
    /\ consecutive_failures' = consecutive_failures + 1
    /\ IF half_open_probe \/ consecutive_failures + 1 >= Threshold
       THEN /\ open_until' = now + Cooldown
            /\ half_open_probe' = FALSE
            /\ opening' = opening + 1
       ELSE UNCHANGED <<open_until, half_open_probe, opening>>

-----------------------------------------------------------------------------
(* The retry loop; one attempt acquires a permit and sends the request.    *)

AcquirePermit(c) ==
    /\ call[c] = "queued" /\ permits > 0
    /\ permits' = permits - 1
    /\ Goto(c, "sending")
    /\ UNCHANGED <<attempt, circuit, now, drops, passed>>

\* Mutant of AttemptFails: the retries are not counted.
AttemptFailsUncounted(c) ==
    \/ /\ attempt[c] < MaxRetries
       /\ Goto(c, "backoff")
       /\ UNCHANGED <<attempt, circuit>>
    \/ /\ attempt[c] = MaxRetries
       /\ Goto(c, "failed")
       /\ RecordFailure
       /\ UNCHANGED attempt

\* A retryable error: sleep and try again, or report the failure.
AttemptFails(c) ==
    \/ /\ attempt[c] < MaxRetries
       /\ attempt' = [attempt EXCEPT ![c] = @ + 1]
       /\ Goto(c, "backoff")
       /\ UNCHANGED circuit
    \/ /\ attempt[c] = MaxRetries
       /\ Goto(c, "failed")
       /\ RecordFailure
       /\ UNCHANGED attempt

\* The permit did not come in time: an error of this server, but a retryable
\* one like those of the provider.
QueueTimeout(c) ==
    /\ call[c] = "queued"
    /\ AttemptFails(c)
    /\ UNCHANGED <<permits, now, drops, passed>>

\* 408, 409, 429, 5xx or a retryable transport error.
RequestFails(c) ==
    /\ call[c] = "sending"
    /\ AttemptFails(c)
    /\ permits' = permits + 1
    /\ UNCHANGED <<now, drops, passed>>

\* Any other error says that the provider is up: it counts as a success.
RequestRefused(c) ==
    /\ call[c] = "sending"
    /\ Goto(c, "failed")
    /\ RecordSuccess
    /\ permits' = permits + 1
    /\ UNCHANGED <<attempt, now, drops, passed>>

RequestAnswered(c) ==
    /\ call[c] = "sending"
    /\ Goto(c, "ok")
    /\ RecordSuccess
    /\ permits' = permits + 1
    /\ UNCHANGED <<attempt, now, drops, passed>>

\* The call has succeeded as soon as the stream is there; the stream owns the
\* permit.
StreamOpened(c) ==
    /\ call[c] = "sending"
    /\ Goto(c, "streaming")
    /\ RecordSuccess
    /\ UNCHANGED <<attempt, permits, now, drops, passed>>

StreamEnds(c) ==
    /\ call[c] = "streaming"
    /\ Goto(c, "ok")
    /\ permits' = permits + 1
    /\ UNCHANGED <<attempt, circuit, now, drops, passed>>

Retry(c) ==
    /\ call[c] = "backoff"
    /\ Goto(c, "queued")
    /\ UNCHANGED <<attempt, circuit, permits, now, drops, passed>>

-----------------------------------------------------------------------------
\* The future of the call, or its stream, is dropped at an await.
DropCall(c) ==
    /\ drops < MaxDrops
    /\ InFlight(c) \/ HoldsPermit(c)
    /\ Goto(c, "dropped")
    /\ permits' = IF HoldsPermit(c) THEN permits + 1 ELSE permits
    /\ drops' = drops + 1
    /\ UNCHANGED <<attempt, circuit, now, passed>>

Tick ==
    /\ now < MaxTime
    /\ now' = now + 1
    /\ UNCHANGED <<call, attempt, circuit, permits, drops, passed>>

Start(c) == PassClosed(c) \/ PassProbe(c) \/ Reject(c)

Reply(c) ==
    \/ RequestFails(c) \/ RequestRefused(c) \/ RequestAnswered(c) \/ StreamOpened(c)

Step(c) ==
    \/ AcquirePermit(c) \/ QueueTimeout(c) \/ Reply(c) \/ StreamEnds(c) \/ Retry(c)

Next == (\E c \in Calls : Start(c) \/ Step(c) \/ DropCall(c)) \/ Tick

Spec == Init /\ [][Next]_vars

\* A queued call gets its permit or runs into the queue timeout, a request is
\* answered or runs into the timeout of the HTTP client, a sleep ends, and a
\* stream is read to its end.
FairSpec == Spec /\ \A c \in Calls : WF_vars(Step(c))

-----------------------------------------------------------------------------
(* Properties *)

\* An opening of the circuit has at most one probe, even if calls that began
\* before it report while the probe is under way.
OneProbePerOpening ==
    \A c, d \in Calls : passed[c].probe /\ passed[d].probe
                        /\ passed[c].opening = passed[d].opening => c = d

\* While the circuit is open the provider sees only calls that had begun
\* before it opened, and the probe.
OpenCircuitShields ==
    open_until # Closed =>
        \A c \in Calls : InFlight(c) => passed[c].probe \/ passed[c].opening < opening

\* The circuit is open only after Threshold calls in a row have failed with
\* all their retries, whatever the order in which the calls report.
OpensAtThreshold == open_until # Closed => consecutive_failures >= Threshold

\* Whoever has set half_open_probe will clear it by its report, unless its
\* future was dropped: no other report leaves the flag behind.
ProbeIsOwned ==
    half_open_probe =>
        \E c \in Calls : /\ passed[c].probe /\ passed[c].opening = opening
                         /\ InFlight(c) \/ call[c] = "dropped"

\* No permit is lost or made, with failing, dropped and streaming calls.
PermitsConserved == permits + Cardinality(PermitHolders) = MaxConcurrent

\* Retries are bounded and queueing is, so every call comes to an end.
CallsEnd == \A c \in Calls : InFlight(c) ~> ~InFlight(c)

=============================================================================
