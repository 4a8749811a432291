---------------------------- MODULE ProviderProofs ----------------------------
(***************************************************************************)
(* How often a provider is called (ResilientProvider, first part), and     *)
(* what a client is told of its answers (ClientStreams, second part).  The *)
(* two have no state in common.                                            *)
(*                                                                         *)
(* The first part holds for every number of calls, retries and permits,    *)
(* every threshold, cooldown and number of dropped futures.  The           *)
(* properties of the breaker are not inductive by themselves.  Why an      *)
(* opening has one probe only becomes visible with three more facts:       *)
(* half_open_probe is set only while the circuit is open, a probe of the   *)
(* current opening keeps it set until the circuit closes or opens anew,    *)
(* and no call has passed in an opening that is still to come.             *)
(*                                                                         *)
(* The second part holds for every set of frames and of complete answers,  *)
(* and for any number of frames, pieces and keepalives.  What a client     *)
(* gathers is one function applied to every event and joined; the lemmas   *)
(* on such sequences come first.  Complete answers are told by computing   *)
(* what each protocol makes of them; of live streams one invariant says    *)
(* that what a translator keeps is what its events tell, and another that  *)
(* what the upstream sent was told, waits to be sent or is on its way.     *)
(***************************************************************************)
EXTENDS ResilientProvider, ClientStreams, FiniteSetTheorems, SequenceTheorems,
        WellFoundedInduction, TLAPS

HalfOpenIsOpen == half_open_probe => open_until # Closed

ProbeIsMarked ==
    \A c \in Calls :
        open_until # Closed /\ passed[c].probe /\ passed[c].opening = opening => half_open_probe

PassedBefore == \A c \in Calls : passed[c].opening <= opening

BreakerInv ==
    /\ OneProbePerOpening /\ OpenCircuitShields /\ OpensAtThreshold /\ ProbeIsOwned
    /\ HalfOpenIsOpen /\ ProbeIsMarked /\ PassedBefore

IInv == TypeOK /\ PermitsConserved /\ BreakerInv

\* The calls that hold a permit are finitely many.
LEMMA HoldersFinite ==
    /\ IsFiniteSet(PermitHolders)
    /\ Cardinality(PermitHolders) \in Nat
BY CallsAssumption, FS_Subset, FS_CardinalityType DEF PermitHolders

\* A call that holds a permit is counted among those that are not available.
LEMMA HeldIsMissing ==
    ASSUME TypeOK, PermitsConserved, NEW c \in Calls, HoldsPermit(c)
    PROVE  permits + 1 \in 0..MaxConcurrent
<1>1. c \in PermitHolders
  BY DEF PermitHolders
<1>2. Cardinality(PermitHolders) # 0
  BY <1>1, HoldersFinite, FS_EmptySet
<1>3. QED
  BY <1>2, HoldersFinite, NumbersAssumption DEF PermitsConserved, TypeOK

\* What AttemptFails and the reports do to the breaker keeps the types.
LEMMA ReportTypes ==
    ASSUME TypeOK, RecordSuccess \/ RecordFailure \/ UNCHANGED circuit
    PROVE  /\ consecutive_failures' \in Nat /\ open_until' \in Nat \cup {Closed}
           /\ half_open_probe' \in BOOLEAN /\ opening' \in Nat
<1>1. CASE RecordSuccess
  BY <1>1 DEF TypeOK, RecordSuccess
<1>2. CASE RecordFailure
  <2>1. consecutive_failures' \in Nat /\ opening' \in Nat /\ open_until' \in Nat \cup {Closed}
    BY <1>2, NumbersAssumption DEF TypeOK, RecordFailure
  <2>2. half_open_probe' = FALSE \/ half_open_probe' = half_open_probe
    BY <1>2 DEF RecordFailure
  <2>3. QED BY <2>1, <2>2 DEF TypeOK
<1>3. CASE UNCHANGED circuit
  BY <1>3 DEF TypeOK, circuit
<1>4. QED BY <1>1, <1>2, <1>3

\* A failing attempt keeps the types.
LEMMA FailureTypes ==
    ASSUME TypeOK, NEW c \in Calls, AttemptFails(c)
    PROVE  /\ attempt' \in [Calls -> 0..MaxRetries]
           /\ call' \in [Calls -> Phases]
           /\ RecordFailure \/ UNCHANGED circuit
BY NumbersAssumption DEF TypeOK, AttemptFails, Goto, Phases

\* Type correctness is preserved by every step.
LEMMA TypeStep ==
    ASSUME TypeOK, PermitsConserved, [Next]_vars
    PROVE  TypeOK'
<1> USE NumbersAssumption DEF TypeOK
<1>1. ASSUME NEW c \in Calls, Start(c)  PROVE TypeOK'
  <2> USE DEF Pass, Goto, Phases
  <2>1. CASE PassClosed(c)  BY <2>1 DEF PassClosed
  <2>2. CASE PassProbe(c)   BY <2>2 DEF PassProbe
  <2>3. CASE Reject(c)      BY <2>3 DEF Reject, circuit
  <2>4. QED BY <1>1, <2>1, <2>2, <2>3 DEF Start
<1>2. ASSUME NEW c \in Calls, Step(c)  PROVE TypeOK'
  <2> USE DEF Goto, Phases
  <2>1. CASE AcquirePermit(c)
    BY <2>1 DEF AcquirePermit, circuit
  <2>2. CASE QueueTimeout(c)
    BY <2>2, FailureTypes, ReportTypes DEF QueueTimeout
  <2>3. CASE RequestFails(c)
    BY <2>3, FailureTypes, ReportTypes, HeldIsMissing DEF RequestFails, HoldsPermit
  <2>4. CASE RequestRefused(c)
    BY <2>4, ReportTypes, HeldIsMissing DEF RequestRefused, HoldsPermit
  <2>5. CASE RequestAnswered(c)
    BY <2>5, ReportTypes, HeldIsMissing DEF RequestAnswered, HoldsPermit
  <2>6. CASE StreamOpened(c)
    BY <2>6, ReportTypes DEF StreamOpened
  <2>7. CASE StreamEnds(c)
    BY <2>7, HeldIsMissing DEF StreamEnds, HoldsPermit, circuit
  <2>8. CASE Retry(c)
    BY <2>8 DEF Retry, circuit
  <2>9. QED
    BY <1>2, <2>1, <2>2, <2>3, <2>4, <2>5, <2>6, <2>7, <2>8 DEF Step, Reply
<1>3. ASSUME NEW c \in Calls, DropCall(c)  PROVE TypeOK'
  <2>1. permits' \in 0..MaxConcurrent
    BY <1>3, HeldIsMissing DEF DropCall
  <2>2. QED
    BY <1>3, <2>1 DEF DropCall, Goto, Phases, circuit
<1>4. CASE Tick
  BY <1>4 DEF Tick, circuit
<1>5. CASE UNCHANGED vars
  BY <1>5 DEF vars, circuit
<1>6. QED
  BY <1>1, <1>2, <1>3, <1>4, <1>5 DEF Next

\* A step that makes c a holder takes one permit, a step that ends its hold
\* gives one back, and any other step leaves permits and holders alone.
LEMMA PermitsMove ==
    ASSUME TypeOK, PermitsConserved, NEW c \in Calls, NEW phase, Goto(c, phase),
           \/ ~HoldsPermit(c) /\ phase \in {"sending", "streaming"} /\ permits' = permits - 1
           \/ HoldsPermit(c) /\ phase \notin {"sending", "streaming"} /\ permits' = permits + 1
           \/ /\ HoldsPermit(c) <=> phase \in {"sending", "streaming"}
              /\ permits' = permits
    PROVE  PermitsConserved'
<1>1. \A d \in Calls : HoldsPermit(d)' <=> IF d = c THEN phase \in {"sending", "streaming"}
                                           ELSE HoldsPermit(d)
  BY DEF Goto, HoldsPermit, TypeOK
<1>2. CASE ~HoldsPermit(c) /\ phase \in {"sending", "streaming"} /\ permits' = permits - 1
  <2>1. c \notin PermitHolders /\ PermitHolders' = PermitHolders \cup {c}
    BY <1>1, <1>2 DEF PermitHolders
  <2>2. Cardinality(PermitHolders') = Cardinality(PermitHolders) + 1
    BY <2>1, HoldersFinite, FS_AddElement
  <2>3. QED BY <1>2, <2>2, HoldersFinite, NumbersAssumption DEF PermitsConserved, TypeOK
<1>3. CASE HoldsPermit(c) /\ phase \notin {"sending", "streaming"} /\ permits' = permits + 1
  <2>1. c \in PermitHolders /\ PermitHolders' = PermitHolders \ {c}
    BY <1>1, <1>3 DEF PermitHolders
  <2>2. Cardinality(PermitHolders') = Cardinality(PermitHolders) - 1
    BY <2>1, HoldersFinite, FS_RemoveElement
  <2>3. QED BY <1>3, <2>2, HoldersFinite, NumbersAssumption DEF PermitsConserved, TypeOK
<1>4. CASE /\ HoldsPermit(c) <=> phase \in {"sending", "streaming"}
           /\ permits' = permits
  <2>1. PermitHolders' = PermitHolders
    BY <1>1, <1>4 DEF PermitHolders
  <2>2. QED BY <1>4, <2>1 DEF PermitsConserved
<1>5. QED
  BY <1>2, <1>3, <1>4

\* A step neither loses nor makes a permit.
LEMMA PermitsStep ==
    ASSUME TypeOK, PermitsConserved, [Next]_vars
    PROVE  PermitsConserved'
<1>1. ASSUME NEW c \in Calls, Start(c)  PROVE PermitsConserved'
  <2>1. permits' = permits /\ ~HoldsPermit(c) /\ (Goto(c, "queued") \/ Goto(c, "rejected"))
    BY <1>1 DEF Start, PassClosed, PassProbe, Pass, Reject, HoldsPermit
  <2>2. QED BY <2>1, PermitsMove
<1>2. ASSUME NEW c \in Calls, Step(c)  PROVE PermitsConserved'
  <2>1. CASE AcquirePermit(c)
    BY <2>1, PermitsMove DEF AcquirePermit, HoldsPermit
  <2>2. CASE QueueTimeout(c)
    <3>1. permits' = permits /\ ~HoldsPermit(c) /\ (Goto(c, "backoff") \/ Goto(c, "failed"))
      BY <2>2 DEF QueueTimeout, AttemptFails, HoldsPermit
    <3>2. QED BY <3>1, PermitsMove
  <2>3. CASE RequestFails(c)
    <3>1. permits' = permits + 1 /\ HoldsPermit(c) /\ (Goto(c, "backoff") \/ Goto(c, "failed"))
      BY <2>3 DEF RequestFails, AttemptFails, HoldsPermit
    <3>2. QED BY <3>1, PermitsMove
  <2>4. CASE RequestRefused(c)
    BY <2>4, PermitsMove DEF RequestRefused, HoldsPermit
  <2>5. CASE RequestAnswered(c)
    BY <2>5, PermitsMove DEF RequestAnswered, HoldsPermit
  <2>6. CASE StreamOpened(c)
    BY <2>6, PermitsMove DEF StreamOpened, HoldsPermit
  <2>7. CASE StreamEnds(c)
    BY <2>7, PermitsMove DEF StreamEnds, HoldsPermit
  <2>8. CASE Retry(c)
    BY <2>8, PermitsMove DEF Retry, HoldsPermit
  <2>9. QED
    BY <1>2, <2>1, <2>2, <2>3, <2>4, <2>5, <2>6, <2>7, <2>8 DEF Step, Reply
<1>3. ASSUME NEW c \in Calls, DropCall(c)  PROVE PermitsConserved'
  BY <1>3, PermitsMove DEF DropCall
<1>4. CASE Tick
  BY <1>4 DEF Tick, PermitsConserved, PermitHolders, HoldsPermit
<1>5. CASE UNCHANGED vars
  BY <1>5 DEF vars, PermitsConserved, PermitHolders, HoldsPermit
<1>6. QED
  BY <1>1, <1>2, <1>3, <1>4, <1>5 DEF Next

\* A step that leaves the breaker and the ways of passing alone preserves the
\* invariant if no call comes into flight and the probe does not leave it
\* unnoticed.
LEMMA BreakerFrame ==
    ASSUME TypeOK, BreakerInv, UNCHANGED <<circuit, passed>>,
           \A c \in Calls : InFlight(c)' => InFlight(c),
           \A c \in Calls : InFlight(c) => InFlight(c)' \/ call'[c] = "dropped"
                                           \/ call[c] = "sending",
           \A c \in Calls : call[c] = "dropped" => call'[c] = "dropped",
           \A c \in Calls : InFlight(c) /\ call[c] = "sending" => InFlight(c)' \/ call'[c] = "dropped"
    PROVE  BreakerInv'
<1> USE DEF BreakerInv, circuit
<1>1. OneProbePerOpening' /\ OpensAtThreshold' /\ HalfOpenIsOpen' /\ ProbeIsMarked' /\ PassedBefore'
  BY DEF OneProbePerOpening, OpensAtThreshold, HalfOpenIsOpen, ProbeIsMarked, PassedBefore
<1>2. OpenCircuitShields'
  BY DEF OpenCircuitShields
<1>3. ProbeIsOwned'
  BY DEF ProbeIsOwned
<1>4. QED BY <1>1, <1>2, <1>3

\* A report that closes the circuit, or opens it anew, leaves no probe of the
\* current opening behind.
LEMMA BreakerReport ==
    ASSUME TypeOK, BreakerInv, UNCHANGED passed, RecordSuccess \/ RecordFailure,
           \A c \in Calls : InFlight(c)' => InFlight(c),
           \A c \in Calls : call[c] = "dropped" => call'[c] = "dropped",
           NEW d \in Calls, InFlight(d),
           \A c \in Calls : c # d => call'[c] = call[c]
    PROVE  BreakerInv'
<1> USE DEF BreakerInv
<1>1. CASE RecordSuccess
  BY <1>1 DEF RecordSuccess, OneProbePerOpening, OpensAtThreshold, HalfOpenIsOpen,
              ProbeIsMarked, PassedBefore, OpenCircuitShields, ProbeIsOwned
<1>2. CASE RecordFailure
  <2>1. CASE half_open_probe \/ consecutive_failures + 1 >= Threshold
    <3>1. /\ open_until' = now + Cooldown /\ ~half_open_probe' /\ opening' = opening + 1
          /\ consecutive_failures' = consecutive_failures + 1
      BY <1>2, <2>1 DEF RecordFailure, TypeOK
    <3>2. \A c \in Calls : passed'[c].opening < opening'
      BY <3>1 DEF PassedBefore, TypeOK
    <3>3. consecutive_failures' >= Threshold
      BY <2>1, <3>1, NumbersAssumption DEF OpensAtThreshold, HalfOpenIsOpen, TypeOK
    <3>4. OneProbePerOpening' /\ HalfOpenIsOpen' /\ ProbeIsOwned' /\ OpensAtThreshold'
      BY <3>1, <3>3 DEF OneProbePerOpening, HalfOpenIsOpen, ProbeIsOwned, OpensAtThreshold
    <3>5. OpenCircuitShields' /\ PassedBefore' /\ ProbeIsMarked'
      BY <3>1, <3>2 DEF OpenCircuitShields, PassedBefore, ProbeIsMarked, TypeOK
    <3>6. QED BY <3>4, <3>5
  <2>2. CASE ~half_open_probe /\ ~(consecutive_failures + 1 >= Threshold)
    <3>1. open_until' = open_until /\ ~half_open_probe' /\ opening' = opening
      BY <1>2, <2>2 DEF RecordFailure, TypeOK
    <3>2. open_until = Closed
      BY <2>2, NumbersAssumption DEF OpensAtThreshold, TypeOK
    <3>3. QED
      BY <3>1, <3>2 DEF OneProbePerOpening, OpensAtThreshold, HalfOpenIsOpen,
                        ProbeIsMarked, PassedBefore, OpenCircuitShields, ProbeIsOwned
  <2>3. QED BY <2>1, <2>2
<1>3. QED BY <1>1, <1>2

\* Letting a call through: as the probe of the opening, or while the circuit
\* is closed.
LEMMA BreakerPass ==
    ASSUME TypeOK, BreakerInv, NEW c \in Calls, PassClosed(c) \/ PassProbe(c)
    PROVE  BreakerInv'
<1> USE DEF BreakerInv
<1>1. \A d \in Calls : d # c => passed'[d] = passed[d] /\ call'[d] = call[d]
  BY DEF PassClosed, PassProbe, Pass, Goto, TypeOK
<1>2. /\ call'[c] = "queued" /\ passed'[c].opening = opening
      /\ UNCHANGED <<open_until, opening, consecutive_failures>>
  BY DEF PassClosed, PassProbe, Pass, Goto, TypeOK
<1>3. CASE PassClosed(c)
  <2>1. open_until = Closed /\ ~half_open_probe' /\ ~half_open_probe /\ ~passed'[c].probe
    BY <1>3 DEF PassClosed, Pass, HalfOpenIsOpen, TypeOK
  <2>2. QED
    BY <1>1, <1>2, <2>1 DEF OneProbePerOpening, OpenCircuitShields, OpensAtThreshold,
          ProbeIsOwned, HalfOpenIsOpen, ProbeIsMarked, PassedBefore, TypeOK
<1>4. CASE PassProbe(c)
  <2>1. open_until # Closed /\ ~half_open_probe /\ half_open_probe' /\ passed'[c].probe
    BY <1>4 DEF PassProbe, Pass, CooledDown, TypeOK
  <2>2. \A d \in Calls : passed[d].probe => passed[d].opening # opening
    BY <2>1 DEF ProbeIsMarked
  <2>3. OneProbePerOpening'
    BY <1>1, <1>2, <2>2 DEF OneProbePerOpening
  <2>4. ProbeIsOwned'
    BY <1>2, <2>1 DEF ProbeIsOwned, InFlight
  <2>5. OpenCircuitShields'
    BY <1>1, <1>2, <2>1 DEF OpenCircuitShields, InFlight
  <2>6. QED
    BY <1>1, <1>2, <2>1, <2>3, <2>4, <2>5
    DEF OpensAtThreshold, HalfOpenIsOpen, ProbeIsMarked, PassedBefore, TypeOK
<1>5. QED BY <1>3, <1>4

\* A step keeps the statements on the breaker.
LEMMA BreakerStep ==
    ASSUME TypeOK, BreakerInv, [Next]_vars
    PROVE  BreakerInv'
<1>1. ASSUME NEW c \in Calls, Start(c)  PROVE BreakerInv'
  <2>1. CASE Reject(c)
    BY <2>1, BreakerFrame DEF Reject, Goto, InFlight, TypeOK
  <2>2. QED BY <1>1, <2>1, BreakerPass DEF Start
<1>2. ASSUME NEW c \in Calls, Step(c)  PROVE BreakerInv'
  <2> USE DEF Goto, InFlight, TypeOK
  <2>1. CASE AcquirePermit(c)
    BY <2>1, BreakerFrame DEF AcquirePermit
  <2>2. CASE (QueueTimeout(c) \/ RequestFails(c)) /\ attempt[c] < MaxRetries
    BY <2>2, BreakerFrame, NumbersAssumption DEF QueueTimeout, RequestFails, AttemptFails
  <2>3. CASE (QueueTimeout(c) \/ RequestFails(c)) /\ ~(attempt[c] < MaxRetries)
    BY <2>3, BreakerReport DEF QueueTimeout, RequestFails, AttemptFails
  <2>4. CASE RequestRefused(c) \/ RequestAnswered(c) \/ StreamOpened(c)
    BY <2>4, BreakerReport DEF RequestRefused, RequestAnswered, StreamOpened
  <2>5. CASE StreamEnds(c)
    BY <2>5, BreakerFrame DEF StreamEnds
  <2>6. CASE Retry(c)
    BY <2>6, BreakerFrame DEF Retry
  <2>7. QED
    BY <1>2, <2>1, <2>2, <2>3, <2>4, <2>5, <2>6 DEF Step, Reply
<1>3. ASSUME NEW c \in Calls, DropCall(c)  PROVE BreakerInv'
  BY <1>3, BreakerFrame DEF DropCall, Goto, InFlight, HoldsPermit, TypeOK
<1>4. CASE Tick
  BY <1>4, BreakerFrame DEF Tick, InFlight
<1>5. CASE UNCHANGED vars
  BY <1>5, BreakerFrame DEF vars, InFlight
<1>6. QED
  BY <1>1, <1>2, <1>3, <1>4, <1>5 DEF Next

\* The inductive invariant holds in every reachable state.
THEOREM Invariance == Spec => []IInv
<1>1. Init => IInv
  <2> SUFFICES ASSUME Init PROVE IInv
    OBVIOUS
  <2>1. TypeOK
    <3>1. [opening |-> 0, probe |-> FALSE] \in [opening : Nat, probe : BOOLEAN]
      OBVIOUS
    <3>2. passed \in [Calls -> [opening : Nat, probe : BOOLEAN]]
      BY <3>1 DEF Init
    <3>3. half_open_probe \in BOOLEAN
      BY DEF Init
    <3>4. QED BY <3>2, <3>3, NumbersAssumption DEF Init, TypeOK, Phases
  <2>2. PermitHolders = {}
    BY DEF Init, PermitHolders, HoldsPermit
  <2>3. PermitsConserved
    BY <2>2, FS_EmptySet, NumbersAssumption DEF Init, PermitsConserved
  <2>4. BreakerInv
    BY DEF Init, BreakerInv, OneProbePerOpening, OpenCircuitShields, OpensAtThreshold,
           ProbeIsOwned, HalfOpenIsOpen, ProbeIsMarked, PassedBefore
  <2>5. QED BY <2>1, <2>3, <2>4 DEF IInv
<1>2. IInv /\ [Next]_vars => IInv'
  BY TypeStep, PermitsStep, BreakerStep DEF IInv
<1>3. QED
  BY <1>1, <1>2, PTL DEF Spec

\* Type correctness of the call machinery.
THEOREM TypeCorrect == Spec => []TypeOK
BY Invariance, PTL DEF IInv

\* At most one probe per opening of the circuit, for any interleaving of
\* calls, reports and dropped futures.
THEOREM OneProbe == Spec => []OneProbePerOpening
BY Invariance, PTL DEF IInv, BreakerInv

\* An open circuit keeps every call but its probe from the provider.
THEOREM OpenShields == Spec => []OpenCircuitShields
BY Invariance, PTL DEF IInv, BreakerInv

\* The circuit opens only after Threshold failed calls in a row.
THEOREM OpensOnlyAtThreshold == Spec => []OpensAtThreshold
BY Invariance, PTL DEF IInv, BreakerInv

\* Only a dropped future can leave half_open_probe without an owner.
THEOREM ProbeHasOwner == Spec => []ProbeIsOwned
BY Invariance, PTL DEF IInv, BreakerInv

\* The admission permits are conserved.
THEOREM PermitsAreConserved == Spec => []PermitsConserved
BY Invariance, PTL DEF IInv

-----------------------------------------------------------------------------
(* Second part: streams.  Sequences that are joined of parts.              *)

\* A set of natural numbers that is not empty has a least element.
HasLeast(T) == \E x \in T : \A y \in T : x <= y

\* It is that of a well-founded order.
LEMMA LeastExists ==
    ASSUME NEW T \in SUBSET Nat, T # {}
    PROVE  HasLeast(T)
<1>1. PICK x \in T : \A y \in T : <<y, x>> \notin OpToRel(<, Nat)
  BY NatLessThanWellFounded, WFMin
<1>2. \A i, j \in Nat : i < j => <<i, j>> \in OpToRel(<, Nat)
  BY DEF OpToRel
<1>3. ASSUME NEW y \in T PROVE x <= y
  <2>1. x \in Nat /\ y \in Nat
    OBVIOUS
  <2>2. ~(y < x)
    BY <1>1, <1>2, <2>1
  <2>3. QED BY <2>1, <2>2
<1>4. QED BY <1>3 DEF HasLeast

\* Hence what holds at 1 and is passed on holds everywhere.
LEMMA Upwards ==
    ASSUME NEW n \in Nat, NEW Good, 1 \in Good,
           \A m \in 2..n : m - 1 \in Good => m \in Good
    PROVE  \A m \in 1..n : m \in Good
<1> DEFINE Bad == {m \in 1..n : m \notin Good}
<1>1. CASE Bad = {}
  BY <1>1
<1>2. CASE Bad # {}
  <2>1. HasLeast(Bad)
    BY <1>2, LeastExists
  <2>2. PICK m \in Bad : \A k \in Bad : m <= k
    BY <2>1 DEF HasLeast
  <2>3. m \in 2..n
    BY <2>2
  <2>4. m - 1 \in 1..n /\ m - 1 \notin Bad
    BY <2>2, <2>3
  <2>5. QED BY <2>2, <2>3, <2>4
<1>3. QED BY <1>1, <1>2

\* The recursive function of FlattenSeq, up to the sequence number n.
IsTable(ss, f, n) == f = [i \in 1..n |-> IF i = 1 THEN ss[i] ELSE f[i - 1] \o ss[i]]
HasTable(ss, n) == \E f : IsTable(ss, f, n)

\* The joins of the first sequences, up to any number of them, form a table.
LEMMA TableExists ==
    ASSUME NEW ss, NEW n \in Nat
    PROVE  \A m \in 1..n : HasTable(ss, m)
<1> DEFINE Good == {m \in 1..n : HasTable(ss, m)}
<1>1. n >= 1 => 1 \in Good
  <2>1. IsTable(ss, [i \in 1..1 |-> ss[i]], 1)
    BY DEF IsTable
  <2>2. QED BY <2>1 DEF HasTable
<1>2. ASSUME NEW m \in 2..n, m - 1 \in Good PROVE m \in Good
  <2>1. PICK f : IsTable(ss, f, m - 1)
    BY <1>2 DEF HasTable
  <2> DEFINE g == [i \in 1..m |-> IF i = m THEN f[m - 1] \o ss[m] ELSE f[i]]
  <2>2. \A i \in 1..m : g[i] = IF i = 1 THEN ss[i] ELSE g[i - 1] \o ss[i]
    <3> SUFFICES ASSUME NEW i \in 1..m
                 PROVE  g[i] = IF i = 1 THEN ss[i] ELSE g[i - 1] \o ss[i]
      OBVIOUS
    <3>1. CASE i = m
      <4>1. i # 1 /\ i - 1 # m /\ i - 1 \in 1..m
        BY <3>1
      <4>2. QED BY <3>1, <4>1
    <3>2. CASE i # m
      <4>1. i \in 1..(m - 1) /\ (i # 1 => i - 1 \in 1..m /\ i - 1 # m)
        BY <3>2
      <4>2. f[i] = IF i = 1 THEN ss[i] ELSE f[i - 1] \o ss[i]
        BY <2>1, <4>1 DEF IsTable
      <4>3. QED BY <3>2, <4>1, <4>2
    <3>3. QED BY <3>1, <3>2
  <2>3. g = [i \in 1..m |-> g[i]]
    OBVIOUS
  <2>4. g = [i \in 1..m |-> IF i = 1 THEN ss[i] ELSE g[i - 1] \o ss[i]]
    <3> HIDE DEF g
    <3>1. QED BY <2>2, <2>3
  <2>5. IsTable(ss, g, m)
    BY <2>4 DEF IsTable
  <2>6. QED BY <2>5 DEF HasTable
<1>3. CASE n = 0
  BY <1>3
<1>4. CASE n # 0
  <2>1. 1 \in Good
    BY <1>1, <1>4
  <2> HIDE DEF Good
  <2>2. \A m \in 1..n : m \in Good
    BY <1>2, <2>1, Upwards
  <2>3. QED BY <2>2 DEF Good
<1>5. QED BY <1>3, <1>4

\* So FlattenSeq is the last entry of such a table.
FlatBy(ss, f) == IsTable(ss, f, Len(ss)) /\ FlattenSeq(ss) = f[Len(ss)]

\* FlattenSeq is the last entry of that table.
LEMMA FlatTable ==
    ASSUME NEW ss, Len(ss) \in Nat, Len(ss) # 0
    PROVE  \E f : FlatBy(ss, f)
<1> DEFINE f == CHOOSE h : IsTable(ss, h, Len(ss))
<1>1. HasTable(ss, Len(ss))
  <2>1. Len(ss) \in 1..Len(ss)
    OBVIOUS
  <2>2. QED BY <2>1, TableExists
<1>2. IsTable(ss, f, Len(ss))
  BY <1>1 DEF HasTable
<1>3. FlattenSeq(ss) = f[Len(ss)]
  BY DEF FlattenSeq, IsTable
<1>4. FlatBy(ss, f)
  BY <1>2, <1>3 DEF FlatBy
<1>5. QED BY <1>4


\* Two tables agree as far as their sequences do.
LEMMA TablesAgree ==
    ASSUME NEW ss, NEW tt, NEW n \in Nat, NEW f, NEW g, NEW m \in Nat, m <= n,
           IsTable(ss, f, m), IsTable(tt, g, n), \A i \in 1..m : ss[i] = tt[i]
    PROVE  \A i \in 1..m : f[i] = g[i]
<1> DEFINE Good == {i \in 1..m : f[i] = g[i]}
<1>1. \A i \in 1..m : f[i] = IF i = 1 THEN ss[i] ELSE f[i - 1] \o ss[i]
  BY DEF IsTable
<1>2. \A i \in 1..n : g[i] = IF i = 1 THEN tt[i] ELSE g[i - 1] \o tt[i]
  BY DEF IsTable
<1>3. m # 0 => 1 \in Good
  BY <1>1, <1>2
<1>4. ASSUME NEW i \in 2..m, i - 1 \in Good PROVE i \in Good
  <2>1. i \in 1..m /\ i \in 1..n /\ i # 1
    BY <1>4
  <2>2. f[i] = f[i - 1] \o ss[i]
    BY <1>1, <2>1
  <2>3. g[i] = g[i - 1] \o tt[i]
    BY <1>2, <2>1
  <2>4. f[i - 1] = g[i - 1] /\ ss[i] = tt[i]
    BY <1>4, <2>1
  <2>5. QED BY <2>1, <2>2, <2>3, <2>4
<1>5. CASE m # 0
  <2>1. 1 \in Good
    BY <1>3, <1>5
  <2> HIDE DEF Good
  <2>2. \A i \in 1..m : i \in Good
    BY <1>4, <2>1, Upwards
  <2>3. QED BY <2>2 DEF Good
<1>6. QED BY <1>5

\* The table of joined sequences of sequences.
LEMMA FlatType ==
    ASSUME NEW S, NEW ss \in Seq(Seq(S))
    PROVE  /\ FlattenSeq(ss) \in Seq(S)
           /\ \A f : IsTable(ss, f, Len(ss)) => \A i \in 1..Len(ss) : f[i] \in Seq(S)
<1>1. ASSUME NEW f, IsTable(ss, f, Len(ss)) PROVE \A i \in 1..Len(ss) : f[i] \in Seq(S)
  <2> DEFINE Good == {i \in 1..Len(ss) : f[i] \in Seq(S)}
  <2>4. \A i \in 1..Len(ss) : f[i] = IF i = 1 THEN ss[i] ELSE f[i - 1] \o ss[i]
    BY <1>1 DEF IsTable
  <2>1. CASE Len(ss) = 0
    BY <2>1
  <2>2. CASE Len(ss) # 0
    <3>1. 1 \in Good
      BY <1>1, <2>2 DEF IsTable
    <3>2. ASSUME NEW i \in 2..Len(ss), i - 1 \in Good PROVE i \in Good
      <4>1. i \in 1..Len(ss) /\ i # 1 /\ Len(ss) \in Nat
        BY <3>2
      <4>2. f[i] = f[i - 1] \o ss[i]
        BY <2>4, <4>1
      <4>3. ss[i] \in Seq(S) /\ f[i - 1] \in Seq(S)
        BY <3>2, <4>1
      <4>4. f[i] \in Seq(S)
        BY <4>2, <4>3
      <4>5. QED BY <4>1, <4>4
    <3> HIDE DEF Good
    <3>4. Len(ss) \in Nat
      OBVIOUS
    <3>5. \A i \in 1..Len(ss) : i \in Good
      BY <3>1, <3>2, <3>4, Upwards
    <3>6. QED BY <3>5 DEF Good
  <2>3. QED BY <2>1, <2>2
<1>2. FlattenSeq(ss) \in Seq(S)
  <2>1. CASE Len(ss) = 0
    <3>1. ss = <<>>
      BY <2>1
    <3>2. QED BY <3>1 DEF FlattenSeq
  <2>2. CASE Len(ss) # 0
    <3>1. PICK f : FlatBy(ss, f)
      BY <2>2, FlatTable
    <3>2. QED BY <1>1, <2>2, <3>1 DEF FlatBy
  <2>3. QED BY <2>1, <2>2
<1>3. QED BY <1>1, <1>2

\* Nothing and a single sequence.
LEMMA FlatOne ==
    ASSUME NEW x
    PROVE  FlattenSeq(<<>>) = <<>> /\ FlattenSeq(<<x>>) = x
<1>1. FlattenSeq(<<>>) = <<>>
  BY DEF FlattenSeq
<1>2. PICK f : FlatBy(<<x>>, f)
  BY FlatTable
<1>3. QED BY <1>1, <1>2 DEF FlatBy, IsTable

\* The n sequences of ss are continued by the m of tt.
Continue(S, ss, tt, uu, n, m) ==
    /\ n \in Nat \ {0} /\ m \in Nat \ {0}
    /\ \A i \in 1..n : ss[i] = uu[i] /\ ss[i] \in Seq(S)
    /\ \A i \in 1..m : uu[n + i] = tt[i] /\ tt[i] \in Seq(S)

Tables(S, ss, tt, uu, f, g, h, n, m, k) ==
    /\ k = n + m
    /\ IsTable(ss, f, n) /\ IsTable(tt, g, m) /\ IsTable(uu, h, k)
    /\ \A i \in 1..n : f[i] \in Seq(S)
    /\ \A i \in 1..m : g[i] \in Seq(S)

EndsIn(h, last, s, t) == h[last] = s \o t

\* So are their tables.
LEMMA TablesJoined ==
    ASSUME NEW S, NEW ss, NEW tt, NEW uu, NEW n, NEW m, NEW last, NEW f, NEW g, NEW h,
           Continue(S, ss, tt, uu, n, m), Tables(S, ss, tt, uu, f, g, h, n, m, last)
    PROVE  EndsIn(h, last, f[n], g[m])
<1> n \in Nat /\ m \in Nat /\ n # 0 /\ m # 0
  BY DEF Continue
<1> IsTable(ss, f, n) /\ IsTable(tt, g, m) /\ IsTable(uu, h, n + m)
  BY DEF Tables
<1> \A i \in 1..n : ss[i] = uu[i] /\ f[i] \in Seq(S)
  BY DEF Continue, Tables
<1> \A i \in 1..m : uu[n + i] = tt[i] /\ tt[i] \in Seq(S) /\ g[i] \in Seq(S)
  BY DEF Continue, Tables
<1>1. h[n] = f[n]
  <2>1. PICK k \in Nat : k = n + m
    OBVIOUS
  <2>2. n \in Nat /\ k \in Nat /\ n <= k /\ IsTable(ss, f, n) /\ IsTable(uu, h, k) /\ \A i \in 1..n : ss[i] = uu[i]
    BY <2>1
  <2>3. \A i \in 1..n : f[i] = h[i]
    BY ONLY <2>2, TablesAgree
  <2>4. QED BY <2>3
<1>2. f[n] \in Seq(S)
  OBVIOUS
<1> DEFINE Good == {i \in 1..m : h[n + i] = f[n] \o g[i]}
<1>3. \A i \in 1..m : g[i] = IF i = 1 THEN tt[i] ELSE g[i - 1] \o tt[i]
  BY DEF IsTable
<1>4. \A i \in 1..(n + m) : h[i] = IF i = 1 THEN uu[i] ELSE h[i - 1] \o uu[i]
  BY DEF IsTable
<1>5. ASSUME NEW i \in 1..m PROVE h[n + i] = h[n + i - 1] \o tt[i]
  <2>1. PICK k \in 1..(n + m) : k = n + i
    OBVIOUS
  <2>2. k # 1
    BY <2>1
  <2>3. h[k] = h[k - 1] \o uu[k]
    BY <1>4, <2>2
  <2>4. n + i - 1 = k - 1 /\ uu[k] = tt[i]
    BY <2>1
  <2> HIDE DEF Good
  <2>5. QED BY ONLY <2>1, <2>3, <2>4
<1>6. 1 \in Good
  <2>1. 1 \in 1..m /\ n + 1 - 1 = n
    OBVIOUS
  <2>2. g[1] = tt[1]
    BY <1>3, <2>1
  <2>3. h[n + 1] = h[n] \o tt[1]
    BY <1>5, <2>1
  <2>4. QED BY <1>1, <2>1, <2>2, <2>3
<1>7. ASSUME NEW i \in 2..m, i - 1 \in Good PROVE i \in Good
  <2>1. i \in 1..m /\ i # 1 /\ i - 1 \in 1..m /\ n + i - 1 = n + (i - 1)
    BY <1>7
  <2>2. g[i] = g[i - 1] \o tt[i]
    BY <1>3, <2>1
  <2>3. h[n + i] = h[n + (i - 1)] \o tt[i]
    BY <1>5, <2>1
  <2>4. h[n + i] = (f[n] \o g[i - 1]) \o tt[i]
    BY <1>7, <2>3
  <2>5. g[i - 1] \in Seq(S) /\ tt[i] \in Seq(S)
    BY <2>1
  <2>6. (f[n] \o g[i - 1]) \o tt[i] = f[n] \o (g[i - 1] \o tt[i])
    <3>1. PICK a, b, c : a = f[n] /\ b = g[i - 1] /\ c = tt[i]
      OBVIOUS
    <3>2. a \in Seq(S) /\ b \in Seq(S) /\ c \in Seq(S)
      BY <1>2, <2>5, <3>1
    <3>3. (a \o b) \o c = a \o (b \o c)
      BY ONLY <3>2
    <3>4. (f[n] \o g[i - 1]) \o tt[i] = (a \o b) \o c /\ f[n] \o (g[i - 1] \o tt[i]) = a \o (b \o c)
      BY ONLY <3>1, Zenon
    <3>5. QED BY ONLY <3>3, <3>4, Zenon
  <2>7. h[n + i] = f[n] \o g[i]
    BY <2>2, <2>4, <2>6
  <2>8. QED BY <2>1, <2>7
<1> HIDE DEF Good
<1>8. \A i \in 1..m : i \in Good
  BY <1>6, <1>7, Upwards
<1>9. m \in Good
  BY <1>8
<1>10. QED BY <1>9 DEF Good, Tables, EndsIn

\* What is joined first and then made flat is what is made flat and then joined.
LEMMA FlatJoined ==
    ASSUME NEW S, NEW ss \in Seq(Seq(S)), NEW tt \in Seq(Seq(S))
    PROVE  FlattenSeq(ss \o tt) = FlattenSeq(ss) \o FlattenSeq(tt)
<1>1. CASE Len(tt) = 0
  <2>1. tt = <<>> /\ ss \o tt = ss
    BY <1>1
  <2>2. FlattenSeq(ss) \in Seq(S) /\ FlattenSeq(tt) = <<>>
    BY <2>1, FlatOne, FlatType
  <2>3. FlattenSeq(ss) \o <<>> = FlattenSeq(ss)
    BY <2>2
  <2>4. QED BY <2>1, <2>2, <2>3
<1>2. CASE Len(ss) = 0
  <2>1. ss = <<>> /\ ss \o tt = tt
    BY <1>2
  <2>2. FlattenSeq(tt) \in Seq(S) /\ FlattenSeq(ss) = <<>>
    BY <2>1, FlatOne, FlatType
  <2>3. <<>> \o FlattenSeq(tt) = FlattenSeq(tt)
    BY <2>2
  <2>4. QED BY <2>1, <2>2, <2>3
<1>3. CASE Len(ss) # 0 /\ Len(tt) # 0
  <2> DEFINE uu == ss \o tt
             n == Len(ss)
             m == Len(tt)
  <2>1. /\ n \in Nat /\ m \in Nat /\ Len(uu) = n + m
        /\ \A i \in 1..n : ss[i] = uu[i]
        /\ \A i \in 1..m : uu[n + i] = tt[i] /\ tt[i] \in Seq(S)
    OBVIOUS
  <2>2. n # 0 /\ m # 0
    BY <1>3
  <2>3. PICK f : FlatBy(ss, f)
    BY <2>1, <2>2, FlatTable
  <2>4. PICK g : FlatBy(tt, g)
    BY <2>1, <2>2, FlatTable
  <2> HIDE DEF uu
  <2>5. PICK h : FlatBy(uu, h)
    <3>1. Len(uu) \in Nat /\ Len(uu) # 0
      BY <2>1, <2>2
    <3>2. QED BY <3>1, FlatTable
  <2>6. /\ \A i \in 1..n : f[i] \in Seq(S)
        /\ \A i \in 1..m : g[i] \in Seq(S)
    BY <2>3, <2>4, FlatType DEF FlatBy
  <2>7. IsTable(ss, f, n) /\ IsTable(tt, g, m) /\ IsTable(uu, h, n + m)
    BY <2>1, <2>3, <2>4, <2>5 DEF FlatBy
  <2> HIDE DEF n, m
  <2>8. Continue(S, ss, tt, uu, n, m)
    BY <2>1, <2>2 DEF Continue, n
  <2>9. EndsIn(h, Len(uu), f[n], g[m])
    <3>1. Tables(S, ss, tt, uu, f, g, h, n, m, Len(uu))
      BY <2>1,  <2>6, <2>7 DEF Tables
    <3>2. QED BY <2>8, <3>1, TablesJoined
  <2>10. QED BY <2>1, <2>3, <2>4, <2>5, <2>9 DEF FlatBy, EndsIn, uu, n, m
<1>4. QED BY <1>1, <1>2, <1>3

LEMMA SingleSeq == ASSUME NEW S, NEW x \in S PROVE <<x>> \in Seq(S) /\ <<>> \in Seq(S)
OBVIOUS

\* A sequence that is made of each element of s in turn, by the function F.
Flat(s, F) == FlattenSeq([j \in 1..Len(s) |-> F[s[j]]])

\* (A definition that keeps \o from being expanded where it is only carried along.)
IsJoin(x, a, b) == x = a \o b

LEMMA JoinIs ==
    ASSUME NEW T, NEW m \in Seq(T), NEW n \in Seq(T), NEW k \in Seq(T), NEW a \in Nat, NEW b \in Nat,
           Len(m) = a, Len(n) = b, Len(k) = a + b,
           \A j \in 1..a : k[j] = m[j], \A j \in 1..b : k[a + j] = n[j]
    PROVE  IsJoin(k, m, n)
<1>1. PICK mn : mn = m \o n
  OBVIOUS
<1>2. mn \in Seq(T) /\ Len(mn) = a + b
  BY ConcatProperties, <1>1
<1>3. \A j \in 1..(a + b) : mn[j] = IF j <= a THEN m[j] ELSE n[j - a]
  BY ConcatProperties, <1>1
<1>4. ASSUME NEW j \in 1..(a + b) PROVE k[j] = mn[j]
  <2>1. CASE j <= a
    BY <1>3, <2>1
  <2>2. CASE ~(j <= a)
    <3>1. PICK i \in 1..b : j = a + i
      <4>1. j - a \in 1..b /\ j = a + (j - a)
        BY <2>2
      <4>2. QED BY <4>1
    <3>2. j - a = i
      BY <3>1
    <3>3. mn[j] = n[i]
      BY <1>3, <2>2, <3>2
    <3>4. k[j] = n[i]
      BY <3>1
    <3>5. QED BY <3>3, <3>4
  <2>3. QED BY <2>1, <2>2
<1>5. k = mn
  BY <1>2, <1>4, SeqEqual
<1>6. QED BY <1>1, <1>5, Zenon DEF IsJoin

\* Sequences of two and three.
LEMMA SmallJoins ==
    ASSUME NEW e, NEW f, NEW g
    PROVE  IsJoin(<<e, f>>, <<e>>, <<f>>) /\ IsJoin(<<e, f, g>>, <<e, f>>, <<g>>)
<1>1. PICK T : T = {e, f, g}
  OBVIOUS
<1>2. PICK a, b, c, d, h : a = <<e>> /\ b = <<f>> /\ c = <<g>> /\ d = <<e, f>> /\ h = <<e, f, g>>
  OBVIOUS
<1>3. /\ a \in Seq(T) /\ Len(a) = 1 /\ a[1] = e
      /\ b \in Seq(T) /\ Len(b) = 1 /\ b[1] = f
      /\ c \in Seq(T) /\ Len(c) = 1 /\ c[1] = g
  BY <1>1, <1>2
<1>4. /\ d \in Seq(T) /\ Len(d) = 2 /\ d[1] = e /\ d[2] = f
      /\ h \in Seq(T) /\ Len(h) = 3 /\ h[1] = e /\ h[2] = f /\ h[3] = g
  BY <1>1, <1>2
<1>5. IsJoin(d, a, b)
  <2>1. Len(d) = 1 + 1 /\ (\A j \in 1..1 : d[j] = a[j]) /\ \A j \in 1..1 : d[1 + j] = b[j]
    BY <1>3, <1>4
  <2>2. QED BY <1>3, <1>4, <2>1, JoinIs
<1>6. IsJoin(h, d, c)
  <2>1. Len(h) = 2 + 1 /\ (\A j \in 1..2 : h[j] = d[j]) /\ \A j \in 1..1 : h[2 + j] = c[j]
    BY <1>3, <1>4
  <2>2. QED BY <1>3, <1>4, <2>1, JoinIs
<1>7. QED BY <1>2, <1>5, <1>6, Zenon

\* A sequence of what its elements are.
LEMMA SeqOfType ==
    ASSUME NEW T, NEW ss \in Seq(T), NEW S, \A j \in 1..Len(ss) : ss[j] \in S
    PROVE  ss \in Seq(S)
<1>1. ss = [j \in 1..Len(ss) |-> ss[j]] /\ Len(ss) \in Nat
  OBVIOUS
<1>2. QED BY <1>1, IsASeq

\* Of a longer sequence more is made.
LEMMA FlatMapJoined ==
    ASSUME NEW E, NEW S, NEW F \in [E -> Seq(S)], NEW s \in Seq(E), NEW t \in Seq(E),
           NEW st, IsJoin(st, s, t)
    PROVE  /\ Flat(s, F) \in Seq(S) /\ Flat(t, F) \in Seq(S)
           /\ IsJoin(Flat(st, F), Flat(s, F), Flat(t, F))
<1> DEFINE Map(u) == [j \in 1..Len(u) |-> F[u[j]]]
<1>1. ASSUME NEW u \in Seq(E) PROVE Map(u) \in Seq(Seq(S))
  OBVIOUS
<1>2. Map(st) = Map(s) \o Map(t)
  <2>1. st = s \o t
    BY DEF IsJoin
  <2>2. PICK a \in Nat, b \in Nat : a = Len(s) /\ b = Len(t)
    OBVIOUS
  <2>3. st \in Seq(E) /\ Len(st) = a + b
    BY <2>1, <2>2, ConcatProperties
  <2>4. /\ \A j \in 1..a : st[j] = s[j]
        /\ \A j \in 1..b : st[a + j] = t[j]
    BY <2>1, <2>2
  <2>5. Map(s) \in Seq(Seq(S)) /\ Map(t) \in Seq(Seq(S)) /\ Map(st) \in Seq(Seq(S))
    BY <1>1, <2>3
  <2>6. Len(Map(s)) = a /\ Len(Map(t)) = b /\ Len(Map(st)) = a + b
    BY <2>2, <2>3
  <2>7. \A j \in 1..a : Map(st)[j] = Map(s)[j]
    BY <2>2, <2>3, <2>4
  <2>8. \A j \in 1..b : Map(st)[a + j] = Map(t)[j]
    BY <2>2, <2>3, <2>4
  <2> HIDE DEF Map
  <2>9. IsJoin(Map(st), Map(s), Map(t))
    BY <2>5, <2>6, <2>7, <2>8, JoinIs
  <2>10. QED BY <2>9, Zenon DEF IsJoin
<1> HIDE DEF Map
<1>3. FlattenSeq(Map(s) \o Map(t)) = FlattenSeq(Map(s)) \o FlattenSeq(Map(t))
  BY <1>1, FlatJoined
<1>4. IsJoin(FlattenSeq(Map(st)), FlattenSeq(Map(s)), FlattenSeq(Map(t)))
  BY <1>2, <1>3, Zenon DEF IsJoin
<1>5. FlattenSeq(Map(s)) \in Seq(S) /\ FlattenSeq(Map(t)) \in Seq(S)
  BY <1>1, FlatType
<1>6. QED BY <1>4, <1>5 DEF Flat, Map

\* Of one element what F makes of it, of none nothing.
LEMMA FlatMapOne ==
    ASSUME NEW F, NEW e
    PROVE  Flat(<<>>, F) = <<>> /\ Flat(<<e>>, F) = F[e]
<1>1. [j \in 1..Len(<<>>) |-> F[<<>>[j]]] = <<>>
  OBVIOUS
<1>2. [j \in 1..Len(<<e>>) |-> F[<<e>>[j]]] = <<F[e]>>
  OBVIOUS
<1>3. Flat(<<>>, F) = FlattenSeq(<<>>) /\ Flat(<<e>>, F) = FlattenSeq(<<F[e]>>)
  BY <1>1, <1>2, Zenon DEF Flat
<1>4. QED BY <1>3, FlatOne, Zenon

IsMore(t, s, x) == t = Append(s, x)

\* What joining with nothing or with one element does.
LEMMA JoinOne ==
    ASSUME NEW S, NEW a, NEW b \in Seq(S), NEW c, IsJoin(a, b, c)
    PROVE  /\ c = <<>> => a = b
           /\ \A x \in S : c = <<x>> => IsMore(a, b, x)
<1>1. ASSUME c = <<>> PROVE a = b
  BY <1>1, ConcatEmptySeq DEF IsJoin
<1>2. ASSUME NEW x \in S, c = <<x>> PROVE IsMore(a, b, x)
  BY <1>2, AppendIsConcat DEF IsJoin, IsMore
<1>3. QED BY <1>1, <1>2

\* One more element.
LEMMA FlatAppend ==
    ASSUME NEW E, NEW S, NEW F \in [E -> Seq(S)], NEW s \in Seq(E), NEW e \in E
    PROVE  /\ IsJoin(Flat(Append(s, e), F), Flat(s, F), F[e])
           /\ F[e] = <<>> => Flat(Append(s, e), F) = Flat(s, F)
           /\ \A x \in S : F[e] = <<x>> => Flat(Append(s, e), F) = Append(Flat(s, F), x)
<1>1. PICK st, t : st = Append(s, e) /\ t = <<e>>
  OBVIOUS
<1>2. t \in Seq(E) /\ IsJoin(st, s, t)
  BY <1>1, AppendIsConcat DEF IsJoin
<1>3. IsJoin(Flat(st, F), Flat(s, F), Flat(t, F)) /\ Flat(s, F) \in Seq(S)
  BY <1>2, FlatMapJoined
<1>4. Flat(t, F) = F[e]
  BY <1>1, FlatMapOne, Zenon
<1>5. IsJoin(Flat(st, F), Flat(s, F), F[e])
  BY <1>3, <1>4, Zenon
<1>6. /\ F[e] = <<>> => Flat(st, F) = Flat(s, F)
      /\ \A x \in S : F[e] = <<x>> => Flat(st, F) = Append(Flat(s, F), x)
  <2>1. PICK a, b, c : a = Flat(st, F) /\ b = Flat(s, F) /\ c = F[e]
    OBVIOUS
  <2>2. IsJoin(a, b, c) /\ b \in Seq(S)
    BY <1>3, <1>5, <2>1, Zenon
  <2>3. /\ c = <<>> => a = b
        /\ \A x \in S : c = <<x>> => IsMore(a, b, x)
    BY <2>2, JoinOne
  <2>4. QED BY <2>1, <2>3, Zenon DEF IsMore
<1>7. QED BY <1>1, <1>5, <1>6, Zenon

\* The first element.
LEMMA FlatHead ==
    ASSUME NEW E, NEW S, NEW F \in [E -> Seq(S)], NEW s \in Seq(E), s # <<>>
    PROVE  IsJoin(Flat(s, F), F[Head(s)], Flat(Tail(s), F))
<1>1. PICK e, t, h : e = Head(s) /\ t = Tail(s) /\ h = <<e>>
  OBVIOUS
<1>2. e \in E /\ t \in Seq(E) /\ h \in Seq(E) /\ s = h \o t
  BY <1>1
<1>3. IsJoin(s, h, t)
  BY <1>2, Zenon DEF IsJoin
<1>4. IsJoin(Flat(s, F), Flat(h, F), Flat(t, F))
  BY <1>2, <1>3, FlatMapJoined
<1>5. QED BY <1>1, <1>4, FlatMapOne, Zenon

\* Elements of which nothing is made.
LEMMA FlatNone ==
    ASSUME NEW F, NEW t, Len(t) \in Nat, \A j \in 1..Len(t) : F[t[j]] = <<>>
    PROVE  Flat(t, F) = <<>>
<1> DEFINE tt == [j \in 1..Len(t) |-> F[t[j]]]
<1>1. /\ Len(t) \in Nat /\ Len(tt) = Len(t)
      /\ \A j \in 1..Len(t) : tt[j] = <<>>
  OBVIOUS
<1>2. CASE Len(t) = 0
  <2>1. t = <<>>
    BY <1>2
  <2>2. QED BY <2>1, FlatMapOne
<1>3. CASE Len(t) # 0
  <2> HIDE DEF tt
  <2>1. PICK f : FlatBy(tt, f)
    BY <1>1, <1>3, FlatTable
  <2> DEFINE Good == {j \in 1..Len(t) : f[j] = <<>>}
  <2>2. \A j \in 1..Len(t) : f[j] = IF j = 1 THEN tt[j] ELSE f[j - 1] \o tt[j]
    BY <1>1, <2>1 DEF FlatBy, IsTable
  <2>3. 1 \in Good
    <3>1. 1 \in 1..Len(t)
      BY <1>1, <1>3
    <3>2. QED BY <1>1, <2>2, <3>1
  <2>4. ASSUME NEW j \in 2..Len(t), j - 1 \in Good PROVE j \in Good
    <3>1. j \in 1..Len(t) /\ j # 1
      BY <1>1, <2>4
    <3>2. f[j] = f[j - 1] \o tt[j]
      BY <2>2, <3>1
    <3>3. f[j - 1] = <<>> /\ tt[j] = <<>>
      BY <1>1, <2>4, <3>1
    <3>4. f[j] = <<>>
      BY <3>2, <3>3
    <3>5. QED BY <3>1, <3>4
  <2> HIDE DEF Good
  <2>5. \A j \in 1..Len(t) : j \in Good
    BY <1>1, <2>3, <2>4, Upwards
  <2>6. Len(t) \in Good
    BY <1>1, <1>3, <2>5
  <2>7. FlattenSeq(tt) = <<>>
    BY <1>1, <2>1, <2>6 DEF FlatBy, Good
  <2>8. QED BY <2>7 DEF Flat, tt
<1>4. QED BY <1>2, <1>3

\* They can be left out.
Quiet(F, s) == \A j \in 1..Len(s) : F[s[j]] = <<>>

LEMMA FlatQuiet ==
    ASSUME NEW E, NEW S, NEW F \in [E -> Seq(S)], NEW s \in Seq(E), NEW t \in Seq(E),
           NEW st, IsJoin(st, s, t)
    PROVE  /\ Quiet(F, t) => Flat(st, F) = Flat(s, F)
           /\ Quiet(F, s) => Flat(st, F) = Flat(t, F)
<1>1. IsJoin(Flat(st, F), Flat(s, F), Flat(t, F)) /\ Flat(s, F) \in Seq(S) /\ Flat(t, F) \in Seq(S)
  BY FlatMapJoined
<1>2. PICK a, b, c : a = Flat(st, F) /\ b = Flat(s, F) /\ c = Flat(t, F)
  OBVIOUS
<1>3. IsJoin(a, b, c) /\ b \in Seq(S) /\ c \in Seq(S)
  BY <1>1, <1>2, Zenon
<1>4. (c = <<>> => a = b) /\ (b = <<>> => a = c)
  BY <1>3, ConcatEmptySeq DEF IsJoin
<1>5. Quiet(F, t) => c = <<>>
  <2> HAVE Quiet(F, t)
  <2>1. Len(t) \in Nat
    OBVIOUS
  <2>2. Flat(t, F) = <<>>
    BY <2>1, FlatNone DEF Quiet
  <2>3. QED BY <1>2, <2>2
<1>6. Quiet(F, s) => b = <<>>
  <2> HAVE Quiet(F, s)
  <2>1. Len(s) \in Nat
    OBVIOUS
  <2>2. Flat(s, F) = <<>>
    BY <2>1, FlatNone DEF Quiet
  <2>3. QED BY <1>2, <2>2
<1>7. QED BY <1>2, <1>4, <1>5, <1>6, Zenon

\* One element of which one thing is made among such.
LEMMA FlatOnly ==
    ASSUME NEW S, NEW F, NEW t, Len(t) \in Nat, NEW i \in 1..Len(t), NEW x \in S, F[t[i]] = <<x>>,
           \A j \in 1..Len(t) : j # i => F[t[j]] = <<>>
    PROVE  Flat(t, F) = <<x>>
<1> DEFINE tt == [j \in 1..Len(t) |-> F[t[j]]]
           Good == {j \in 1..Len(t) : \A f : IsTable(tt, f, Len(t)) => f[j] = IF j < i THEN <<>> ELSE <<x>>}
<1>1. /\ Len(tt) = Len(t) /\ Len(t) # 0 /\ 1 \in 1..Len(t) /\ Len(t) \in 1..Len(t)
      /\ \A j \in 1..Len(t) : tt[j] = IF j = i THEN <<x>> ELSE <<>>
  OBVIOUS
<1> HIDE DEF tt
<1>2. ASSUME NEW f, IsTable(tt, f, Len(t))
      PROVE  \A j \in 1..Len(t) : f[j] = IF j = 1 THEN tt[j] ELSE f[j - 1] \o tt[j]
  BY <1>2 DEF IsTable
<1>3. 1 \in Good
  BY <1>1, <1>2
<1>4. ASSUME NEW j \in 2..Len(t), j - 1 \in Good PROVE j \in Good
  <2> SUFFICES ASSUME NEW f, IsTable(tt, f, Len(t))
               PROVE  f[j] = IF j < i THEN <<>> ELSE <<x>>
    BY <1>1
  <2>1. j \in 1..Len(t) /\ j # 1
    BY <1>1
  <2>2. f[j] = f[j - 1] \o tt[j]
    BY <1>2, <2>1
  <2>3. f[j - 1] = IF j - 1 < i THEN <<>> ELSE <<x>>
    BY <1>4
  <2>4. PICK a, b, c : a = f[j - 1] /\ b = tt[j] /\ c = <<x>>
    OBVIOUS
  <2>5. c \in Seq(S) /\ <<>> \in Seq(S)
    BY <2>4, SingleSeq
  <2>6. <<>> \o <<>> = <<>> /\ <<>> \o c = c /\ c \o <<>> = c
    BY <2>5, ConcatEmptySeq
  <2>7. CASE j < i
    BY <1>1, <2>1, <2>2, <2>3, <2>4, <2>6, <2>7
  <2>8. CASE j = i
    <3>1. a = <<>> /\ b = c /\ ~(j < i)
      BY <1>1, <2>1, <2>3, <2>4, <2>8
    <3>2. f[j] = c
      BY <2>2, <2>4, <2>6, <3>1, Zenon
    <3>3. QED BY <2>4, <3>1, <3>2
  <2>9. CASE j > i
    <3>1. a = c /\ b = <<>> /\ ~(j < i)
      BY <1>1, <2>1, <2>3, <2>4, <2>9
    <3>2. f[j] = c
      BY <2>2, <2>4, <2>6, <3>1, Zenon
    <3>3. QED BY <2>4, <3>1, <3>2
  <2>10. QED BY <2>1, <2>7, <2>8, <2>9
<1> HIDE DEF Good
<1>5. \A j \in 1..Len(t) : j \in Good
  BY <1>3, <1>4, Upwards
<1>6. PICK f : FlatBy(tt, f)
  BY <1>1, FlatTable
<1>7. f[Len(t)] = <<x>>
  BY <1>1, <1>5, <1>6 DEF FlatBy, Good
<1>8. QED BY <1>1, <1>6, <1>7 DEF FlatBy, Flat, tt

\* Of each element of t the element of c at its place is made.
Singles(F, t, c) == Len(c) = Len(t) /\ \A j \in 1..Len(t) : F[t[j]] = <<c[j]>>

LEMMA FlatSingles ==
    ASSUME NEW S, NEW E, NEW F \in [E -> Seq(S)], NEW t \in Seq(E), NEW c \in Seq(S),
           Singles(F, t, c)
    PROVE  Flat(t, F) = c
<1> Len(c) = Len(t) /\ \A j \in 1..Len(t) : F[t[j]] = <<c[j]>>
  BY DEF Singles
<1> DEFINE tt == [j \in 1..Len(t) |-> F[t[j]]]
<1>1. /\ Len(t) \in Nat /\ Len(tt) = Len(t)
      /\ \A j \in 1..Len(t) : tt[j] = <<c[j]>>
  OBVIOUS
<1>2. CASE Len(t) = 0
  <2>1. t = <<>> /\ c = <<>>
    BY <1>2
  <2>2. QED BY <2>1, FlatMapOne
<1>3. CASE Len(t) # 0
  <2> HIDE DEF tt
  <2>1. PICK f : FlatBy(tt, f)
    BY <1>1, <1>3, FlatTable
  <2> DEFINE Good == {j \in 1..Len(t) : f[j] = SubSeq(c, 1, j)}
  <2>2. \A j \in 1..Len(t) : f[j] = IF j = 1 THEN tt[j] ELSE f[j - 1] \o tt[j]
    BY <1>1, <2>1 DEF FlatBy, IsTable
  <2>3. 1 \in Good
    <3>1. 1 \in 1..Len(t) /\ f[1] = <<c[1]>>
      BY <1>1, <1>3, <2>2
    <3>2. SubSeq(c, 1, 1) = <<c[1]>>
      <4>1. PICK d : d = SubSeq(c, 1, 1)
        OBVIOUS
      <4>2. c[1] \in S
        BY <3>1
      <4>3. d \in Seq(S) /\ Len(d) = 1 /\ d[1] = c[1]
        BY <1>1, <1>3, <4>1
      <4>4. d = <<c[1]>>
        BY <4>2, <4>3
      <4>5. QED BY <4>1, <4>4
    <3>3. QED BY <3>1, <3>2
  <2>4. ASSUME NEW j \in 2..Len(t), j - 1 \in Good PROVE j \in Good
    <3>1. j \in 1..Len(t) /\ j # 1
      BY <1>1, <2>4
    <3>2. f[j] = f[j - 1] \o tt[j]
      BY <2>2, <3>1
    <3>3. f[j] = SubSeq(c, 1, j - 1) \o <<c[j]>>
      BY <1>1, <2>4, <3>1, <3>2
    <3>4. SubSeq(c, 1, j - 1) \o <<c[j]>> = SubSeq(c, 1, j)
      <4>1. PICK a, b, d : a = SubSeq(c, 1, j - 1) /\ b = <<c[j]>> /\ d = SubSeq(c, 1, j)
        OBVIOUS
      <4>2. /\ a \in Seq(S) /\ Len(a) = j - 1 /\ b \in Seq(S) /\ Len(b) = 1
            /\ d \in Seq(S) /\ Len(d) = (j - 1) + 1
        BY <1>1, <3>1, <4>1
      <4>3. \A i \in 1..(j - 1) : d[i] = a[i]
        BY <1>1, <3>1, <4>1
      <4>4. \A i \in 1..1 : d[(j - 1) + i] = b[i]
        BY <1>1, <3>1, <4>1
      <4>5. j - 1 \in Nat /\ 1 \in Nat
        BY <1>1, <3>1
      <4>6. IsJoin(d, a, b)
        BY <4>2, <4>3, <4>4, <4>5, JoinIs
      <4>7. QED BY <4>1, <4>6, Zenon DEF IsJoin
    <3>5. QED BY <3>1, <3>3, <3>4
  <2> HIDE DEF Good
  <2>5. \A j \in 1..Len(t) : j \in Good
    BY <1>1, <2>3, <2>4, Upwards
  <2>6. f[Len(t)] = SubSeq(c, 1, Len(t))
    BY <1>1, <1>3, <2>5 DEF Good
  <2>7. SubSeq(c, 1, Len(t)) = c
    OBVIOUS
  <2>8. QED BY <1>1, <2>1, <2>6, <2>7 DEF FlatBy, Flat, tt
<1>4. QED BY <1>2, <1>3

\* Sequences of which the same is made.
LEMMA FlatSame ==
    ASSUME NEW F, NEW s, NEW t, Len(s) = Len(t), \A j \in 1..Len(s) : F[s[j]] = F[t[j]]
    PROVE  Flat(s, F) = Flat(t, F)
<1>1. [j \in 1..Len(s) |-> F[s[j]]] = [j \in 1..Len(t) |-> F[t[j]]]
  OBVIOUS
<1>2. QED BY <1>1 DEF Flat

\* What is made of flattened sequences is what is made of each, flattened.
LEMMA FlatFlat ==
    ASSUME NEW E, NEW S, NEW F \in [E -> Seq(S)], NEW ss \in Seq(Seq(E))
    PROVE  Flat(FlattenSeq(ss), F) = FlattenSeq([j \in 1..Len(ss) |-> Flat(ss[j], F)])
<1> DEFINE uu == [j \in 1..Len(ss) |-> Flat(ss[j], F)]
<1>1. /\ Len(ss) \in Nat /\ Len(uu) = Len(ss)
      /\ \A j \in 1..Len(ss) : uu[j] = Flat(ss[j], F) /\ ss[j] \in Seq(E)
  OBVIOUS
<1>2. CASE Len(ss) = 0
  <2>1. ss = <<>>
    BY <1>2
  <2>2. uu = <<>>
    BY <2>1
  <2>3. QED BY <2>1, <2>2, FlatOne, FlatMapOne
<1>3. CASE Len(ss) # 0
  <2> HIDE DEF uu
  <2>1. PICK f : FlatBy(ss, f)
    BY <1>1, <1>3, FlatTable
  <2>2. PICK g : FlatBy(uu, g)
    BY <1>1, <1>3, FlatTable
  <2> DEFINE Good == {j \in 1..Len(ss) : Flat(f[j], F) = g[j]}
  <2>3. \A j \in 1..Len(ss) : f[j] = IF j = 1 THEN ss[j] ELSE f[j - 1] \o ss[j]
    BY <1>1, <2>1 DEF FlatBy, IsTable
  <2>4. \A j \in 1..Len(ss) : g[j] = IF j = 1 THEN uu[j] ELSE g[j - 1] \o uu[j]
    BY <1>1, <2>2 DEF FlatBy, IsTable
  <2>5. \A j \in 1..Len(ss) : f[j] \in Seq(E)
    BY <2>1, FlatType DEF FlatBy
  <2>6. 1 \in Good
    <3>1. 1 \in 1..Len(ss)
      BY <1>1, <1>3
    <3>2. QED BY <1>1, <2>3, <2>4, <3>1
  <2>7. ASSUME NEW j \in 2..Len(ss), j - 1 \in Good PROVE j \in Good
    <3>1. j \in 1..Len(ss) /\ j # 1 /\ j - 1 \in 1..Len(ss)
      BY <1>1, <2>7
    <3>2. f[j] = f[j - 1] \o ss[j]
      BY <2>3, <3>1
    <3>3. g[j] = g[j - 1] \o uu[j]
      BY <2>4, <3>1
    <3>4. IsJoin(f[j], f[j - 1], ss[j]) /\ f[j - 1] \in Seq(E) /\ ss[j] \in Seq(E)
      BY <1>1, <2>5, <3>1, <3>2 DEF IsJoin
    <3>5. IsJoin(Flat(f[j], F), Flat(f[j - 1], F), Flat(ss[j], F))
      BY <3>4, FlatMapJoined
    <3>6. Flat(f[j - 1], F) = g[j - 1] /\ Flat(ss[j], F) = uu[j]
      BY <1>1, <2>7, <3>1
    <3>7. IsJoin(Flat(f[j], F), g[j - 1], uu[j])
      BY <3>5, <3>6, Zenon
    <3>8. Flat(f[j], F) = g[j]
      BY <3>3, <3>7, Zenon DEF IsJoin
    <3>9. QED BY <3>1, <3>8
  <2> HIDE DEF Good
  <2>8. \A j \in 1..Len(ss) : j \in Good
    BY <1>1, <2>6, <2>7, Upwards
  <2>9. Len(ss) \in 1..Len(ss)
    BY <1>1, <1>3
  <2>10. Flat(f[Len(ss)], F) = g[Len(ss)]
    BY <2>8, <2>9 DEF Good
  <2>11. QED BY <1>1, <2>1, <2>2, <2>10 DEF FlatBy, uu
<1>4. QED BY <1>2, <1>3

-----------------------------------------------------------------------------
(* What a client puts together is made of each event.                      *)

Kinds == {"keepalive", "role", "start", "created", "in_progress", "reasoning", "text", "function",
          "call", "finish", "[DONE]", "block", "delta", "stop", "added", "part", "text.done",
          "part.done", "args", "args.done", "done", "completed", "failed", "error", "message_stop"}
Forms == {"exact", "trimmed", "garbled", "unknown"}
Reasons == {"stop", "tool_calls", "function_call", "length", "other", "end_turn", "tool_use",
            "max_tokens", "completed"}
BlockName == {"none", "text", "call", "thinking"} \X Nat
Payload == Nat \X (Forms \cup Reasons)
ClientEvent == [k : Kinds, b : BlockName, p : Payload, q : Nat]

OfBlocks(blocks) ==
    [e \in ClientEvent |-> IF e.b \in blocks /\ e.p[1] # 0 THEN <<e.p>> ELSE <<>>]
OfPieces == [e \in ClientEvent |-> IF e.p[1] # 0 THEN <<<<e.b, e.p[1]>>>> ELSE <<>>]
OfReasons ==
    [e \in ClientEvent |-> CASE e.k = "completed" -> <<"completed">>
                             [] e.k = "finish" -> <<e.p[2]>>
                             [] OTHER -> <<>>]
OfOthers(kinds) == [e \in ClientEvent |-> IF e.k \in kinds THEN <<>> ELSE <<e>>]

LEMMA EventFunctions ==
    ASSUME NEW blocks, NEW kinds
    PROVE  /\ OfBlocks(blocks) \in [ClientEvent -> Seq(Payload)]
           /\ OfPieces \in [ClientEvent -> Seq(BlockName \X Nat)]
           /\ OfReasons \in [ClientEvent -> Seq(Forms \cup Reasons)]
           /\ OfOthers(kinds) \in [ClientEvent -> Seq(ClientEvent)]
<1>1. OfBlocks(blocks) \in [ClientEvent -> Seq(Payload)]
  BY DEF OfBlocks, ClientEvent
<1>2. OfPieces \in [ClientEvent -> Seq(BlockName \X Nat)]
  <2>1. ASSUME NEW e \in ClientEvent PROVE e.b \in BlockName /\ e.p[1] \in Nat
    BY DEF ClientEvent, Payload
  <2>2. ASSUME NEW e \in ClientEvent PROVE <<e.b, e.p[1]>> \in BlockName \X Nat
    BY <2>1
  <2>3. ASSUME NEW e \in ClientEvent PROVE <<<<e.b, e.p[1]>>>> \in Seq(BlockName \X Nat)
    BY <2>2
  <2>4. QED BY <2>3 DEF OfPieces
<1>3. OfReasons \in [ClientEvent -> Seq(Forms \cup Reasons)]
  <2> DEFINE S == Forms \cup Reasons
  <2>1. ASSUME NEW e \in ClientEvent PROVE e.p[2] \in S
    BY DEF ClientEvent, Payload
  <2>2. "completed" \in S
    BY DEF Reasons
  <2> HIDE DEF S
  <2>3. <<"completed">> \in Seq(S) /\ <<>> \in Seq(S)
    BY <2>2, SingleSeq
  <2>4. ASSUME NEW e \in ClientEvent
        PROVE  (CASE e.k = "completed" -> <<"completed">>
                  [] e.k = "finish" -> <<e.p[2]>>
                  [] OTHER -> <<>>) \in Seq(S)
    <3>1. PICK a, b, c : a = <<"completed">> /\ b = <<e.p[2]>> /\ c = <<>>
      OBVIOUS
    <3>2. a \in Seq(S) /\ b \in Seq(S) /\ c \in Seq(S)
      BY <2>1, <2>3, <3>1, SingleSeq
    <3>3. (CASE e.k = "completed" -> a [] e.k = "finish" -> b [] OTHER -> c) \in Seq(S)
      BY ONLY <3>2
    <3>4. QED BY <3>1, <3>3, Zenon
  <2>5. QED BY <2>4, Zenon DEF OfReasons, S
<1>4. OfOthers(kinds) \in [ClientEvent -> Seq(ClientEvent)]
  BY DEF OfOthers
<1>5. QED BY <1>1, <1>2, <1>3, <1>4

LEMMA EventMaps ==
    ASSUME NEW s \in Seq(ClientEvent), NEW blocks, NEW kinds
    PROVE  /\ Gather(s, blocks) = Flat(s, OfBlocks(blocks))
           /\ Heard(s) = Flat(s, OfPieces)
           /\ Finishes(s) = Flat(s, OfReasons)
           /\ Leaving(s, kinds) = Flat(s, OfOthers(kinds))
<1>1. \A j \in 1..Len(s) : s[j] \in ClientEvent
  OBVIOUS
<1>2. Gather(s, blocks) = Flat(s, OfBlocks(blocks))
  BY <1>1 DEF Gather, Flat, OfBlocks
<1>3. Heard(s) = Flat(s, OfPieces)
  BY <1>1 DEF Heard, Flat, OfPieces
<1>4. Finishes(s) = Flat(s, OfReasons)
  BY <1>1 DEF Finishes, Flat, OfReasons
<1>5. Leaving(s, kinds) = Flat(s, OfOthers(kinds))
  BY <1>1 DEF Leaving, Flat, OfOthers
<1>6. QED BY <1>2, <1>3, <1>4, <1>5

-----------------------------------------------------------------------------
(* Complete answers.                                                       *)

Blocks(t) == {t} \X Nat
TextOf == OfBlocks(Blocks("text"))
CallsOf == OfBlocks(Blocks("call"))
SummaryOf == OfBlocks(Blocks("thinking"))
NotKept == {e \in ClientEvent : e.k # "keepalive"}
Endings == Forms \cup Reasons
\* The events tell this text, these calls, this summary and these endings.
Tells(s, text, calls, summary, finish) ==
    /\ s \in Seq(NotKept) /\ s \in Seq(ClientEvent)
    /\ text \in Seq(Payload) /\ calls \in Seq(Payload) /\ summary \in Seq(Payload)
    /\ finish \in Seq(Endings)
    /\ Flat(s, TextOf) = text /\ Flat(s, CallsOf) = calls /\ Flat(s, SummaryOf) = summary
    /\ Flat(s, OfReasons) = finish

LEMMA MapTypes ==
    /\ TextOf \in [ClientEvent -> Seq(Payload)] /\ CallsOf \in [ClientEvent -> Seq(Payload)]
    /\ SummaryOf \in [ClientEvent -> Seq(Payload)] /\ OfReasons \in [ClientEvent -> Seq(Endings)]
BY EventFunctions DEF TextOf, CallsOf, SummaryOf, Endings

LEMMA TellsJoined ==
    ASSUME NEW s, NEW t, NEW st, NEW a, NEW b, NEW c, NEW d, NEW e, NEW f, NEW g, NEW h,
           Tells(s, a, b, c, d), Tells(t, e, f, g, h), IsJoin(st, s, t)
    PROVE  Tells(st, a \o e, b \o f, c \o g, d \o h)
<1>1. s \in Seq(ClientEvent) /\ t \in Seq(ClientEvent)
  BY DEF Tells
<1>2. st \in Seq(ClientEvent) /\ st \in Seq(NotKept)
  BY <1>1, ConcatProperties DEF IsJoin, Tells
<1>3. /\ Flat(st, TextOf) = a \o e /\ Flat(st, CallsOf) = b \o f
      /\ Flat(st, SummaryOf) = c \o g /\ Flat(st, OfReasons) = d \o h
  <2>1. IsJoin(Flat(st, TextOf), Flat(s, TextOf), Flat(t, TextOf))
    BY <1>1, MapTypes, FlatMapJoined
  <2>2. IsJoin(Flat(st, CallsOf), Flat(s, CallsOf), Flat(t, CallsOf))
    BY <1>1, MapTypes, FlatMapJoined
  <2>3. IsJoin(Flat(st, SummaryOf), Flat(s, SummaryOf), Flat(t, SummaryOf))
    BY <1>1, MapTypes, FlatMapJoined
  <2>4. IsJoin(Flat(st, OfReasons), Flat(s, OfReasons), Flat(t, OfReasons))
    BY <1>1, MapTypes, FlatMapJoined
  <2>5. QED BY <2>1, <2>2, <2>3, <2>4, Zenon DEF IsJoin, Tells
<1>4. /\ a \o e \in Seq(Payload) /\ b \o f \in Seq(Payload) /\ c \o g \in Seq(Payload)
      /\ d \o h \in Seq(Endings)
  <2>1. /\ a \in Seq(Payload) /\ b \in Seq(Payload) /\ c \in Seq(Payload) /\ d \in Seq(Endings)
        /\ e \in Seq(Payload) /\ f \in Seq(Payload) /\ g \in Seq(Payload) /\ h \in Seq(Endings)
    BY DEF Tells
  <2>2. QED BY <2>1, ConcatProperties
<1>5. QED BY <1>2, <1>3, <1>4, Zenon DEF Tells

\* Parts put together.
LEMMA TellsSummary ==
    ASSUME NEW s, NEW t, NEW a, NEW b, NEW c, NEW d,
           Tells(s, <<>>, <<>>, c, <<>>), Tells(t, a, b, <<>>, d)
    PROVE  Tells(s \o t, a, b, c, d)
<1>1. PICK st : IsJoin(st, s, t)
  BY DEF IsJoin
<1>2. Tells(st, <<>> \o a, <<>> \o b, c \o <<>>, <<>> \o d)
  BY <1>1, TellsJoined
<1>3. <<>> \o a = a /\ <<>> \o b = b /\ c \o <<>> = c /\ <<>> \o d = d
  BY ConcatEmptySeq DEF Tells
<1>4. Tells(st, a, b, c, d)
  BY <1>2, <1>3, Zenon
<1>5. QED BY <1>1, <1>4, Zenon DEF IsJoin

LEMMA TellsEnd ==
    ASSUME NEW s, NEW t, NEW a, NEW b, NEW c, NEW d,
           Tells(s, a, b, c, <<>>), Tells(t, <<>>, <<>>, <<>>, d)
    PROVE  Tells(s \o t, a, b, c, d)
<1>1. PICK st : IsJoin(st, s, t)
  BY DEF IsJoin
<1>2. Tells(st, a \o <<>>, b \o <<>>, c \o <<>>, <<>> \o d)
  BY <1>1, TellsJoined
<1>3. a \o <<>> = a /\ b \o <<>> = b /\ c \o <<>> = c /\ <<>> \o d = d
  BY ConcatEmptySeq DEF Tells
<1>4. Tells(st, a, b, c, d)
  BY <1>2, <1>3, Zenon
<1>5. QED BY <1>1, <1>4, Zenon DEF IsJoin

LEMMA TellsNoMore ==
    ASSUME NEW s, NEW t, NEW a, NEW b, NEW c, NEW d,
           Tells(s, a, b, c, d), Tells(t, <<>>, <<>>, <<>>, <<>>)
    PROVE  Tells(s \o t, a, b, c, d) /\ Tells(t \o s, a, b, c, d)
<1>1. PICK st, ts : IsJoin(st, s, t) /\ IsJoin(ts, t, s)
  BY DEF IsJoin
<1>2. Tells(st, a \o <<>>, b \o <<>>, c \o <<>>, d \o <<>>)
  BY <1>1, TellsJoined
<1>3. Tells(ts, <<>> \o a, <<>> \o b, <<>> \o c, <<>> \o d)
  BY <1>1, TellsJoined
<1>4. /\ a \o <<>> = a /\ b \o <<>> = b /\ c \o <<>> = c /\ d \o <<>> = d
      /\ <<>> \o a = a /\ <<>> \o b = b /\ <<>> \o c = c /\ <<>> \o d = d
  BY ConcatEmptySeq DEF Tells
<1>5. Tells(st, a, b, c, d) /\ Tells(ts, a, b, c, d)
  BY <1>2, <1>3, <1>4, Zenon
<1>6. QED BY <1>1, <1>5, Zenon DEF IsJoin

\* One event that tells nothing, a piece, or a reason to stop.
MuteEvent(e) ==
    e \in ClientEvent /\ e.p[1] = 0 /\ e.k \notin {"completed", "finish", "keepalive"}
PieceOf(e, t) ==
    e \in ClientEvent /\ e.p[1] # 0 /\ e.k \notin {"completed", "finish", "keepalive"} /\ e.b[1] = t
EndOf(e, r) ==
    /\ e \in ClientEvent /\ e.p[1] = 0 /\ r \in Endings
    /\ (e.k = "finish" /\ e.p[2] = r) \/ (e.k = "completed" /\ r = "completed")

LEMMA EventSays ==
    ASSUME NEW e
    PROVE  /\ MuteEvent(e) =>
                /\ TextOf[e] = <<>> /\ CallsOf[e] = <<>> /\ SummaryOf[e] = <<>> /\ OfReasons[e] = <<>>
                /\ e \in NotKept
           /\ PieceOf(e, "text") =>
                /\ TextOf[e] = <<e.p>> /\ CallsOf[e] = <<>> /\ SummaryOf[e] = <<>> /\ OfReasons[e] = <<>>
                /\ e \in NotKept
           /\ PieceOf(e, "call") =>
                /\ TextOf[e] = <<>> /\ CallsOf[e] = <<e.p>> /\ SummaryOf[e] = <<>> /\ OfReasons[e] = <<>>
                /\ e \in NotKept
           /\ PieceOf(e, "thinking") =>
                /\ TextOf[e] = <<>> /\ CallsOf[e] = <<>> /\ SummaryOf[e] = <<e.p>> /\ OfReasons[e] = <<>>
                /\ e \in NotKept
           /\ \A r : EndOf(e, r) =>
                /\ TextOf[e] = <<>> /\ CallsOf[e] = <<>> /\ SummaryOf[e] = <<>> /\ OfReasons[e] = <<r>>
                /\ e \in NotKept
<1>1. ASSUME e \in ClientEvent
      PROVE  \A blocks : OfBlocks(blocks)[e] = IF e.b \in blocks /\ e.p[1] # 0 THEN <<e.p>> ELSE <<>>
  BY <1>1, Zenon DEF OfBlocks
<1>2. ASSUME e \in ClientEvent
      PROVE  OfReasons[e] = CASE e.k = "completed" -> <<"completed">>
                              [] e.k = "finish" -> <<e.p[2]>>
                              [] OTHER -> <<>>
  BY <1>2 DEF OfReasons
<1>3. ASSUME e \in ClientEvent, e.k # "keepalive" PROVE e \in NotKept
  BY <1>3 DEF NotKept
<1>4. ASSUME e \in ClientEvent, NEW t PROVE e.b \in Blocks(t) <=> e.b[1] = t
  BY <1>4 DEF ClientEvent, BlockName, Blocks
<1>5. ASSUME e \in ClientEvent
      PROVE  /\ TextOf[e] = IF e.b[1] = "text" /\ e.p[1] # 0 THEN <<e.p>> ELSE <<>>
             /\ CallsOf[e] = IF e.b[1] = "call" /\ e.p[1] # 0 THEN <<e.p>> ELSE <<>>
             /\ SummaryOf[e] = IF e.b[1] = "thinking" /\ e.p[1] # 0 THEN <<e.p>> ELSE <<>>
  BY <1>1, <1>4, <1>5, Zenon DEF TextOf, CallsOf, SummaryOf
<1>6. MuteEvent(e) =>
                /\ TextOf[e] = <<>> /\ CallsOf[e] = <<>> /\ SummaryOf[e] = <<>> /\ OfReasons[e] = <<>>
                /\ e \in NotKept
  BY <1>2, <1>3, <1>5 DEF MuteEvent
<1>7. PieceOf(e, "text") =>
                /\ TextOf[e] = <<e.p>> /\ CallsOf[e] = <<>> /\ SummaryOf[e] = <<>> /\ OfReasons[e] = <<>>
                /\ e \in NotKept
  BY <1>2, <1>3, <1>5 DEF PieceOf
<1>8. PieceOf(e, "call") =>
                /\ TextOf[e] = <<>> /\ CallsOf[e] = <<e.p>> /\ SummaryOf[e] = <<>> /\ OfReasons[e] = <<>>
                /\ e \in NotKept
  BY <1>2, <1>3, <1>5 DEF PieceOf
<1>9. PieceOf(e, "thinking") =>
                /\ TextOf[e] = <<>> /\ CallsOf[e] = <<>> /\ SummaryOf[e] = <<e.p>> /\ OfReasons[e] = <<>>
                /\ e \in NotKept
  BY <1>2, <1>3, <1>5 DEF PieceOf
<1>10. ASSUME NEW r, EndOf(e, r)
       PROVE  /\ TextOf[e] = <<>> /\ CallsOf[e] = <<>> /\ SummaryOf[e] = <<>> /\ OfReasons[e] = <<r>>
                /\ e \in NotKept
  BY <1>2, <1>3, <1>5, <1>10 DEF EndOf
<1>11. QED BY <1>6, <1>7, <1>8, <1>9, <1>10

LEMMA EventTells ==
    ASSUME NEW e
    PROVE  /\ MuteEvent(e) => Tells(<<e>>, <<>>, <<>>, <<>>, <<>>)
           /\ PieceOf(e, "text") => Tells(<<e>>, <<e.p>>, <<>>, <<>>, <<>>)
           /\ PieceOf(e, "call") => Tells(<<e>>, <<>>, <<e.p>>, <<>>, <<>>)
           /\ PieceOf(e, "thinking") => Tells(<<e>>, <<>>, <<>>, <<e.p>>, <<>>)
           /\ \A r : EndOf(e, r) => Tells(<<e>>, <<>>, <<>>, <<>>, <<r>>)
<1>1. /\ Flat(<<e>>, TextOf) = TextOf[e] /\ Flat(<<e>>, CallsOf) = CallsOf[e]
      /\ Flat(<<e>>, SummaryOf) = SummaryOf[e] /\ Flat(<<e>>, OfReasons) = OfReasons[e]
  BY FlatMapOne
<1>2. ASSUME e \in ClientEvent PROVE e.p \in Payload
  BY <1>2 DEF ClientEvent
<1>3. ASSUME NEW a \in Seq(Payload), NEW b \in Seq(Payload), NEW c \in Seq(Payload),
             NEW d \in Seq(Endings), e \in ClientEvent,
             TextOf[e] = a, CallsOf[e] = b, SummaryOf[e] = c, OfReasons[e] = d,
             e \in NotKept
      PROVE  Tells(<<e>>, a, b, c, d)
  <2>1. <<e>> \in Seq(ClientEvent) /\ <<e>> \in Seq(NotKept)
    BY <1>3, SingleSeq
  <2>2. QED BY <1>1, <1>3, <2>1, Zenon DEF Tells
<1>4. <<>> \in Seq(Payload) /\ <<>> \in Seq(Endings)
  OBVIOUS
<1>5. MuteEvent(e) => Tells(<<e>>, <<>>, <<>>, <<>>, <<>>)
  <2> HAVE MuteEvent(e)
  <2>1. e \in ClientEvent
    BY DEF MuteEvent
  <2>2. QED BY <1>3, <1>4, <2>1, EventSays, Zenon
<1>6. PieceOf(e, "text") => Tells(<<e>>, <<e.p>>, <<>>, <<>>, <<>>)
  <2> HAVE PieceOf(e, "text")
  <2>1. e \in ClientEvent
    BY DEF PieceOf
  <2>2. <<e.p>> \in Seq(Payload)
    BY <1>2, <2>1, SingleSeq
  <2>3. QED BY <1>3, <1>4, <2>1, <2>2, EventSays, Zenon
<1>7. PieceOf(e, "call") => Tells(<<e>>, <<>>, <<e.p>>, <<>>, <<>>)
  <2> HAVE PieceOf(e, "call")
  <2>1. e \in ClientEvent
    BY DEF PieceOf
  <2>2. <<e.p>> \in Seq(Payload)
    BY <1>2, <2>1, SingleSeq
  <2>3. QED BY <1>3, <1>4, <2>1, <2>2, EventSays, Zenon
<1>8. PieceOf(e, "thinking") => Tells(<<e>>, <<>>, <<>>, <<e.p>>, <<>>)
  <2> HAVE PieceOf(e, "thinking")
  <2>1. e \in ClientEvent
    BY DEF PieceOf
  <2>2. <<e.p>> \in Seq(Payload)
    BY <1>2, <2>1, SingleSeq
  <2>3. QED BY <1>3, <1>4, <2>1, <2>2, EventSays, Zenon
<1>9. ASSUME NEW r, EndOf(e, r) PROVE Tells(<<e>>, <<>>, <<>>, <<>>, <<r>>)
  <2>1. e \in ClientEvent /\ r \in Endings
    BY <1>9 DEF EndOf
  <2>2. <<r>> \in Seq(Endings)
    BY <2>1, SingleSeq
  <2>3. QED BY <1>3, <1>4, <1>9, <2>1, <2>2, EventSays, Zenon
<1>10. QED BY <1>5, <1>6, <1>7, <1>8, <1>9

\* The events that the bodies are made of.
LEMMA EventForms ==
    /\ \A k \in Kinds \ {"completed", "finish", "keepalive"} :
          /\ MuteEvent(Plain(k))
          /\ \A b \in BlockName : MuteEvent(About(k, b))
          /\ \A b \in BlockName, p \in Payload :
                p[1] # 0 => PieceOf(Piece(k, b, p), b[1]) /\ Piece(k, b, p).p = p
    /\ \A r \in Endings : EndOf(Reason("finish", r), r)
    /\ EndOf(Plain("completed"), "completed")
<1>1. ASSUME NEW k \in Kinds, NEW b \in BlockName, NEW p \in Payload, NEW q \in Nat
      PROVE  /\ Event(k, b, p, q) \in ClientEvent
             /\ Event(k, b, p, q).k = k /\ Event(k, b, p, q).b = b /\ Event(k, b, p, q).p = p
  BY DEF Event, ClientEvent
<1>2. <<"none", 0>> \in BlockName /\ <<0, "exact">> \in Payload
  BY DEF BlockName, Payload, Forms
<1>3. <<0, "exact">>[1] = 0
  OBVIOUS
<1>4. ASSUME NEW k \in Kinds \ {"completed", "finish", "keepalive"} PROVE MuteEvent(Plain(k))
  BY <1>1, <1>2, <1>3 DEF MuteEvent, Plain
<1>5. ASSUME NEW k \in Kinds \ {"completed", "finish", "keepalive"}, NEW b \in BlockName
      PROVE  MuteEvent(About(k, b))
  BY <1>1, <1>2, <1>3 DEF MuteEvent, About
<1>6. ASSUME NEW k \in Kinds \ {"completed", "finish", "keepalive"}, NEW b \in BlockName,
             NEW p \in Payload, p[1] # 0
      PROVE  PieceOf(Piece(k, b, p), b[1]) /\ Piece(k, b, p).p = p
  BY <1>1, <1>6 DEF PieceOf, Piece
<1>7. ASSUME NEW r \in Endings PROVE EndOf(Reason("finish", r), r)
  <2>1. <<0, r>> \in Payload /\ <<0, r>>[1] = 0 /\ <<0, r>>[2] = r /\ "finish" \in Kinds
    BY DEF Payload, Endings, Kinds
  <2>2. QED BY <1>1, <1>2, <2>1 DEF EndOf, Reason
<1>8. EndOf(Plain("completed"), "completed")
  <2>1. "completed" \in Kinds /\ "completed" \in Endings
    BY DEF Kinds, Endings, Reasons
  <2>2. QED BY <1>1, <1>2, <1>3, <2>1 DEF EndOf, Plain
<1>9. QED BY <1>4, <1>5, <1>6, <1>7, <1>8

\* Bodies of one event.
Common == Kinds \ {"completed", "finish", "keepalive"}
Full == {p \in Payload : p[1] # 0}

LEMMA FullSeq ==
    ASSUME NEW c \in Seq(Full)
    PROVE  c \in Seq(Payload) /\ \A j \in 1..Len(c) : c[j] \in Payload /\ c[j][1] # 0
BY DEF Full

LEMMA OneTells ==
    /\ \A k \in Common :
          /\ Tells(<<Plain(k)>>, <<>>, <<>>, <<>>, <<>>)
          /\ \A b \in BlockName : Tells(<<About(k, b)>>, <<>>, <<>>, <<>>, <<>>)
          /\ \A b \in BlockName, p \in Full :
                /\ b[1] = "text" => Tells(<<Piece(k, b, p)>>, <<p>>, <<>>, <<>>, <<>>)
                /\ b[1] = "call" => Tells(<<Piece(k, b, p)>>, <<>>, <<p>>, <<>>, <<>>)
                /\ b[1] = "thinking" => Tells(<<Piece(k, b, p)>>, <<>>, <<>>, <<p>>, <<>>)
    /\ \A r \in Endings : Tells(<<Reason("finish", r)>>, <<>>, <<>>, <<>>, <<r>>)
    /\ Tells(<<Plain("completed")>>, <<>>, <<>>, <<>>, <<"completed">>)
<1>1. ASSUME NEW k \in Common
      PROVE  /\ Tells(<<Plain(k)>>, <<>>, <<>>, <<>>, <<>>)
             /\ \A b \in BlockName : Tells(<<About(k, b)>>, <<>>, <<>>, <<>>, <<>>)
  BY EventForms, EventTells DEF Common
<1>2. ASSUME NEW k \in Common, NEW b \in BlockName, NEW p \in Full
      PROVE  /\ b[1] = "text" => Tells(<<Piece(k, b, p)>>, <<p>>, <<>>, <<>>, <<>>)
             /\ b[1] = "call" => Tells(<<Piece(k, b, p)>>, <<>>, <<p>>, <<>>, <<>>)
             /\ b[1] = "thinking" => Tells(<<Piece(k, b, p)>>, <<>>, <<>>, <<p>>, <<>>)
  <2>1. PICK e : e = Piece(k, b, p)
    OBVIOUS
  <2>2. PieceOf(e, b[1]) /\ e.p = p
    BY <2>1, EventForms DEF Full, Common
  <2>3. QED BY <2>1, <2>2, EventTells, Zenon
<1>3. ASSUME NEW r \in Endings PROVE Tells(<<Reason("finish", r)>>, <<>>, <<>>, <<>>, <<r>>)
  <2>1. EndOf(Reason("finish", r), r)
    BY EventForms
  <2>2. QED BY <2>1, EventTells
<1>4. Tells(<<Plain("completed")>>, <<>>, <<>>, <<>>, <<"completed">>)
  BY EventForms, EventTells
<1>5. QED BY <1>1, <1>2, <1>3, <1>4

\* What the parts of an answer are.
LEMMA AnswerTypes ==
    ASSUME NEW o \in Answers
    PROVE  /\ o.calls \in 0..2 /\ o.text \in {"none", "prose", "call"} /\ o.passed \in BOOLEAN
           /\ o.summary \in BOOLEAN /\ o.unresolved \in BOOLEAN /\ (o.unresolved => o.calls > 0)
           /\ TextPayload \in Full /\ TextCallPayload \in Full /\ SummaryPayload \in Full
           /\ Summary(o) \in Seq(Full)
           /\ ToldCalls(o) \in Seq(Full)
           /\ Function(o) \in Full
           /\ [j \in 1..o.calls |-> CallPayload(j)] \in Seq(Full)
<1>1. /\ o.calls \in 0..2 /\ o.text \in {"none", "prose", "call"} /\ o.passed \in BOOLEAN
      /\ o.summary \in BOOLEAN /\ o.unresolved \in BOOLEAN /\ (o.unresolved => o.calls > 0)
  BY DEF Answers
<1>2. TextPayload \in Full /\ TextCallPayload \in Full /\ SummaryPayload \in Full
  BY DEF TextPayload, TextCallPayload, SummaryPayload, Payload, Forms, Full
<1>3. Summary(o) \in Seq(Full)
  BY <1>2, SingleSeq DEF Summary
<1>4. \A j \in 1..o.calls : CallPayload(j) \in Full
  BY <1>1 DEF CallPayload, Payload, Forms, Full
<1>5. [j \in 1..o.calls |-> CallPayload(j)] \in Seq(Full)
  BY <1>1, <1>4
<1>6. ToldCalls(o) \in Seq(Full)
  BY <1>2, <1>5, SingleSeq DEF ToldCalls
<1>7. Function(o) \in Full
  <2>1. CASE ToldCalls(o) = <<>>
    BY <2>1 DEF Function, Payload, Forms, Full
  <2>2. CASE ToldCalls(o) # <<>>
    BY <1>6, <2>2, HeadTailProperties DEF Function
  <2>3. QED BY <2>1, <2>2
<1>8. QED BY <1>1, <1>2, <1>3, <1>5, <1>6, <1>7

\* One piece for each payload.
LEMMA PiecesTell ==
    ASSUME NEW k \in Common, NEW c \in Seq(Full)
    PROVE  /\ Tells([j \in 1..Len(c) |-> Piece(k, ToolCall(j - 1), c[j])], <<>>, c, <<>>, <<>>)
           /\ Tells([j \in 1..Len(c) |-> Piece(k, Text, c[j])], c, <<>>, <<>>, <<>>)
<1> DEFINE s == [j \in 1..Len(c) |-> Piece(k, ToolCall(j - 1), c[j])]
           t == [j \in 1..Len(c) |-> Piece(k, Text, c[j])]
<1>1. ASSUME NEW j \in 1..Len(c)
      PROVE  /\ PieceOf(s[j], "call") /\ s[j].p = c[j]
             /\ PieceOf(t[j], "text") /\ t[j].p = c[j]
  <2>1. ToolCall(j - 1) \in BlockName /\ Text \in BlockName
        /\ ToolCall(j - 1)[1] = "call" /\ Text[1] = "text"
    BY DEF ToolCall, Text, BlockName
  <2>2. c[j] \in Payload /\ c[j][1] # 0
    BY FullSeq
  <2>3. /\ PieceOf(Piece(k, ToolCall(j - 1), c[j]), "call") /\ Piece(k, ToolCall(j - 1), c[j]).p = c[j]
        /\ PieceOf(Piece(k, Text, c[j]), "text") /\ Piece(k, Text, c[j]).p = c[j]
    BY <2>1, <2>2, EventForms DEF Common
  <2>4. QED BY <2>3
<1>2. /\ Len(s) = Len(c) /\ Len(t) = Len(c)
      /\ \A j \in 1..Len(c) : s[j] \in ClientEvent /\ s[j] \in NotKept
                              /\ t[j] \in ClientEvent /\ t[j] \in NotKept
  BY <1>1 DEF PieceOf, NotKept
<1>3. s \in Seq(ClientEvent) /\ s \in Seq(NotKept) /\ t \in Seq(ClientEvent) /\ t \in Seq(NotKept)
  BY <1>2
<1>4. \A j \in 1..Len(c) :
         /\ TextOf[s[j]] = <<>> /\ CallsOf[s[j]] = <<c[j]>> /\ SummaryOf[s[j]] = <<>>
         /\ OfReasons[s[j]] = <<>>
         /\ TextOf[t[j]] = <<c[j]>> /\ CallsOf[t[j]] = <<>> /\ SummaryOf[t[j]] = <<>>
         /\ OfReasons[t[j]] = <<>>
  <2> SUFFICES ASSUME NEW j \in 1..Len(c)
               PROVE  /\ TextOf[s[j]] = <<>> /\ CallsOf[s[j]] = <<c[j]>> /\ SummaryOf[s[j]] = <<>>
                      /\ OfReasons[s[j]] = <<>>
                      /\ TextOf[t[j]] = <<c[j]>> /\ CallsOf[t[j]] = <<>> /\ SummaryOf[t[j]] = <<>>
                      /\ OfReasons[t[j]] = <<>>
    OBVIOUS
  <2>1. PICK e, f : e = s[j] /\ f = t[j]
    OBVIOUS
  <2> HIDE DEF s, t
  <2>2. PieceOf(e, "call") /\ e.p = c[j] /\ PieceOf(f, "text") /\ f.p = c[j]
    BY <1>1, <2>1
  <2>3. QED BY <2>1, <2>2, EventSays, Zenon
<1> HIDE DEF s, t
<1>5. Len(c) \in Nat
  OBVIOUS
<1>6. /\ Flat(s, TextOf) = <<>> /\ Flat(s, SummaryOf) = <<>> /\ Flat(s, OfReasons) = <<>>
      /\ Flat(t, CallsOf) = <<>> /\ Flat(t, SummaryOf) = <<>> /\ Flat(t, OfReasons) = <<>>
  BY <1>2, <1>4, <1>5, FlatNone
<1>7. c \in Seq(Payload)
  BY FullSeq
<1>8. Flat(s, CallsOf) = c
  <2>1. Singles(CallsOf, s, c)
    BY <1>2, <1>4 DEF Singles
  <2>2. QED BY <1>3, <1>7, <2>1, MapTypes, FlatSingles
<1>9. Flat(t, TextOf) = c
  <2>1. Singles(TextOf, t, c)
    BY <1>2, <1>4 DEF Singles
  <2>2. QED BY <1>3, <1>7, <2>1, MapTypes, FlatSingles
<1>10. <<>> \in Seq(Payload) /\ <<>> \in Seq(Endings)
  OBVIOUS
<1>11. Tells(s, <<>>, c, <<>>, <<>>) /\ Tells(t, c, <<>>, <<>>, <<>>)
  BY <1>3, <1>6, <1>7, <1>8, <1>9, <1>10 DEF Tells
<1>12. QED BY <1>11 DEF s, t

LEMMA NothingTells == Tells(<<>>, <<>>, <<>>, <<>>, <<>>)
<1>1. /\ Flat(<<>>, TextOf) = <<>> /\ Flat(<<>>, CallsOf) = <<>>
      /\ Flat(<<>>, SummaryOf) = <<>> /\ Flat(<<>>, OfReasons) = <<>>
  BY FlatMapOne
<1>2. /\ <<>> \in Seq(Payload) /\ <<>> \in Seq(Endings) /\ <<>> \in Seq(ClientEvent)
      /\ <<>> \in Seq(NotKept)
  OBVIOUS
<1>3. QED BY <1>1, <1>2 DEF Tells

\* The events s are the stream of the JSON value j.
IsStreamOf(s, j) == Tells(s, j.text, j.calls, j.summary, <<j.finish>>)

LEMMA ValueFields ==
    ASSUME NEW s, NEW a, NEW b, NEW c, NEW r
    PROVE  IsStreamOf(s, Value(a, b, c, r)) <=> Tells(s, a, b, c, <<r>>)
<1>1. /\ Value(a, b, c, r).text = a /\ Value(a, b, c, r).calls = b
      /\ Value(a, b, c, r).summary = c /\ Value(a, b, c, r).finish = r
  BY DEF Value
<1>2. QED BY <1>1, Zenon DEF IsStreamOf

\* Legacy completions.
LEMMA CompletionTells ==
    ASSUME NEW o \in Answers
    PROVE  IsStreamOf(CompletionBody(o), CompletionJson(o))
<1>1. PICK c : c = CompletionText(o)
  OBVIOUS
<1>2. c \in Seq(Full)
  <2>1. PICK a, b : /\ a = Summary(o)
                    /\ b = IF o.text = "none" THEN <<>>
                           ELSE <<IF o.text = "call" THEN TextCallPayload ELSE TextPayload>>
    OBVIOUS
  <2>2. a \in Seq(Full)
    BY <2>1, AnswerTypes
  <2>3. b \in Seq(Full)
    <3>1. PICK x \in Full : x = IF o.text = "call" THEN TextCallPayload ELSE TextPayload
      BY AnswerTypes
    <3>2. b = <<>> \/ b = <<x>>
      BY <2>1, <3>1
    <3>3. <<>> \in Seq(Full) /\ <<x>> \in Seq(Full)
      BY SingleSeq
    <3>4. QED BY <3>2, <3>3, Zenon
  <2>4. c = a \o b
    BY <1>1, <2>1, Zenon DEF CompletionText
  <2>5. QED BY <2>2, <2>3, <2>4, ConcatProperties
<1>3. Tells([j \in 1..Len(c) |-> Piece("text", Text, c[j])], c, <<>>, <<>>, <<>>)
  <2>1. "text" \in Common
    BY DEF Kinds, Common
  <2>2. QED BY <1>2, <2>1, PiecesTell
<1>4. PICK a, b, ab : a = Reason("finish", "stop") /\ b = Plain("[DONE]") /\ ab = <<a, b>>
  OBVIOUS
<1>5. Tells(<<a>>, <<>>, <<>>, <<>>, <<"stop">>) /\ Tells(<<b>>, <<>>, <<>>, <<>>, <<>>)
  <2>1. "[DONE]" \in Common /\ "stop" \in Endings
    BY DEF Kinds, Endings, Reasons, Common
  <2>2. QED BY <1>4, <2>1, OneTells
<1>6. Tells(ab, <<>>, <<>>, <<>>, <<"stop">>)
  <2>1. ab = <<a>> \o <<b>>
    BY <1>4
  <2>2. QED BY <1>5, <2>1, TellsNoMore, Zenon
<1>7. Tells([j \in 1..Len(c) |-> Piece("text", Text, c[j])] \o ab, c, <<>>, <<>>, <<"stop">>)
  BY <1>3, <1>6, TellsEnd
<1>8. CompletionBody(o) = [j \in 1..Len(c) |-> Piece("text", Text, c[j])] \o ab
  BY <1>1, <1>4, Zenon DEF CompletionBody
<1>9. CompletionJson(o) = Value(c, <<>>, <<>>, "stop")
  BY <1>1, Zenon DEF CompletionJson
<1>10. QED BY <1>7, <1>8, <1>9, ValueFields, Zenon

\* Chat Completions.
LEMMA ChatTells ==
    ASSUME NEW o \in Answers, NEW legacy \in BOOLEAN
    PROVE  IsStreamOf(ChatBody(o, legacy), ChatJson(o, legacy))
<1> DEFINE summary == IF o.summary THEN <<Piece("reasoning", Thinking, SummaryPayload)>> ELSE <<>>
           isText == ~IsTextCall(o) /\ ShowsText(o)
           isFunction == legacy /\ (IsTextCall(o) \/ ~ShowsText(o))
           calls == [j \in 1..Len(ToldCalls(o)) |-> Piece("call", ToolCall(j - 1), ToldCalls(o)[j])]
           content == CASE isText -> <<Piece("text", Text, TextPayload), Reason("finish", "stop")>>
                        [] isFunction ->
                             <<Piece("function", ToolCall(0), Function(o)), Reason("finish", "function_call")>>
                        [] OTHER -> calls \o <<Reason("finish", "tool_calls")>>
<1>1. {"reasoning", "text", "function", "call", "role", "[DONE]"}
        \subseteq Common
  BY DEF Kinds, Common
<1>2. "stop" \in Endings /\ "function_call" \in Endings /\ "tool_calls" \in Endings
  BY DEF Endings, Reasons
<1>3. /\ Thinking \in BlockName /\ Thinking[1] = "thinking" /\ Text \in BlockName /\ Text[1] = "text"
      /\ ToolCall(0) \in BlockName /\ ToolCall(0)[1] = "call"
  BY DEF Thinking, Text, ToolCall, BlockName
<1>4. Tells(summary, <<>>, <<>>, Summary(o), <<>>)
  <2>1. CASE o.summary
    <3>1. Tells(<<Piece("reasoning", Thinking, SummaryPayload)>>, <<>>, <<>>, <<SummaryPayload>>, <<>>)
      BY <1>1, <1>3, AnswerTypes, OneTells
    <3>2. QED BY <2>1, <3>1, Zenon DEF Summary
  <2>2. CASE ~o.summary
    BY <2>2, NothingTells, Zenon DEF Summary
  <2>3. QED BY <2>1, <2>2
<1>5. ASSUME NEW r \in Endings PROVE Tells(<<Reason("finish", r)>>, <<>>, <<>>, <<>>, <<r>>)
  BY OneTells
<1>6. Tells(<<Plain("role")>>, <<>>, <<>>, <<>>, <<>>) /\ Tells(<<Plain("[DONE]")>>, <<>>, <<>>, <<>>, <<>>)
  BY <1>1, OneTells
<1>7. ASSUME NEW text, NEW cs, NEW r, Tells(content, text, cs, <<>>, <<r>>),
             ChatJson(o, legacy) = Value(text, cs, Summary(o), r)
      PROVE  IsStreamOf(ChatBody(o, legacy), ChatJson(o, legacy))
  <2> HIDE DEF content, summary
  <2>1. Tells(<<Plain("role")>> \o summary, <<>>, <<>>, Summary(o), <<>>)
    BY <1>4, <1>6, TellsNoMore
  <2>2. Tells((<<Plain("role")>> \o summary) \o content, text, cs, Summary(o), <<r>>)
    BY <1>7, <2>1, TellsSummary
  <2>3. Tells(((<<Plain("role")>> \o summary) \o content) \o <<Plain("[DONE]")>>, text, cs, Summary(o), <<r>>)
    BY <1>6, <2>2, TellsNoMore
  <2>4. ChatBody(o, legacy) = ((<<Plain("role")>> \o summary) \o content) \o <<Plain("[DONE]")>>
    BY Zenon DEF ChatBody, content, summary, isText, isFunction, calls
  <2>5. QED BY <1>7, <2>3, <2>4, ValueFields, Zenon
<1>8. CASE isText
  <2>1. PICK e, f : e = Piece("text", Text, TextPayload) /\ f = Reason("finish", "stop")
    OBVIOUS
  <2>2. TextPayload \in Full
    BY AnswerTypes
  <2>3. Tells(<<e>>, <<TextPayload>>, <<>>, <<>>, <<>>) /\ Tells(<<f>>, <<>>, <<>>, <<>>, <<"stop">>)
    BY <1>1, <1>2, <1>3, <1>5, <2>1, <2>2, OneTells
  <2>4. Tells(<<e>> \o <<f>>, <<TextPayload>>, <<>>, <<>>, <<"stop">>)
    BY <2>3, TellsEnd
  <2>5. content = <<e, f>> /\ <<e, f>> = <<e>> \o <<f>>
    BY <1>8, <2>1
  <2>6. ChatJson(o, legacy) = Value(<<TextPayload>>, <<>>, Summary(o), "stop")
    BY <1>8 DEF ChatJson
  <2> HIDE DEF content
  <2>7. Tells(content, <<TextPayload>>, <<>>, <<>>, <<"stop">>)
    BY <2>4, <2>5, Zenon
  <2>8. QED BY <1>7, <2>6, <2>7
<1>9. CASE ~isText /\ isFunction
  <2>1. PICK e, f : e = Piece("function", ToolCall(0), Function(o)) /\ f = Reason("finish", "function_call")
    OBVIOUS
  <2>2. Function(o) \in Full
    BY AnswerTypes
  <2>3. /\ Tells(<<e>>, <<>>, <<Function(o)>>, <<>>, <<>>)
        /\ Tells(<<f>>, <<>>, <<>>, <<>>, <<"function_call">>)
    BY <1>1, <1>2, <1>3, <1>5, <2>1, <2>2, OneTells
  <2>4. Tells(<<e>> \o <<f>>, <<>>, <<Function(o)>>, <<>>, <<"function_call">>)
    BY <2>3, TellsEnd
  <2>5. content = <<e, f>> /\ <<e, f>> = <<e>> \o <<f>>
    BY <1>9, <2>1
  <2>6. ChatJson(o, legacy) = Value(<<>>, <<Function(o)>>, Summary(o), "function_call")
    BY <1>9 DEF ChatJson
  <2> HIDE DEF content
  <2>7. Tells(content, <<>>, <<Function(o)>>, <<>>, <<"function_call">>)
    BY <2>4, <2>5, Zenon
  <2>8. QED BY <1>7, <2>6, <2>7
<1>10. CASE ~isText /\ ~isFunction
  <2>1. Tells(calls, <<>>, ToldCalls(o), <<>>, <<>>)
    BY <1>1, AnswerTypes, PiecesTell
  <2>2. content = calls \o <<Reason("finish", "tool_calls")>>
    BY <1>10
  <2>3. ChatJson(o, legacy) = Value(<<>>, ToldCalls(o), Summary(o), "tool_calls")
    BY <1>10 DEF ChatJson
  <2> HIDE DEF content, calls
  <2>4. Tells(calls \o <<Reason("finish", "tool_calls")>>, <<>>, ToldCalls(o), <<>>, <<"tool_calls">>)
    BY <1>2, <1>5, <2>1, TellsEnd
  <2>5. Tells(content, <<>>, ToldCalls(o), <<>>, <<"tool_calls">>)
    BY <2>2, <2>4, Zenon
  <2>6. QED BY <1>7, <2>3, <2>5
<1>11. QED BY <1>8, <1>9, <1>10

\* What is flattened tells what its parts tell: of each part one call or nothing.
LEMMA ManyTell ==
    ASSUME NEW ss, Len(ss) \in Nat, NEW c \in Seq(Full), Len(ss) = Len(c), ss \in Seq(Seq(ClientEvent)),
           \A j \in 1..Len(ss) : Tells(ss[j], <<>>, <<c[j]>>, <<>>, <<>>)
    PROVE  Tells(FlattenSeq(ss), <<>>, c, <<>>, <<>>)
<1>1. ss \in Seq(Seq(NotKept))
  <2>1. \A j \in 1..Len(ss) : ss[j] \in Seq(NotKept)
    BY DEF Tells
  <2> DEFINE S == Seq(NotKept)
             T == Seq(ClientEvent)
  <2> HIDE DEF S, T
  <2>2. ss \in Seq(T) /\ \A j \in 1..Len(ss) : ss[j] \in S
    BY <2>1, Zenon DEF S, T
  <2>3. ss \in Seq(S)
    BY <2>2, SeqOfType
  <2>4. QED BY <2>3 DEF S
<1>2. FlattenSeq(ss) \in Seq(NotKept) /\ FlattenSeq(ss) \in Seq(ClientEvent)
  BY <1>1, FlatType
<1>3. ASSUME NEW S, NEW F \in [ClientEvent -> Seq(S)], \A j \in 1..Len(ss) : Flat(ss[j], F) = <<>>
      PROVE  Flat(FlattenSeq(ss), F) = <<>>
  <2>1. PICK uu : uu = [j \in 1..Len(ss) |-> Flat(ss[j], F)]
    OBVIOUS
  <2>2. Flat(FlattenSeq(ss), F) = FlattenSeq(uu)
    BY <2>1, FlatFlat
  <2>3. PICK G : G = [j \in 1..Len(ss) |-> Flat(ss[j], F)]
    OBVIOUS
  <2>4. PICK t : t = [j \in 1..Len(ss) |-> j]
    OBVIOUS
  <2>5. Len(t) = Len(ss) /\ \A j \in 1..Len(t) : G[t[j]] = <<>> /\ t[j] = j
    BY <1>3, <2>3, <2>4
  <2>6. Flat(t, G) = <<>>
    BY <2>5, FlatNone
  <2>7. [j \in 1..Len(t) |-> G[t[j]]] = uu
    BY <2>1, <2>3, <2>5
  <2>8. QED BY <2>2, <2>6, <2>7 DEF Flat
<1>4. Flat(FlattenSeq(ss), CallsOf) = c
  <2>1. PICK uu : uu = [j \in 1..Len(ss) |-> Flat(ss[j], CallsOf)]
    OBVIOUS
  <2>2. Flat(FlattenSeq(ss), CallsOf) = FlattenSeq(uu)
    BY <2>1, FlatFlat, MapTypes
  <2>3. PICK G : G = [p \in Full |-> <<p>>]
    OBVIOUS
  <2>4. G \in [Full -> Seq(Full)]
    BY <2>3, SingleSeq
  <2>5. Singles(G, c, c)
    BY <2>3 DEF Singles
  <2>6. Flat(c, G) = c
    BY <2>4, <2>5, FlatSingles
  <2>7. \A j \in 1..Len(ss) : uu[j] = <<c[j]>>
    BY <2>1 DEF Tells
  <2>8. [j \in 1..Len(c) |-> G[c[j]]] = uu
    BY <2>1, <2>3, <2>7
  <2>9. QED BY <2>2, <2>6, <2>8 DEF Flat
<1>5. /\ Flat(FlattenSeq(ss), TextOf) = <<>> /\ Flat(FlattenSeq(ss), SummaryOf) = <<>>
      /\ Flat(FlattenSeq(ss), OfReasons) = <<>>
  <2>1. \A j \in 1..Len(ss) : Flat(ss[j], TextOf) = <<>> /\ Flat(ss[j], SummaryOf) = <<>>
                              /\ Flat(ss[j], OfReasons) = <<>>
    BY DEF Tells
  <2>2. QED BY <1>3, <2>1, MapTypes
<1>6. <<>> \in Seq(Payload) /\ <<>> \in Seq(Endings) /\ c \in Seq(Payload)
  BY FullSeq
<1>7. QED BY <1>2, <1>4, <1>5, <1>6 DEF Tells

\* A block of a message.
LEMMA BlockTells ==
    ASSUME NEW b \in BlockName, NEW p \in Full
    PROVE  /\ b[1] = "text" => Tells(Block(b, p), <<p>>, <<>>, <<>>, <<>>)
           /\ b[1] = "call" => Tells(Block(b, p), <<>>, <<p>>, <<>>, <<>>)
           /\ b[1] = "thinking" => Tells(Block(b, p), <<>>, <<>>, <<p>>, <<>>)
<1>1. PICK e, f, g : e = About("block", b) /\ f = Piece("delta", b, p) /\ g = About("stop", b)
  OBVIOUS
<1>2. {"block", "delta", "stop"} \subseteq Common
  BY DEF Common, Kinds
<1>3. Tells(<<e>>, <<>>, <<>>, <<>>, <<>>) /\ Tells(<<g>>, <<>>, <<>>, <<>>, <<>>)
  BY <1>1, <1>2, OneTells
<1>4. PICK ef : ef = <<e>> \o <<f>>
  OBVIOUS
<1>5. Block(b, p) = ef \o <<g>>
  <2>1. IsJoin(<<e, f>>, <<e>>, <<f>>) /\ IsJoin(<<e, f, g>>, <<e, f>>, <<g>>)
    BY SmallJoins
  <2>2. QED BY <1>1, <1>4, <2>1, Zenon DEF Block, IsJoin
<1>6. ASSUME NEW x, NEW y, NEW z, Tells(<<f>>, x, y, z, <<>>) PROVE Tells(Block(b, p), x, y, z, <<>>)
  <2>1. Tells(ef, x, y, z, <<>>)
    BY <1>3, <1>4, <1>6, TellsNoMore
  <2>2. QED BY <1>3, <1>5, <2>1, TellsNoMore
<1>7. /\ b[1] = "text" => Tells(<<f>>, <<p>>, <<>>, <<>>, <<>>)
      /\ b[1] = "call" => Tells(<<f>>, <<>>, <<p>>, <<>>, <<>>)
      /\ b[1] = "thinking" => Tells(<<f>>, <<>>, <<>>, <<p>>, <<>>)
  BY <1>1, <1>2, OneTells
<1>8. QED BY <1>6, <1>7

\* Many blocks, numbered from some place on.
LEMMA BlocksTell ==
    ASSUME NEW c \in Seq(Full), NEW at \in Nat
    PROVE  Tells(FlattenSeq([j \in 1..Len(c) |-> Block(ToolCall(at + j - 1), c[j])]),
                 <<>>, c, <<>>, <<>>)
<1>1. PICK ss : ss = [j \in 1..Len(c) |-> Block(ToolCall(at + j - 1), c[j])]
  OBVIOUS
<1>2. ASSUME NEW j \in 1..Len(c) PROVE Tells(ss[j], <<>>, <<c[j]>>, <<>>, <<>>)
  <2>1. ToolCall(at + j - 1) \in BlockName /\ ToolCall(at + j - 1)[1] = "call"
    BY DEF ToolCall, BlockName
  <2>2. c[j] \in Full
    OBVIOUS
  <2>3. Tells(Block(ToolCall(at + j - 1), c[j]), <<>>, <<c[j]>>, <<>>, <<>>)
    BY <2>1, <2>2, BlockTells
  <2>4. QED BY <1>1, <2>3
<1>3. Len(ss) = Len(c) /\ Len(ss) \in Nat
  BY <1>1
<1>4. ss \in Seq(Seq(ClientEvent))
  BY <1>1, <1>2, <1>3 DEF Tells
<1>5. Tells(FlattenSeq(ss), <<>>, c, <<>>, <<>>)
  BY <1>2, <1>3, <1>4, ManyTell
<1>6. QED BY <1>1, <1>5

\* Anthropic Messages.
LEMMA MessageTells ==
    ASSUME NEW o \in Answers
    PROVE  IsStreamOf(MessageBody(o), MessageJson(o))
<1> DEFINE at == IF o.summary THEN 1 ELSE 0
           thinking == IF o.summary THEN ThinkingBlock ELSE <<>>
           blocks == FlattenSeq([j \in 1..o.calls |-> Block(ToolCall(at + j - 1), CallPayload(j))])
           content == IF ShowsText(o)
                      THEN Block(<<"text", at>>, MessageText(o)) \o <<Reason("finish", "end_turn")>>
                      ELSE blocks \o <<Reason("finish", "tool_use")>>
<1>1. "start" \in Common /\ "message_stop" \in Common /\ "end_turn" \in Endings /\ "tool_use" \in Endings
  BY DEF Common, Kinds, Endings, Reasons
<1>2. Tells(thinking, <<>>, <<>>, Summary(o), <<>>)
  <2>1. CASE o.summary
    <3>1. Thinking \in BlockName /\ Thinking[1] = "thinking"
      BY DEF Thinking, BlockName
    <3>2. Tells(ThinkingBlock, <<>>, <<>>, <<SummaryPayload>>, <<>>)
      BY <3>1, AnswerTypes, BlockTells DEF ThinkingBlock
    <3>3. QED BY <2>1, <3>2, Zenon DEF Summary
  <2>2. CASE ~o.summary
    BY <2>2, NothingTells, Zenon DEF Summary
  <2>3. QED BY <2>1, <2>2
<1>3. ASSUME NEW text, NEW cs, NEW r, Tells(content, text, cs, <<>>, <<r>>),
             MessageJson(o) = Value(text, cs, Summary(o), r)
      PROVE  IsStreamOf(MessageBody(o), MessageJson(o))
  <2>1. Tells(<<Plain("start")>>, <<>>, <<>>, <<>>, <<>>)
        /\ Tells(<<Plain("message_stop")>>, <<>>, <<>>, <<>>, <<>>)
    BY <1>1, OneTells
  <2> HIDE DEF content, thinking
  <2>2. Tells(<<Plain("start")>> \o thinking, <<>>, <<>>, Summary(o), <<>>)
    BY <1>2, <2>1, TellsNoMore
  <2>3. Tells((<<Plain("start")>> \o thinking) \o content, text, cs, Summary(o), <<r>>)
    BY <1>3, <2>2, TellsSummary
  <2>4. Tells(((<<Plain("start")>> \o thinking) \o content) \o <<Plain("message_stop")>>,
              text, cs, Summary(o), <<r>>)
    BY <2>1, <2>3, TellsNoMore
  <2>5. MessageBody(o) = ((<<Plain("start")>> \o thinking) \o content) \o <<Plain("message_stop")>>
    BY Zenon DEF MessageBody, content, thinking, blocks, at
  <2>6. QED BY <1>3, <2>4, <2>5, ValueFields, Zenon
<1>4. CASE ShowsText(o)
  <2>1. <<"text", at>> \in BlockName /\ <<"text", at>>[1] = "text"
    BY DEF BlockName
  <2>2. MessageText(o) \in Full
    BY AnswerTypes DEF MessageText
  <2> HIDE DEF at
  <2>3. PICK s : s = Block(<<"text", at>>, MessageText(o))
    OBVIOUS
  <2>4. Tells(s, <<MessageText(o)>>, <<>>, <<>>, <<>>)
    BY <2>1, <2>2, <2>3, BlockTells
  <2>5. Tells(<<Reason("finish", "end_turn")>>, <<>>, <<>>, <<>>, <<"end_turn">>)
    BY <1>1, OneTells
  <2>6. Tells(s \o <<Reason("finish", "end_turn")>>, <<MessageText(o)>>, <<>>, <<>>, <<"end_turn">>)
    BY <2>4, <2>5, TellsEnd
  <2>7. content = s \o <<Reason("finish", "end_turn")>>
    BY <1>4, <2>3, Zenon
  <2>8. MessageJson(o) = Value(<<MessageText(o)>>, <<>>, Summary(o), "end_turn")
    BY <1>4, Zenon DEF MessageJson
  <2> HIDE DEF content
  <2>9. Tells(content, <<MessageText(o)>>, <<>>, <<>>, <<"end_turn">>)
    BY <2>6, <2>7, Zenon
  <2>10. QED BY <1>3, <2>8, <2>9
<1>5. CASE ~ShowsText(o)
  <2>1. PICK c : c = [j \in 1..o.calls |-> CallPayload(j)]
    OBVIOUS
  <2>2. c \in Seq(Full) /\ Len(c) = o.calls /\ at \in Nat
    <3>1. o.calls \in Nat /\ [j \in 1..o.calls |-> CallPayload(j)] \in Seq(Full)
      <4>1. o.calls \in 0..2 /\ [j \in 1..o.calls |-> CallPayload(j)] \in Seq(Full)
        BY AnswerTypes, Zenon
      <4>2. QED BY <4>1
    <3>2. c \in Seq(Full) /\ Len(c) = o.calls
      BY <2>1, <3>1
    <3>3. at \in Nat
      OBVIOUS
    <3>4. QED BY <3>2, <3>3
  <2>3. blocks = FlattenSeq([j \in 1..Len(c) |-> Block(ToolCall(at + j - 1), c[j])])
    BY <2>1, <2>2
  <2> HIDE DEF at, blocks
  <2>4. Tells(blocks, <<>>, c, <<>>, <<>>)
    BY <2>2, <2>3, BlocksTell
  <2>5. Tells(<<Reason("finish", "tool_use")>>, <<>>, <<>>, <<>>, <<"tool_use">>)
    BY <1>1, OneTells
  <2>6. Tells(blocks \o <<Reason("finish", "tool_use")>>, <<>>, c, <<>>, <<"tool_use">>)
    BY <2>4, <2>5, TellsEnd
  <2>7. content = blocks \o <<Reason("finish", "tool_use")>>
    BY <1>5, Zenon
  <2>8. MessageJson(o) = Value(<<>>, c, Summary(o), "tool_use")
    BY <1>5, <2>1, Zenon DEF MessageJson
  <2> HIDE DEF content
  <2>9. Tells(content, <<>>, c, <<>>, <<"tool_use">>)
    BY <2>6, <2>7, Zenon
  <2>10. QED BY <1>3, <2>8, <2>9
<1>6. QED BY <1>4, <1>5

\* The built-in backend.
LEMMA BuiltInTells ==
    ASSUME NEW o \in Answers, BuiltInAnswer(o)
    PROVE  /\ IsStreamOf(StreamOfChat(BuiltInChat(o)), BuiltInChat(o))
           /\ IsStreamOf(StreamOfMessage(BuiltInMessage(o)), BuiltInMessage(o))
<1>1. PICK c, n : c = <<CallPayload(1)>> /\ n = <<TextPayload>>
  OBVIOUS
<1>2. CallPayload(1) \in Full /\ TextPayload \in Full
  BY DEF CallPayload, TextPayload, Full, Payload, Forms
<1>3. /\ c \in Seq(Full) /\ n \in Seq(Full) /\ Len(c) = 1 /\ Len(n) = 1 /\ c # <<>> /\ n # <<>>
      /\ c[1] = CallPayload(1) /\ n[1] = TextPayload
  BY <1>1, <1>2, SingleSeq
<1>4. {"role", "[DONE]", "call", "text", "start", "message_stop"} \subseteq Common
  BY DEF Common, Kinds
<1>5. {"tool_calls", "stop", "tool_use", "end_turn"} \subseteq Endings
  BY DEF Endings, Reasons
<1>6. ASSUME NEW r \in Endings PROVE Tells(<<Reason("finish", r)>>, <<>>, <<>>, <<>>, <<r>>)
  BY OneTells
<1>7. /\ Tells(<<Plain("role")>>, <<>>, <<>>, <<>>, <<>>) /\ Tells(<<Plain("[DONE]")>>, <<>>, <<>>, <<>>, <<>>)
      /\ Tells(<<Plain("start")>>, <<>>, <<>>, <<>>, <<>>)
      /\ Tells(<<Plain("message_stop")>>, <<>>, <<>>, <<>>, <<>>)
  BY <1>4, OneTells
<1>8. ASSUME NEW v, NEW a, NEW b, NEW r, v = Value(a, b, <<>>, r)
      PROVE  v.text = a /\ v.calls = b
  BY <1>8 DEF Value
<1>9. ASSUME NEW v, v = Value(<<>>, c, <<>>, "tool_calls")
      PROVE  IsStreamOf(StreamOfChat(v), v)
  <2>1. v.text = <<>> /\ v.calls = c
    BY <1>8, <1>9
  <2>2. PICK s : s = [j \in 1..Len(c) |-> Piece("call", ToolCall(j - 1), c[j])]
    OBVIOUS
  <2>3. Tells(s, <<>>, c, <<>>, <<>>)
    BY <1>3, <1>4, <2>2, PiecesTell
  <2>4. PICK t : t = s \o <<Reason("finish", "tool_calls")>>
    OBVIOUS
  <2>5. Tells(t, <<>>, c, <<>>, <<"tool_calls">>)
    BY <1>5, <1>6, <2>3, <2>4, TellsEnd
  <2>6. Tells(<<Plain("role")>> \o t, <<>>, c, <<>>, <<"tool_calls">>)
    BY <1>7, <2>5, TellsNoMore
  <2>7. Tells((<<Plain("role")>> \o t) \o <<Plain("[DONE]")>>, <<>>, c, <<>>, <<"tool_calls">>)
    BY <1>7, <2>6, TellsNoMore
  <2>8. StreamOfChat(v) = (<<Plain("role")>> \o t) \o <<Plain("[DONE]")>>
    BY <1>3, <2>1, <2>2, <2>4, Zenon DEF StreamOfChat
  <2>9. QED BY <1>9, <2>7, <2>8, ValueFields, Zenon
<1>10. ASSUME NEW v, v = Value(n, <<>>, <<>>, "stop")
       PROVE  IsStreamOf(StreamOfChat(v), v)
  <2>1. v.text = n /\ v.calls = <<>>
    BY <1>8, <1>10
  <2>2. PICK s : s = [j \in 1..Len(n) |-> Piece("text", Text, n[j])]
    OBVIOUS
  <2>3. Tells(s, n, <<>>, <<>>, <<>>)
    BY <1>3, <1>4, <2>2, PiecesTell
  <2>4. PICK t : t = s \o <<Reason("finish", "stop")>>
    OBVIOUS
  <2>5. Tells(t, n, <<>>, <<>>, <<"stop">>)
    BY <1>5, <1>6, <2>3, <2>4, TellsEnd
  <2>6. Tells(<<Plain("role")>> \o t, n, <<>>, <<>>, <<"stop">>)
    BY <1>7, <2>5, TellsNoMore
  <2>7. Tells((<<Plain("role")>> \o t) \o <<Plain("[DONE]")>>, n, <<>>, <<>>, <<"stop">>)
    BY <1>7, <2>6, TellsNoMore
  <2>8. StreamOfChat(v) = (<<Plain("role")>> \o t) \o <<Plain("[DONE]")>>
    BY <2>1, <2>2, <2>4, Zenon DEF StreamOfChat
  <2>9. QED BY <1>10, <2>7, <2>8, ValueFields, Zenon
<1>11. ASSUME NEW a, NEW b, NEW u, NEW w, NEW r \in Endings,
              Tells(u, a, <<>>, <<>>, <<>>), Tells(w, <<>>, b, <<>>, <<>>), a = <<>> \/ b = <<>>
       PROVE  Tells(((<<Plain("start")>> \o u) \o w) \o <<Reason("finish", r), Plain("message_stop")>>,
                    a, b, <<>>, <<r>>)
  <2>1. PICK x : x = <<Plain("start")>> \o u
    OBVIOUS
  <2>2. Tells(x, a, <<>>, <<>>, <<>>)
    BY <1>7, <1>11, <2>1, TellsNoMore
  <2>3. PICK y : y = x \o w
    OBVIOUS
  <2>4. Tells(y, a, b, <<>>, <<>>)
    <3>1. CASE a = <<>>
      BY <1>11, <2>2, <2>3, <3>1, TellsNoMore
    <3>2. CASE b = <<>>
      BY <1>11, <2>2, <2>3, <3>2, TellsNoMore
    <3>3. QED BY <1>11, <3>1, <3>2
  <2>5. PICK f, g : f = Reason("finish", r) /\ g = Plain("message_stop")
    OBVIOUS
  <2>6. Tells(<<f>> \o <<g>>, <<>>, <<>>, <<>>, <<r>>)
    BY <1>6, <1>7, <2>5, TellsNoMore
  <2>7. <<f, g>> = <<f>> \o <<g>>
    BY SmallJoins, Zenon DEF IsJoin
  <2>8. Tells(y \o <<f, g>>, a, b, <<>>, <<r>>)
    BY <2>4, <2>6, <2>7, TellsEnd
  <2>9. QED BY <2>1, <2>3, <2>5, <2>8, Zenon
<1>12. ASSUME NEW v, v = Value(<<>>, c, <<>>, "tool_use")
       PROVE  IsStreamOf(StreamOfMessage(v), v)
  <2>1. v.text = <<>> /\ v.calls = c
    BY <1>8, <1>12
  <2>2. PICK u, w : /\ u = FlattenSeq([j \in 1..Len(v.text) |-> Block(<<"text", j - 1>>, v.text[j])])
                    /\ w = FlattenSeq([j \in 1..Len(v.calls) |-> Block(ToolCall(Len(v.text) + j - 1), v.calls[j])])
    OBVIOUS
  <2>3. u = <<>>
    <3>1. [j \in 1..Len(v.text) |-> Block(<<"text", j - 1>>, v.text[j])] = <<>>
      BY <2>1
    <3>2. QED BY <2>2, <3>1, FlatOne
  <2>4. w = FlattenSeq([j \in 1..Len(c) |-> Block(ToolCall(0 + j - 1), c[j])])
    <3>1. Len(v.text) = 0
      BY <2>1
    <3>2. QED BY <2>1, <2>2, <3>1
  <2>5. Tells(w, <<>>, c, <<>>, <<>>)
    BY <1>3, <2>4, BlocksTell
  <2>6. Tells(u, <<>>, <<>>, <<>>, <<>>)
    BY <2>3, NothingTells
  <2>7. "tool_use" \in Endings
    BY <1>5
  <2>8. Tells(((<<Plain("start")>> \o u) \o w) \o <<Reason("finish", "tool_use"), Plain("message_stop")>>,
              <<>>, c, <<>>, <<"tool_use">>)
    BY <1>11, <2>5, <2>6, <2>7
  <2>9. StreamOfMessage(v)
        = ((<<Plain("start")>> \o u) \o w) \o <<Reason("finish", "tool_use"), Plain("message_stop")>>
    BY <1>3, <2>1, <2>2, Zenon DEF StreamOfMessage
  <2>10. QED BY <1>12, <2>8, <2>9, ValueFields, Zenon
<1>13. ASSUME NEW v, v = Value(n, <<>>, <<>>, "end_turn")
       PROVE  IsStreamOf(StreamOfMessage(v), v)
  <2>1. v.text = n /\ v.calls = <<>>
    BY <1>8, <1>13
  <2>2. PICK u, w : /\ u = FlattenSeq([j \in 1..Len(v.text) |-> Block(<<"text", j - 1>>, v.text[j])])
                    /\ w = FlattenSeq([j \in 1..Len(v.calls) |-> Block(ToolCall(Len(v.text) + j - 1), v.calls[j])])
    OBVIOUS
  <2>3. w = <<>>
    <3>1. [j \in 1..Len(v.calls) |-> Block(ToolCall(Len(v.text) + j - 1), v.calls[j])] = <<>>
      BY <2>1
    <3>2. QED BY <2>2, <3>1, FlatOne
  <2>4. u = Block(Text, TextPayload)
    <3>1. PICK x : x = Block(Text, TextPayload)
      OBVIOUS
    <3>2. \A j \in 1..1 : Block(<<"text", j - 1>>, v.text[j]) = x
      BY <1>3, <2>1, <3>1 DEF Text
    <3>3. [j \in 1..Len(v.text) |-> Block(<<"text", j - 1>>, v.text[j])] = <<x>>
      <4>1. PICK h : h = [j \in 1..1 |-> Block(<<"text", j - 1>>, v.text[j])]
        OBVIOUS
      <4>2. h = [j \in 1..1 |-> x]
        BY <3>2, <4>1
      <4>3. h = <<x>>
        BY <4>2
      <4>4. Len(v.text) = 1
        BY <1>3, <2>1
      <4>5. QED BY <4>1, <4>3, <4>4
    <3>4. QED BY <2>2, <3>1, <3>3, FlatOne
  <2>5. Tells(u, n, <<>>, <<>>, <<>>)
    <3>1. Text \in BlockName /\ Text[1] = "text"
      BY DEF Text, BlockName
    <3>2. QED BY <1>1, <1>2, <2>4, <3>1, BlockTells
  <2>6. Tells(w, <<>>, <<>>, <<>>, <<>>)
    BY <2>3, NothingTells
  <2>7. "end_turn" \in Endings
    BY <1>5
  <2>8. Tells(((<<Plain("start")>> \o u) \o w) \o <<Reason("finish", "end_turn"), Plain("message_stop")>>,
              n, <<>>, <<>>, <<"end_turn">>)
    BY <1>11, <2>5, <2>6, <2>7
  <2>9. StreamOfMessage(v)
        = ((<<Plain("start")>> \o u) \o w) \o <<Reason("finish", "end_turn"), Plain("message_stop")>>
    BY <2>1, <2>2, Zenon DEF StreamOfMessage
  <2>10. QED BY <1>13, <2>8, <2>9, ValueFields, Zenon
<1>14. CASE o.calls > 0
  <2>1. BuiltInChat(o) = Value(<<>>, c, <<>>, "tool_calls") /\ BuiltInMessage(o) = Value(<<>>, c, <<>>, "tool_use")
    BY <1>1, <1>14, Zenon DEF BuiltInChat, BuiltInMessage
  <2>2. QED BY <1>9, <1>12, <2>1
<1>15. CASE ~(o.calls > 0)
  <2>1. BuiltInChat(o) = Value(n, <<>>, <<>>, "stop") /\ BuiltInMessage(o) = Value(n, <<>>, <<>>, "end_turn")
    BY <1>1, <1>15, Zenon DEF BuiltInChat, BuiltInMessage
  <2>2. QED BY <1>10, <1>13, <2>1
<1>16. QED BY <1>14, <1>15

\* Of many events only one is a piece.
LEMMA OnePieceTells ==
    ASSUME NEW s \in Seq(ClientEvent), NEW i \in 1..Len(s), NEW p, p = s[i].p,
           \A j \in 1..Len(s) : j # i => MuteEvent(s[j])
    PROVE  /\ PieceOf(s[i], "text") => Tells(s, <<p>>, <<>>, <<>>, <<>>)
           /\ PieceOf(s[i], "call") => Tells(s, <<>>, <<p>>, <<>>, <<>>)
           /\ PieceOf(s[i], "thinking") => Tells(s, <<>>, <<>>, <<p>>, <<>>)
<1>1. Len(s) \in Nat /\ s[i] \in ClientEvent /\ p \in Payload
  <2>1. Len(s) \in Nat /\ s[i] \in ClientEvent
    OBVIOUS
  <2>2. ASSUME NEW e \in ClientEvent PROVE e.p \in Payload
    BY DEF ClientEvent
  <2>3. QED BY <2>1, <2>2
<1>2. \A j \in 1..Len(s) : j # i =>
         /\ TextOf[s[j]] = <<>> /\ CallsOf[s[j]] = <<>> /\ SummaryOf[s[j]] = <<>> /\ OfReasons[s[j]] = <<>>
         /\ s[j] \in NotKept
  BY EventSays
<1>3. <<p>> \in Seq(Payload) /\ <<>> \in Seq(Payload) /\ <<>> \in Seq(Endings)
  BY <1>1, SingleSeq
<1>4. ASSUME s[i] \in NotKept PROVE s \in Seq(NotKept)
  <2>1. \A j \in 1..Len(s) : s[j] \in NotKept
    BY <1>2, <1>4
  <2>2. QED BY <2>1, SeqOfType
<1>5. ASSUME NEW F, F[s[i]] = <<>>, \A j \in 1..Len(s) : j # i => F[s[j]] = <<>>
      PROVE  Flat(s, F) = <<>>
  BY <1>1, <1>5, FlatNone
<1>6. ASSUME NEW F, F[s[i]] = <<p>>, \A j \in 1..Len(s) : j # i => F[s[j]] = <<>>
      PROVE  Flat(s, F) = <<p>>
  BY <1>1, <1>6, FlatOnly
<1>7. PieceOf(s[i], "text") => Tells(s, <<p>>, <<>>, <<>>, <<>>)
  <2> HAVE PieceOf(s[i], "text")
  <2>1. /\ TextOf[s[i]] = <<p>> /\ CallsOf[s[i]] = <<>> /\ SummaryOf[s[i]] = <<>> /\ OfReasons[s[i]] = <<>>
        /\ s[i] \in NotKept
    BY EventSays, Zenon
  <2>2. Flat(s, TextOf) = <<p>> /\ Flat(s, CallsOf) = <<>> /\ Flat(s, SummaryOf) = <<>> /\ Flat(s, OfReasons) = <<>>
    BY <1>2, <1>5, <1>6, <2>1
  <2>3. QED BY <1>3, <1>4, <2>1, <2>2, Zenon DEF Tells
<1>8. PieceOf(s[i], "call") => Tells(s, <<>>, <<p>>, <<>>, <<>>)
  <2> HAVE PieceOf(s[i], "call")
  <2>1. /\ TextOf[s[i]] = <<>> /\ CallsOf[s[i]] = <<p>> /\ SummaryOf[s[i]] = <<>> /\ OfReasons[s[i]] = <<>>
        /\ s[i] \in NotKept
    BY EventSays, Zenon
  <2>2. Flat(s, TextOf) = <<>> /\ Flat(s, CallsOf) = <<p>> /\ Flat(s, SummaryOf) = <<>> /\ Flat(s, OfReasons) = <<>>
    BY <1>2, <1>5, <1>6, <2>1
  <2>3. QED BY <1>3, <1>4, <2>1, <2>2, Zenon DEF Tells
<1>9. PieceOf(s[i], "thinking") => Tells(s, <<>>, <<>>, <<p>>, <<>>)
  <2> HAVE PieceOf(s[i], "thinking")
  <2>1. /\ TextOf[s[i]] = <<>> /\ CallsOf[s[i]] = <<>> /\ SummaryOf[s[i]] = <<p>> /\ OfReasons[s[i]] = <<>>
        /\ s[i] \in NotKept
    BY EventSays, Zenon
  <2>2. Flat(s, TextOf) = <<>> /\ Flat(s, CallsOf) = <<>> /\ Flat(s, SummaryOf) = <<p>> /\ Flat(s, OfReasons) = <<>>
    BY <1>2, <1>5, <1>6, <2>1
  <2>3. QED BY <1>3, <1>4, <2>1, <2>2, Zenon DEF Tells
<1>10. QED BY <1>7, <1>8, <1>9

\* The output items of Responses.
Item == [t : {"thinking", "text", "call"}, p : Full]

\* What the payloads of the items of a type are.
OfItem(x, t) == IF x.t = t THEN <<x.p>> ELSE <<>>

LEMMA ItemTells ==
    ASSUME NEW x \in Item, NEW i \in Nat
    PROVE  Tells(ItemEvents(x, i), OfItem(x, "text"), OfItem(x, "call"), OfItem(x, "thinking"), <<>>)
<1>1. PICK b, p : b = <<x.t, i>> /\ p = x.p
  OBVIOUS
<1>2. b \in BlockName /\ b[1] = x.t /\ p \in Full /\ x.t \in {"thinking", "text", "call"}
  BY <1>1 DEF Item, BlockName
<1>3. p \in Payload /\ p[1] # 0
  BY <1>2 DEF Full
<1>4. {"added", "part", "text", "text.done", "part.done", "done", "args", "args.done"}
         \subseteq Kinds \ {"completed", "finish", "keepalive"}
  BY DEF Kinds
<1>5. /\ \A k \in {"added", "part", "text.done", "part.done", "done", "args.done"} : MuteEvent(About(k, b))
      /\ \A k \in {"text", "args", "done"} : PieceOf(Piece(k, b, p), b[1]) /\ Piece(k, b, p).p = p
  BY <1>2, <1>3, <1>4, EventForms
<1>6. \A e, t : MuteEvent(e) \/ PieceOf(e, t) => e \in ClientEvent
  BY DEF MuteEvent, PieceOf
<1>7. CASE x.t = "text"
  <2>1. PICK e1, e2, e3, e4, e5, e6 :
           /\ e1 = About("added", b) /\ e2 = About("part", b) /\ e3 = Piece("text", b, p)
           /\ e4 = About("text.done", b) /\ e5 = About("part.done", b) /\ e6 = About("done", b)
    OBVIOUS
  <2>2. /\ MuteEvent(e1) /\ MuteEvent(e2) /\ MuteEvent(e4) /\ MuteEvent(e5) /\ MuteEvent(e6)
        /\ PieceOf(e3, "text") /\ e3.p = p
    BY <1>2, <1>5, <1>7, <2>1
  <2>3. PICK s : s = <<e1, e2, e3, e4, e5, e6>>
    OBVIOUS
  <2>4. ItemEvents(x, i) = s
    BY <1>1, <1>7, <2>1, <2>3, Zenon DEF ItemEvents
  <2>5. s \in Seq(ClientEvent) /\ Len(s) = 6 /\ s[3] = e3
    BY <1>6, <2>2, <2>3
  <2>6. \A j \in 1..6 : j # 3 => MuteEvent(s[j])
    BY <2>2, <2>3
  <2>7. 3 \in 1..Len(s) /\ p = s[3].p
    BY <2>2, <2>5
  <2>8. Tells(s, <<p>>, <<>>, <<>>, <<>>)
    BY <2>2, <2>5, <2>6, <2>7, OnePieceTells
  <2>9. OfItem(x, "text") = <<p>> /\ OfItem(x, "call") = <<>> /\ OfItem(x, "thinking") = <<>>
    BY <1>1, <1>7 DEF OfItem
  <2>10. QED BY <2>4, <2>8, <2>9, Zenon
<1>8. CASE x.t = "call"
  <2>1. PICK e1, e2, e3, e4 :
           /\ e1 = About("added", b) /\ e2 = Piece("args", b, p)
           /\ e3 = About("args.done", b) /\ e4 = About("done", b)
    OBVIOUS
  <2>2. /\ MuteEvent(e1) /\ MuteEvent(e3) /\ MuteEvent(e4)
        /\ PieceOf(e2, "call") /\ e2.p = p
    BY <1>2, <1>5, <1>8, <2>1
  <2>3. PICK s : s = <<e1, e2, e3, e4>>
    OBVIOUS
  <2>4. ItemEvents(x, i) = s
    BY <1>1, <1>8, <2>1, <2>3 DEF ItemEvents
  <2>5. s \in Seq(ClientEvent) /\ Len(s) = 4 /\ s[2] = e2
    BY <1>6, <2>2, <2>3
  <2>6. \A j \in 1..4 : j # 2 => MuteEvent(s[j])
    BY <2>2, <2>3
  <2>7. 2 \in 1..Len(s) /\ p = s[2].p
    BY <2>2, <2>5
  <2>8. Tells(s, <<>>, <<p>>, <<>>, <<>>)
    BY <2>2, <2>5, <2>6, <2>7, OnePieceTells
  <2>9. OfItem(x, "text") = <<>> /\ OfItem(x, "call") = <<p>> /\ OfItem(x, "thinking") = <<>>
    BY <1>1, <1>8 DEF OfItem
  <2>10. QED BY <2>4, <2>8, <2>9, Zenon
<1>9. CASE x.t = "thinking"
  <2>1. PICK e1, e2 : e1 = About("added", b) /\ e2 = Piece("done", b, p)
    OBVIOUS
  <2>2. MuteEvent(e1) /\ PieceOf(e2, "thinking") /\ e2.p = p
    BY <1>2, <1>5, <1>9, <2>1
  <2>3. PICK s : s = <<e1, e2>>
    OBVIOUS
  <2>4. ItemEvents(x, i) = s
    BY <1>1, <1>9, <2>1, <2>3 DEF ItemEvents
  <2>5. s \in Seq(ClientEvent) /\ Len(s) = 2 /\ s[2] = e2
    BY <1>6, <2>2, <2>3
  <2>6. \A j \in 1..2 : j # 2 => MuteEvent(s[j])
    BY <2>2, <2>3
  <2>7. 2 \in 1..Len(s) /\ p = s[2].p
    BY <2>2, <2>5
  <2>8. Tells(s, <<>>, <<>>, <<p>>, <<>>)
    BY <2>2, <2>5, <2>6, <2>7, OnePieceTells
  <2>9. OfItem(x, "text") = <<>> /\ OfItem(x, "call") = <<>> /\ OfItem(x, "thinking") = <<p>>
    BY <1>1, <1>9 DEF OfItem
  <2>10. QED BY <2>4, <2>8, <2>9, Zenon
<1>10. QED BY <1>2, <1>7, <1>8, <1>9

\* Events that were numbered tell the same.
IsNumbered(t, s, f) ==
    f \in [1..Len(s) -> Nat] /\ t = [j \in 1..Len(s) |-> [s[j] EXCEPT !.q = f[j]]]

LEMMA NumberedTells ==
    ASSUME NEW s, NEW a, NEW b, NEW c, NEW d, Tells(s, a, b, c, d), NEW f, NEW t, IsNumbered(t, s, f)
    PROVE  Tells(t, a, b, c, d)
<1>1. f \in [1..Len(s) -> Nat] /\ t = [j \in 1..Len(s) |-> [s[j] EXCEPT !.q = f[j]]]
  BY DEF IsNumbered
<1>2. ASSUME NEW e \in ClientEvent, NEW q \in Nat, NEW g, g = [e EXCEPT !.q = q]
      PROVE  /\ g \in ClientEvent /\ g.k = e.k /\ g.b = e.b /\ g.p = e.p
             /\ e \in NotKept => g \in NotKept
  BY <1>2 DEF ClientEvent, NotKept
<1>3. ASSUME NEW e \in ClientEvent, NEW g \in ClientEvent, g.k = e.k, g.b = e.b, g.p = e.p
      PROVE  /\ TextOf[g] = TextOf[e] /\ CallsOf[g] = CallsOf[e] /\ SummaryOf[g] = SummaryOf[e]
             /\ OfReasons[g] = OfReasons[e]
  <2>1. \A blocks : OfBlocks(blocks)[g] = OfBlocks(blocks)[e]
    BY <1>3 DEF OfBlocks
  <2>2. OfReasons[g] = OfReasons[e]
    BY <1>3 DEF OfReasons
  <2>3. QED BY <2>1, <2>2, Zenon DEF TextOf, CallsOf, SummaryOf
<1>4. ASSUME NEW j \in 1..Len(s)
      PROVE  /\ t[j] \in ClientEvent /\ t[j] \in NotKept
             /\ TextOf[s[j]] = TextOf[t[j]] /\ CallsOf[s[j]] = CallsOf[t[j]]
             /\ SummaryOf[s[j]] = SummaryOf[t[j]] /\ OfReasons[s[j]] = OfReasons[t[j]]
  <2>1. s[j] \in ClientEvent /\ s[j] \in NotKept /\ f[j] \in Nat
    <3>1. s \in Seq(ClientEvent) /\ s \in Seq(NotKept)
      BY DEF Tells
    <3>2. QED BY <1>1, <3>1
  <2>2. PICK e, g : e = s[j] /\ g = t[j]
    OBVIOUS
  <2>3. g = [e EXCEPT !.q = f[j]]
    BY <1>1, <2>2
  <2>4. e \in ClientEvent /\ e \in NotKept
    BY <2>1, <2>2
  <2>5. g \in ClientEvent /\ g \in NotKept /\ g.k = e.k /\ g.b = e.b /\ g.p = e.p
    BY <1>2, <2>1, <2>3, <2>4
  <2>6. /\ TextOf[g] = TextOf[e] /\ CallsOf[g] = CallsOf[e] /\ SummaryOf[g] = SummaryOf[e]
        /\ OfReasons[g] = OfReasons[e]
    BY <1>3, <2>4, <2>5
  <2>7. QED BY <2>2, <2>5, <2>6
<1>5. Len(t) = Len(s) /\ Len(s) \in Nat
  BY <1>1 DEF Tells
<1>6. t \in Seq(ClientEvent) /\ t \in Seq(NotKept)
  BY <1>1, <1>4, <1>5
<1>7. /\ Flat(s, TextOf) = Flat(t, TextOf) /\ Flat(s, CallsOf) = Flat(t, CallsOf)
      /\ Flat(s, SummaryOf) = Flat(t, SummaryOf) /\ Flat(s, OfReasons) = Flat(t, OfReasons)
  BY <1>4, <1>5, FlatSame
<1>8. QED BY <1>6, <1>7, Zenon DEF Tells

\* What many parts tell is what each tells, flattened.
LEMMA PartsTell ==
    ASSUME NEW ss \in Seq(Seq(ClientEvent)), NEW A, NEW B, NEW C,
           \A j \in 1..Len(ss) : Tells(ss[j], A[j], B[j], C[j], <<>>)
    PROVE  Tells(FlattenSeq(ss), FlattenSeq([j \in 1..Len(ss) |-> A[j]]),
                 FlattenSeq([j \in 1..Len(ss) |-> B[j]]), FlattenSeq([j \in 1..Len(ss) |-> C[j]]), <<>>)
<1>1. PICK aa, bb, cc, dd :
         /\ aa = [j \in 1..Len(ss) |-> A[j]] /\ bb = [j \in 1..Len(ss) |-> B[j]]
         /\ cc = [j \in 1..Len(ss) |-> C[j]] /\ dd = [j \in 1..Len(ss) |-> <<>>]
  OBVIOUS
<1>2. Len(ss) \in Nat
  OBVIOUS
<1>3. \A j \in 1..Len(ss) : A[j] \in Seq(Payload) /\ B[j] \in Seq(Payload) /\ C[j] \in Seq(Payload)
  BY DEF Tells
<1>4. aa \in Seq(Seq(Payload)) /\ bb \in Seq(Seq(Payload)) /\ cc \in Seq(Seq(Payload))
  BY <1>1, <1>2, <1>3
<1>5. /\ FlattenSeq(aa) \in Seq(Payload) /\ FlattenSeq(bb) \in Seq(Payload)
      /\ FlattenSeq(cc) \in Seq(Payload)
  BY <1>4, FlatType
<1>6. ss \in Seq(Seq(NotKept))
  <2>1. \A j \in 1..Len(ss) : ss[j] \in Seq(NotKept)
    BY DEF Tells
  <2> DEFINE S == Seq(NotKept)
             T == Seq(ClientEvent)
  <2> HIDE DEF S, T
  <2>2. ss \in Seq(T) /\ \A j \in 1..Len(ss) : ss[j] \in S
    BY <2>1, Zenon DEF S, T
  <2>3. ss \in Seq(S)
    BY <2>2, SeqOfType
  <2>4. QED BY <2>3 DEF S
<1>7. FlattenSeq(ss) \in Seq(NotKept) /\ FlattenSeq(ss) \in Seq(ClientEvent)
  BY <1>6, FlatType
<1>8. \A j \in 1..Len(ss) : /\ Flat(ss[j], TextOf) = aa[j] /\ Flat(ss[j], CallsOf) = bb[j]
                            /\ Flat(ss[j], SummaryOf) = cc[j] /\ Flat(ss[j], OfReasons) = dd[j]
  BY <1>1 DEF Tells
<1>9. /\ aa = [j \in 1..Len(ss) |-> Flat(ss[j], TextOf)]
      /\ bb = [j \in 1..Len(ss) |-> Flat(ss[j], CallsOf)]
      /\ cc = [j \in 1..Len(ss) |-> Flat(ss[j], SummaryOf)]
      /\ dd = [j \in 1..Len(ss) |-> Flat(ss[j], OfReasons)]
  BY <1>1, <1>8
<1>10. /\ Flat(FlattenSeq(ss), TextOf) = FlattenSeq([j \in 1..Len(ss) |-> Flat(ss[j], TextOf)])
       /\ Flat(FlattenSeq(ss), CallsOf) = FlattenSeq([j \in 1..Len(ss) |-> Flat(ss[j], CallsOf)])
       /\ Flat(FlattenSeq(ss), SummaryOf) = FlattenSeq([j \in 1..Len(ss) |-> Flat(ss[j], SummaryOf)])
       /\ Flat(FlattenSeq(ss), OfReasons) = FlattenSeq([j \in 1..Len(ss) |-> Flat(ss[j], OfReasons)])
  BY MapTypes, FlatFlat
<1>11. Flat(FlattenSeq(ss), TextOf) = FlattenSeq(aa)
  BY <1>9, <1>10, Zenon
<1>12. Flat(FlattenSeq(ss), CallsOf) = FlattenSeq(bb)
  BY <1>9, <1>10, Zenon
<1>13. Flat(FlattenSeq(ss), SummaryOf) = FlattenSeq(cc)
  BY <1>9, <1>10, Zenon
<1>14. Flat(FlattenSeq(ss), OfReasons) = <<>>
  <2>1. Flat(FlattenSeq(ss), OfReasons) = FlattenSeq(dd)
    BY <1>9, <1>10, Zenon
  <2>2. PICK G : G = [j \in 1..Len(ss) |-> <<>>]
    OBVIOUS
  <2>3. PICK t : t = [j \in 1..Len(ss) |-> j]
    OBVIOUS
  <2>4. Len(t) = Len(ss) /\ \A j \in 1..Len(t) : G[t[j]] = <<>>
    BY <1>2, <2>2, <2>3
  <2>5. Flat(t, G) = <<>>
    BY <1>2, <2>4, FlatNone
  <2>6. [j \in 1..Len(t) |-> G[t[j]]] = dd
    BY <1>1, <2>4
  <2>7. QED BY <2>1, <2>5, <2>6 DEF Flat
<1>15. <<>> \in Seq(Endings)
  OBVIOUS
<1>16. QED BY <1>1, <1>5, <1>7, <1>11, <1>12, <1>13, <1>14, <1>15, Zenon DEF Tells

\* Responses, and the same on a WebSocket.
LEMMA ResponseTells ==
    ASSUME NEW o \in Answers
    PROVE  /\ IsStreamOf(ResponseBody(o), ResponseJson(o))
           /\ IsStreamOf(ResponseEvents(o), ResponseJson(o))
<1>1. PICK items : items = ResponseItems(o)
  OBVIOUS
<1>2. items \in Seq(Item)
  <2>1. PICK a, b : /\ a = IF o.summary THEN <<[t |-> "thinking", p |-> SummaryPayload]>> ELSE <<>>
                    /\ b = IF ~IsTextCall(o) /\ ShowsText(o) THEN <<[t |-> "text", p |-> TextPayload]>>
                           ELSE [j \in 1..Len(ToldCalls(o)) |-> [t |-> "call", p |-> ToldCalls(o)[j]]]
    OBVIOUS
  <2>2. ASSUME NEW k \in {"thinking", "text", "call"}, NEW p \in Full PROVE [t |-> k, p |-> p] \in Item
    BY DEF Item
  <2>3. a \in Seq(Item)
    <3>1. [t |-> "thinking", p |-> SummaryPayload] \in Item
      BY <2>2, AnswerTypes
    <3>2. <<[t |-> "thinking", p |-> SummaryPayload]>> \in Seq(Item) /\ <<>> \in Seq(Item)
      BY <3>1, SingleSeq
    <3>3. QED BY <2>1, <3>2, Zenon
  <2>4. b \in Seq(Item)
    <3>1. <<[t |-> "text", p |-> TextPayload]>> \in Seq(Item)
      <4>1. [t |-> "text", p |-> TextPayload] \in Item
        BY <2>2, AnswerTypes
      <4>2. QED BY <4>1, SingleSeq
    <3>2. [j \in 1..Len(ToldCalls(o)) |-> [t |-> "call", p |-> ToldCalls(o)[j]]] \in Seq(Item)
      <4>1. PICK c : c = ToldCalls(o)
        OBVIOUS
      <4>2. c \in Seq(Full)
        BY <4>1, AnswerTypes
      <4>3. \A j \in 1..Len(c) : [t |-> "call", p |-> c[j]] \in Item
        BY <2>2, <4>2
      <4>4. [j \in 1..Len(c) |-> [t |-> "call", p |-> c[j]]] \in Seq(Item)
        BY <4>2, <4>3
      <4>5. QED BY <4>1, <4>4
    <3>3. QED BY <2>1, <3>1, <3>2, Zenon
  <2>5. items = a \o b
    BY <1>1, <2>1, Zenon DEF ResponseItems
  <2>6. QED BY <2>3, <2>4, <2>5, ConcatProperties
<1>3. Len(items) \in Nat /\ \A j \in 1..Len(items) : items[j] \in Item /\ j - 1 \in Nat
  BY <1>2
<1>4. PICK ss : ss = [j \in 1..Len(items) |-> ItemEvents(items[j], j - 1)]
  OBVIOUS
<1>5. PICK A, B, C : /\ A = [j \in 1..Len(items) |-> OfItem(items[j], "text")]
                     /\ B = [j \in 1..Len(items) |-> OfItem(items[j], "call")]
                     /\ C = [j \in 1..Len(items) |-> OfItem(items[j], "thinking")]
  OBVIOUS
<1>6. Len(ss) = Len(items)
  BY <1>3, <1>4
<1>7. \A j \in 1..Len(ss) : Tells(ss[j], A[j], B[j], C[j], <<>>)
  BY <1>3, <1>4, <1>5, <1>6, ItemTells
<1>8. ss \in Seq(Seq(ClientEvent))
  <2>1. \A j \in 1..Len(ss) : ss[j] \in Seq(ClientEvent)
    BY <1>7 DEF Tells
  <2>2. QED BY <1>3, <1>4, <1>6, <2>1
<1>9. PICK text, calls, summary :
         /\ text = Payloads(items, "text") /\ calls = Payloads(items, "call")
         /\ summary = Payloads(items, "thinking")
  OBVIOUS
<1>10. /\ FlattenSeq([j \in 1..Len(ss) |-> A[j]]) = text
       /\ FlattenSeq([j \in 1..Len(ss) |-> B[j]]) = calls
       /\ FlattenSeq([j \in 1..Len(ss) |-> C[j]]) = summary
  <2>1. /\ [j \in 1..Len(ss) |-> A[j]] = A /\ [j \in 1..Len(ss) |-> B[j]] = B
        /\ [j \in 1..Len(ss) |-> C[j]] = C
    BY <1>5, <1>6
  <2>2. text = FlattenSeq(A) /\ calls = FlattenSeq(B) /\ summary = FlattenSeq(C)
    BY <1>5, <1>9, Zenon DEF Payloads, OfItem
  <2>3. QED BY <2>1, <2>2, Zenon
<1>11. PICK events : events = FlattenSeq(ss)
  OBVIOUS
<1>12. Tells(events, text, calls, summary, <<>>)
  <2>1. Tells(FlattenSeq(ss), FlattenSeq([j \in 1..Len(ss) |-> A[j]]),
              FlattenSeq([j \in 1..Len(ss) |-> B[j]]), FlattenSeq([j \in 1..Len(ss) |-> C[j]]), <<>>)
    BY <1>7, <1>8, PartsTell
  <2>2. QED BY <1>10, <1>11, <2>1, Zenon
<1>13. PICK s : s = [j \in 1..Len(events) |-> [events[j] EXCEPT !.q = j]]
  OBVIOUS
<1>14. Tells(s, text, calls, summary, <<>>)
  <2>1. PICK f : f = [j \in 1..Len(events) |-> j]
    OBVIOUS
  <2>2. f \in [1..Len(events) -> Nat] /\ \A j \in 1..Len(events) : f[j] = j
    BY <2>1
  <2>3. IsNumbered(s, events, f)
    BY <1>13, <2>2 DEF IsNumbered
  <2>4. QED BY <1>12, <2>3, NumberedTells
<1>15. PICK x, y : x = [Plain("completed") EXCEPT !.q = LastNumber] /\ y = Plain("completed")
  OBVIOUS
<1>16. Tells(<<x>>, <<>>, <<>>, <<>>, <<"completed">>)
  <2>1. Tells(<<y>>, <<>>, <<>>, <<>>, <<"completed">>)
    BY <1>15, OneTells
  <2>2. PICK yy, f : yy = <<y>> /\ f = [j \in 1..1 |-> LastNumber]
    OBVIOUS
  <2>3. Len(yy) = 1 /\ f \in [1..Len(yy) -> Nat] /\ f[1] = LastNumber /\ yy[1] = y
    <3>1. LastNumber \in Nat
      BY SMT DEF LastNumber
    <3>2. QED BY <2>2, <3>1
  <2>4. PICK h : h = [j \in 1..Len(yy) |-> [yy[j] EXCEPT !.q = f[j]]]
    OBVIOUS
  <2>5. Tells(h, <<>>, <<>>, <<>>, <<"completed">>)
    <3>1. Tells(yy, <<>>, <<>>, <<>>, <<"completed">>)
      BY <2>1, <2>2
    <3>2. IsNumbered(h, yy, f)
      BY <2>3, <2>4 DEF IsNumbered
    <3>3. QED BY <3>1, <3>2, NumberedTells
  <2>6. h = <<x>>
    <3>1. x = [y EXCEPT !.q = LastNumber]
      BY <1>15
    <3>2. \A j \in 1..1 : [yy[j] EXCEPT !.q = f[j]] = x
      BY <2>3, <3>1
    <3>3. h = [j \in 1..1 |-> x]
      BY <2>3, <2>4, <3>2
    <3>4. QED BY <3>3
  <2>7. QED BY <2>5, <2>6
<1>17. "created" \in Common /\ "[DONE]" \in Common
  BY DEF Common, Kinds
<1>18. Tells(<<Plain("created")>>, <<>>, <<>>, <<>>, <<>>) /\ Tells(<<Plain("[DONE]")>>, <<>>, <<>>, <<>>, <<>>)
  BY <1>17, OneTells
<1>19. Tells(<<Plain("created")>> \o s, text, calls, summary, <<>>)
  BY <1>14, <1>18, TellsNoMore
<1>20. Tells((<<Plain("created")>> \o s) \o <<x>>, text, calls, summary, <<"completed">>)
  BY <1>16, <1>19, TellsEnd
<1>21. ResponseEvents(o) = (<<Plain("created")>> \o s) \o <<x>>
  BY <1>1, <1>4, <1>11, <1>13, <1>15, Zenon DEF ResponseEvents
<1>22. ResponseJson(o) = Value(text, calls, summary, "completed")
  BY <1>1, <1>9, Zenon DEF ResponseJson
<1>23. Tells(ResponseEvents(o), text, calls, summary, <<"completed">>)
  BY <1>20, <1>21, Zenon
<1>24. Tells(ResponseEvents(o) \o <<Plain("[DONE]")>>, text, calls, summary, <<"completed">>)
  BY <1>18, <1>23, TellsNoMore
<1>25. QED BY <1>22, <1>23, <1>24, ValueFields, Zenon DEF ResponseBody

\* The stream of a complete answer says what its JSON value says.
LEMMA AnswerTells ==
    ASSUME NEW p \in Protocols, NEW o \in Answers, p \in BuiltIn => BuiltInAnswer(o)
    PROVE  IsStreamOf(EventsOf(p, o), Json(p, o))
<1>1. /\ p \in {"builtin_chat", "builtin_messages", "completion", "chat", "legacy", "messages",
                "responses", "websocket"}
      /\ p \in {"builtin_chat", "builtin_messages"} => BuiltInAnswer(o)
      /\ (p = "legacy") \in BOOLEAN
  BY DEF Protocols, BuiltIn
<1>2. CASE p = "completion"
  BY <1>2, CompletionTells DEF EventsOf, Json
<1>3. CASE p \in {"chat", "legacy"}
  <2>1. EventsOf(p, o) = ChatBody(o, p = "legacy") /\ Json(p, o) = ChatJson(o, p = "legacy")
    BY <1>3 DEF EventsOf, Json
  <2>2. QED BY <1>1, <2>1, ChatTells
<1>4. CASE p = "messages"
  BY <1>4, MessageTells DEF EventsOf, Json
<1>5. CASE p = "builtin_chat"
  <2>1. EventsOf(p, o) = StreamOfChat(BuiltInChat(o)) /\ Json(p, o) = BuiltInChat(o)
    BY <1>5 DEF EventsOf, Json
  <2>2. QED BY <1>1, <1>5, <2>1, BuiltInTells
<1>6. CASE p = "builtin_messages"
  <2>1. EventsOf(p, o) = StreamOfMessage(BuiltInMessage(o)) /\ Json(p, o) = BuiltInMessage(o)
    BY <1>6 DEF EventsOf, Json
  <2>2. QED BY <1>1, <1>6, <2>1, BuiltInTells
<1>7. CASE p = "responses"
  BY <1>7, ResponseTells DEF EventsOf, Json
<1>8. CASE p = "websocket"
  BY <1>8, ResponseTells DEF EventsOf, Json
<1>9. QED BY <1>1, <1>2, <1>3, <1>4, <1>5, <1>6, <1>7, <1>8

-----------------------------------------------------------------------------
(* The stream of a complete answer.                                        *)

\* An event joins what was sent when it no longer waits.
LEMMA Moved ==
    ASSUME NEW T, NEW kept \in Seq(T), NEW rest \in Seq(T), NEW pending \in Seq(T), pending # <<>>,
           NEW sent, IsJoin(sent, kept, rest), NEW all, IsJoin(all, rest, pending)
    PROVE  /\ Append(rest, Head(pending)) \in Seq(T) /\ Tail(pending) \in Seq(T)
           /\ IsJoin(Append(sent, Head(pending)), kept, Append(rest, Head(pending)))
           /\ IsJoin(all, Append(rest, Head(pending)), Tail(pending))
<1>1. PICK e, t, h, r : e = Head(pending) /\ t = Tail(pending) /\ h = <<e>> /\ r = Append(rest, e)
  OBVIOUS
<1>2. e \in T /\ t \in Seq(T)
  BY <1>1, HeadTailProperties
<1>3. h \in Seq(T) /\ Len(h) = 1 /\ h[1] = e
  BY <1>1, <1>2
<1>4. pending = h \o t
  BY <1>1, <1>2
<1>5. r \in Seq(T) /\ r = rest \o h
  BY <1>1, <1>2, AppendIsConcat, AppendProperties
<1>6. all = r \o t
  <2>1. (rest \o h) \o t = rest \o (h \o t)
    BY <1>2, <1>3, ConcatAssociative
  <2>2. QED BY <1>4, <1>5, <2>1, Zenon DEF IsJoin
<1>7. Append(sent, e) = kept \o r
  <2>1. sent \in Seq(T)
    BY ConcatProperties DEF IsJoin
  <2>2. Append(sent, e) = sent \o h
    BY <1>1, <1>2, <2>1, AppendIsConcat
  <2>3. (kept \o rest) \o h = kept \o (rest \o h)
    BY <1>3, ConcatAssociative
  <2>4. QED BY <1>5, <2>2, <2>3, Zenon DEF IsJoin
<1>8. QED BY <1>1, <1>2, <1>5, <1>6, <1>7, Zenon DEF IsJoin

\* Keepalives tell nothing.
Pings == {e \in ClientEvent : e.k = "keepalive" /\ e.p[1] = 0}

\* The answer o, of which rest was sent after the keepalives.
AnswerOnItsWay(o, kept, rest) ==
    /\ o \in Complete /\ (protocol \in BuiltIn => BuiltInAnswer(o))
    /\ kept \in Seq(Pings) /\ rest \in Seq(ClientEvent)
    /\ IsJoin(out, kept, rest) /\ IsJoin(EventsOf(protocol, o), rest, stream.pending)
    /\ kept # <<>> => protocol = "websocket"

\* The stream of a complete answer, which reads no upstream and is not stored.
CompleteInv ==
    /\ upstream = NoUpstream /\ protocol \in Protocols /\ ready = <<>> /\ stored = NotStored
    /\ stream = Ended(Fresh(stream.pending)) /\ stream.pending \in Seq(ClientEvent)
    /\ client = "ended" => stream.pending = <<>>
    /\ \E o, kept, rest : AnswerOnItsWay(o, kept, rest)

\* A stream keeps its upstream, or has none.
SameInv == (WasLive /\ "kind" \in DOMAIN upstream) \/ CompleteInv

LEMMA AnswerEvents ==
    ASSUME NEW p \in Protocols, NEW o \in Complete, p \in BuiltIn => BuiltInAnswer(o)
    PROVE  EventsOf(p, o) \in Seq(ClientEvent) /\ EventsOf(p, o) \in Seq(NotKept)
<1>1. IsStreamOf(EventsOf(p, o), Json(p, o))
  BY CompleteAssumption, AnswerTells
<1>2. QED BY <1>1, Zenon DEF IsStreamOf, Tells

LEMMA FreshFields ==
    ASSUME NEW x, NEW y
    PROVE  /\ Ended(Fresh(x)).pending = x /\ Ended(Fresh(x)).finished = TRUE
           /\ [Ended(Fresh(x)) EXCEPT !.pending = y] = Ended(Fresh(y))
<1> DEFINE Are(s, a, b, c, d, e, f, g, h, i) ==
              s = [pending |-> a, usage |-> b, text |-> c, calls |-> d, blocks |-> e, seq |-> f,
                   started |-> g, tools |-> h, finished |-> i]
<1>1. ASSUME NEW a, NEW b, NEW c, NEW d, NEW e, NEW f, NEW g, NEW h, NEW i, NEW j,
             NEW s, Are(s, a, b, c, d, e, f, g, h, i)
      PROVE  /\ Are([s EXCEPT !.finished = j], a, b, c, d, e, f, g, h, j)
             /\ Are([s EXCEPT !.pending = j], j, b, c, d, e, f, g, h, i)
             /\ s.pending = a /\ s.finished = i
  BY <1>1
<1>2. ASSUME NEW z PROVE Are(Fresh(z), z, FALSE, <<>>, <<>>, {}, 0, FALSE, FALSE, FALSE)
  BY Zenon DEF Fresh
<1>3. ASSUME NEW r, NEW s, NEW a, NEW b, NEW c, NEW d, NEW e, NEW f, NEW g, NEW h, NEW i,
             Are(r, a, b, c, d, e, f, g, h, i), Are(s, a, b, c, d, e, f, g, h, i)
      PROVE  r = s
  BY <1>3, Zenon
<1> HIDE DEF Are
<1>4. ASSUME NEW z PROVE Are(Ended(Fresh(z)), z, FALSE, <<>>, <<>>, {}, 0, FALSE, FALSE, TRUE)
  BY <1>1, <1>2, Zenon DEF Ended
<1>5. Are([Ended(Fresh(x)) EXCEPT !.pending = y], y, FALSE, <<>>, <<>>, {}, 0, FALSE, FALSE, TRUE)
  BY <1>1, <1>4, Zenon
<1>6. Ended(Fresh(x)).pending = x /\ Ended(Fresh(x)).finished = TRUE
  <2>1. PICK s : s = Ended(Fresh(x))
    OBVIOUS
  <2>2. s = [pending |-> x, usage |-> FALSE, text |-> <<>>, calls |-> <<>>, blocks |-> {}, seq |-> 0,
             started |-> FALSE, tools |-> FALSE, finished |-> TRUE]
    BY <1>4, <2>1, Zenon DEF Are
  <2>3. s.pending = x /\ s.finished = TRUE
    BY <2>2
  <2>4. QED BY <2>1, <2>3, Zenon
<1>7. QED BY <1>3, <1>4, <1>5, <1>6, Zenon

LEMMA SameStart == StreamsInit => SameInv
<1> SUFFICES ASSUME StreamsInit PROVE SameInv
  OBVIOUS
<1>1. ASSUME NEW kind \in {"openai", "anthropic"},
             upstream = [NoUpstream EXCEPT !.kind = kind, !.state = "open"]
      PROVE  SameInv
  BY <1>1 DEF SameInv, WasLive, NoUpstream
<1>2. ASSUME NEW texts, NEW calls, NEW usage, upstream = Whole(texts, calls, usage)
      PROVE  SameInv
  BY <1>2 DEF SameInv, WasLive, Whole
<1>3. ASSUME NEW o \in Complete, protocol \in Protocols, protocol \in BuiltIn => BuiltInAnswer(o),
             stream = Ended(Fresh(EventsOf(protocol, o))), upstream = NoUpstream, ready = <<>>,
             out = <<>>, client = "reads", stored = NotStored
      PROVE  SameInv
  <2>1. EventsOf(protocol, o) \in Seq(ClientEvent)
    BY <1>3, AnswerEvents
  <2>2. stream.pending = EventsOf(protocol, o) /\ stream = Ended(Fresh(stream.pending))
    BY <1>3, FreshFields, Zenon
  <2>3. PICK b, e : b = EventsOf(protocol, o) /\ e = <<>>
    OBVIOUS
  <2>4. e \in Seq(Pings) /\ e \in Seq(ClientEvent) /\ IsJoin(out, e, e) /\ IsJoin(b, e, b)
    <3>1. b \in Seq(ClientEvent) /\ e \in Seq(ClientEvent)
      BY <2>1, <2>3
    <3>2. e \o b = b /\ e \o e = e
      BY <2>3, <3>1, ConcatEmptySeq
    <3>3. IsJoin(out, e, e) /\ IsJoin(b, e, b)
      BY <1>3, <2>3, <3>2, Zenon DEF IsJoin
    <3>4. QED BY <2>3, <3>1, <3>3
  <2>5. AnswerOnItsWay(o, e, e)
    BY <1>3, <2>2, <2>3, <2>4, Zenon DEF AnswerOnItsWay
  <2>6. CompleteInv
    BY <1>3, <2>1, <2>2, <2>5, Zenon DEF CompleteInv
  <2>7. QED BY <2>6 DEF SameInv
<1>4. QED BY <1>1, <1>2, <1>3, Zenon DEF StreamsInit

LEMMA SameSteps == SameInv /\ [StreamsNext]_streamVars => SameInv'
<1> SUFFICES ASSUME SameInv, [StreamsNext]_streamVars PROVE SameInv'
  OBVIOUS
<1>1. CASE WasLive /\ "kind" \in DOMAIN upstream
  <2>1. upstream'.kind = upstream.kind /\ "kind" \in DOMAIN upstream'
    <3>1. CASE UNCHANGED upstream
      BY <1>1, <3>1
    <3>2. ASSUME NEW f, NEW n PROVE Counted(f, n).kind = upstream.kind /\ "kind" \in DOMAIN Counted(f, n)
      BY <1>1 DEF Counted
    <3>3. CASE Close
      <4>1. /\ [upstream EXCEPT !.state = "closed"].kind = upstream.kind
            /\ "kind" \in DOMAIN [upstream EXCEPT !.state = "closed"]
        BY <1>1
      <4>2. ASSUME NEW u, "kind" \in DOMAIN u
            PROVE  [u EXCEPT !.state = "closed"].kind = u.kind /\ "kind" \in DOMAIN [u EXCEPT !.state = "closed"]
        BY <4>2
      <4>3. \/ upstream' = [upstream EXCEPT !.state = "closed"]
            \/ upstream' = [Counted(buffer.part.f, upstream.sent + 1) EXCEPT !.state = "closed"]
        BY <3>3, Zenon DEF Close
      <4>4. PICK u : u = Counted(buffer.part.f, upstream.sent + 1)
        OBVIOUS
      <4>5. u.kind = upstream.kind /\ "kind" \in DOMAIN u
        BY <3>2, <4>4, Zenon
      <4>6. CASE upstream' = [u EXCEPT !.state = "closed"]
        <5>1. [u EXCEPT !.state = "closed"].kind = u.kind /\ "kind" \in DOMAIN [u EXCEPT !.state = "closed"]
          BY <4>2, <4>5
        <5>2. QED BY <4>5, <4>6, <5>1
      <4>7. QED BY <4>1, <4>3, <4>4, <4>6, Zenon
    <3>4. CASE Break
      BY <1>1, <3>4 DEF Break
    <3>5. CASE SendTail
      BY <3>2, <3>5, Zenon DEF SendTail
    <3>6. ASSUME NEW f, SendFrame(f) PROVE upstream'.kind = upstream.kind /\ "kind" \in DOMAIN upstream'
      BY <3>2, <3>6, Zenon DEF SendFrame
    <3>7. ASSUME NEW f, SendHead(f) PROVE upstream'.kind = upstream.kind /\ "kind" \in DOMAIN upstream'
      <4>1. upstream' = [upstream EXCEPT !.cuts = @ + 1]
        BY <3>7, Zenon DEF SendHead
      <4>2. QED BY <1>1, <4>1
    <3>8. CASE Gateway \/ KeepAlive \/ Leave
      <4>1. UNCHANGED upstream
        BY <3>8, Zenon DEF Gateway, KeepAlive, Leave, ParseFrame, TakeEvent, TakeEnd, Send, End
      <4>2. QED BY <3>1, <4>1
    <3>9. CASE UNCHANGED streamVars
      BY <3>1, <3>9 DEF streamVars
    <3>10. QED BY <3>3, <3>4, <3>5, <3>6, <3>7, <3>8, <3>9, Zenon DEF StreamsNext, Upstream
  <2>2. QED BY <1>1, <2>1 DEF SameInv, WasLive
<1>2. CASE CompleteInv
  <2> USE <1>2
  <2>1. PICK o, kept, rest : AnswerOnItsWay(o, kept, rest)
    BY Zenon DEF CompleteInv
  <2>2. ~Pulled
    <3>1. stream.finished = TRUE
      BY FreshFields, Zenon DEF CompleteInv
    <3>2. QED BY <3>1 DEF Pulled
  <2>3. EventsOf(protocol, o) \in Seq(NotKept)
    BY <2>1, AnswerEvents, Zenon DEF AnswerOnItsWay, CompleteInv
  <2>4. kept \in Seq(ClientEvent) /\ out \in Seq(ClientEvent)
    <3>1. kept \in Seq(Pings) /\ rest \in Seq(ClientEvent) /\ Pings \subseteq ClientEvent
      BY <2>1 DEF AnswerOnItsWay, Pings
    <3>2. kept \in Seq(ClientEvent)
      BY <3>1, SeqMonotonic
    <3>3. QED BY <2>1, <3>1, <3>2, ConcatProperties DEF AnswerOnItsWay, IsJoin
  <2>5. CASE KeepAlive
    <3>1. /\ protocol = "websocket" /\ client = "reads"
          /\ \A j \in 1..Len(out) : out[j].k = "keepalive"
          /\ out' = Append(out, Keepalive(Len(out)))
          /\ UNCHANGED <<protocol, upstream, buffer, ready, stream, client, stored, told>>
      BY <2>5, Zenon DEF KeepAlive
    <3>2. rest = <<>>
      <4>1. PICK all, pending : all = EventsOf(protocol, o) /\ pending = stream.pending
        OBVIOUS
      <4>2. /\ IsJoin(out, kept, rest) /\ IsJoin(all, rest, pending) /\ rest \in Seq(ClientEvent)
            /\ pending \in Seq(ClientEvent) /\ all \in Seq(NotKept)
        BY <2>1, <2>3, <4>1 DEF AnswerOnItsWay, CompleteInv
      <4>3. SUFFICES ASSUME rest # <<>> PROVE FALSE
        OBVIOUS
      <4>4. rest[1] = all[1] /\ 1 \in 1..Len(all)
        BY <4>2, <4>3 DEF IsJoin
      <4>5. rest[1].k # "keepalive"
        <5>1. all[1] \in NotKept
          BY <4>2, <4>4
        <5>2. QED BY <4>4, <5>1 DEF NotKept
      <4>6. Len(kept) + 1 \in 1..Len(out) /\ out[Len(kept) + 1] = rest[1]
        BY <2>4, <4>2, <4>3 DEF IsJoin
      <4>7. QED BY <3>1, <4>5, <4>6
    <3>3. Keepalive(Len(out)) \in Pings
      <4>1. Len(out) \in Nat
        BY <2>4
      <4>2. PICK n \in Nat : n = Len(out)
        BY <4>1
      <4>3. 1000 + n \in Nat
        OBVIOUS
      <4>4. <<"none", 0>> \in BlockName /\ <<0, "exact">> \in Payload /\ "keepalive" \in Kinds
        BY DEF BlockName, Payload, Kinds, Forms
      <4>5. QED BY <4>2, <4>3, <4>4 DEF Keepalive, Plain, Event, Pings, ClientEvent
    <3>4. PICK x, longer : x = Keepalive(Len(out)) /\ longer = Append(kept, x)
      OBVIOUS
    <3>5. longer \in Seq(Pings)
      <4>1. kept \in Seq(Pings)
        BY <2>1 DEF AnswerOnItsWay
      <4>2. QED BY <3>3, <3>4, <4>1, AppendProperties
    <3>6. out = kept
      BY <2>1, <2>4, <3>2, ConcatEmptySeq DEF AnswerOnItsWay, IsJoin
    <3>7. IsJoin(out', longer, rest)
      <4>1. out' = longer
        BY <3>1, <3>4, <3>6, Zenon
      <4>2. longer \o <<>> = longer
        BY <3>5, ConcatEmptySeq
      <4>3. QED BY <3>2, <4>1, <4>2, Zenon DEF IsJoin
    <3>8. AnswerOnItsWay(o, longer, rest)'
      BY <2>1, <3>1, <3>5, <3>7, Zenon DEF AnswerOnItsWay
    <3>9. CompleteInv'
      BY <3>1, <3>8, Zenon DEF CompleteInv
    <3>10. QED BY <3>9 DEF SameInv
  <2>6. CASE Send
    <3>1. /\ client = "reads" /\ stream.pending # <<>>
          /\ out' = Append(out, Head(stream.pending))
          /\ stream' = [stream EXCEPT !.pending = Tail(stream.pending)]
          /\ UNCHANGED <<protocol, upstream, buffer, ready, client, stored, told>>
      BY <2>6, Zenon DEF Send
    <3>2. PICK pending, h, t, longer, all :
             /\ pending = stream.pending /\ h = Head(pending) /\ t = Tail(pending)
             /\ longer = Append(rest, h) /\ all = EventsOf(protocol, o)
      OBVIOUS
    <3>3. /\ rest \in Seq(ClientEvent) /\ pending \in Seq(ClientEvent) /\ pending # <<>>
          /\ IsJoin(out, kept, rest) /\ IsJoin(all, rest, pending)
      BY <2>1, <3>1, <3>2 DEF AnswerOnItsWay, CompleteInv
    <3>4. /\ longer \in Seq(ClientEvent) /\ t \in Seq(ClientEvent)
          /\ IsJoin(Append(out, h), kept, longer) /\ IsJoin(all, longer, t)
      BY <2>4, <3>2, <3>3, Moved
    <3>5. stream' = Ended(Fresh(t)) /\ stream'.pending = t
      <4>1. stream = Ended(Fresh(pending)) /\ stream' = [stream EXCEPT !.pending = t]
        BY <3>1, <3>2, Zenon DEF CompleteInv
      <4>2. stream' = [Ended(Fresh(pending)) EXCEPT !.pending = t]
        BY <4>1, Zenon
      <4>3. stream' = Ended(Fresh(t))
        BY <4>2, FreshFields, Zenon
      <4>4. QED BY <4>3, FreshFields, Zenon
    <3>6. AnswerOnItsWay(o, kept, longer)'
      BY <2>1, <3>1, <3>2, <3>4, <3>5, Zenon DEF AnswerOnItsWay
    <3>7. CompleteInv'
      <4>1. client' # "ended"
        BY <3>1
      <4>2. QED BY <3>1, <3>4, <3>5, <3>6, <4>1, Zenon DEF CompleteInv
    <3>8. QED BY <3>7 DEF SameInv
  <2>7. CASE End
    <3>1. /\ stream.pending = <<>>
          /\ UNCHANGED <<protocol, upstream, buffer, ready, stream, out, stored, told>>
      BY <2>7, Zenon DEF End
    <3>2. AnswerOnItsWay(o, kept, rest)'
      BY <2>1, <3>1, Zenon DEF AnswerOnItsWay
    <3>3. QED BY <3>1, <3>2, Zenon DEF CompleteInv, SameInv
  <2>8. CASE Leave
    <3>1. /\ client' = "gone"
          /\ UNCHANGED <<protocol, upstream, buffer, ready, stream, out, stored, told>>
      BY <2>8, Zenon DEF Leave
    <3>2. AnswerOnItsWay(o, kept, rest)'
      BY <2>1, <3>1, Zenon DEF AnswerOnItsWay
    <3>3. client' # "ended"
      BY <3>1
    <3>4. QED BY <3>1, <3>2, <3>3, Zenon DEF CompleteInv, SameInv
  <2>9. CASE UNCHANGED streamVars
    <3>1. UNCHANGED <<protocol, upstream, buffer, ready, stream, out, client, stored, told>>
      BY <2>9 DEF streamVars
    <3>2. AnswerOnItsWay(o, kept, rest)'
      BY <2>1, <3>1, Zenon DEF AnswerOnItsWay
    <3>3. QED BY <3>1, <3>2, Zenon DEF CompleteInv, SameInv
  <2>10. QED
    BY <2>2, <2>5, <2>6, <2>7, <2>8, <2>9, Zenon
       DEF StreamsNext, Gateway, Upstream, ParseFrame, TakeEvent, TakeEnd, Close, Break, SendTail,
           SendFrame, SendHead, Polled
<1>3. QED BY <1>1, <1>2 DEF SameInv

\* What the keepalives leave.
LEMMA AfterQuiet ==
    ASSUME NEW S, NEW F \in [ClientEvent -> Seq(S)], NEW kept \in Seq(ClientEvent),
           NEW all \in Seq(ClientEvent), NEW st, IsJoin(st, kept, all), Quiet(F, kept)
    PROVE  Flat(st, F) = Flat(all, F)
BY FlatQuiet

\* A stream that has ended tells the answer and nothing else.
LEMMA SameHolds == SameInv => SameAnswer
<1> SUFFICES ASSUME SameInv, client = "ended", ~WasLive
             PROVE  \E o \in Complete :
                       /\ Leaving(out, {"keepalive"}) = EventsOf(protocol, o)
                       /\ Gather(out, {"text"} \X Nat) = Json(protocol, o).text
                       /\ Gather(out, {"call"} \X Nat) = Json(protocol, o).calls
                       /\ Gather(out, {"thinking"} \X Nat) = Json(protocol, o).summary
                       /\ Finishes(out) = <<Json(protocol, o).finish>>
  BY Zenon DEF SameAnswer
<1>1. CompleteInv /\ stream.pending = <<>>
  BY DEF SameInv, CompleteInv
<1>2. PICK o, kept, rest : AnswerOnItsWay(o, kept, rest)
  BY <1>1, Zenon DEF CompleteInv
<1>3. PICK all, json : all = EventsOf(protocol, o) /\ json = Json(protocol, o)
  OBVIOUS
<1>4. /\ o \in Complete /\ kept \in Seq(Pings) /\ rest \in Seq(ClientEvent)
      /\ IsJoin(out, kept, rest) /\ IsJoin(all, rest, <<>>)
  BY <1>1, <1>2, <1>3, Zenon DEF AnswerOnItsWay
<1>5. rest = all
  BY <1>4, ConcatEmptySeq DEF IsJoin
<1>6. IsStreamOf(all, json)
  BY <1>1, <1>2, <1>3, CompleteAssumption, AnswerTells DEF CompleteInv, AnswerOnItsWay
<1>7. kept \in Seq(ClientEvent) /\ out \in Seq(ClientEvent)
  <2>1. Pings \subseteq ClientEvent
    BY DEF Pings
  <2>2. kept \in Seq(ClientEvent)
    BY <1>4, <2>1, SeqMonotonic
  <2>3. QED BY <1>4, <2>2, ConcatProperties DEF IsJoin
<1>8. IsJoin(out, kept, all)
  BY <1>4, <1>5, Zenon
<1>9. /\ all \in Seq(ClientEvent) /\ all \in Seq(NotKept)
      /\ Flat(all, TextOf) = json.text /\ Flat(all, CallsOf) = json.calls
      /\ Flat(all, SummaryOf) = json.summary /\ Flat(all, OfReasons) = <<json.finish>>
  BY <1>6, Zenon DEF IsStreamOf, Tells
<1>10. ASSUME NEW e \in Pings
       PROVE  /\ TextOf[e] = <<>> /\ CallsOf[e] = <<>> /\ SummaryOf[e] = <<>> /\ OfReasons[e] = <<>>
              /\ OfOthers({"keepalive"})[e] = <<>>
  <2>1. e \in ClientEvent /\ e.p[1] = 0 /\ e.k = "keepalive"
    BY DEF Pings
  <2>2. \A blocks : OfBlocks(blocks)[e] = <<>>
    BY <2>1 DEF OfBlocks
  <2>3. OfReasons[e] = <<>> /\ OfOthers({"keepalive"})[e] = <<>>
    BY <2>1 DEF OfReasons, OfOthers
  <2>4. QED BY <2>2, <2>3, Zenon DEF TextOf, CallsOf, SummaryOf
<1>11. /\ Quiet(TextOf, kept) /\ Quiet(CallsOf, kept) /\ Quiet(SummaryOf, kept)
       /\ Quiet(OfReasons, kept) /\ Quiet(OfOthers({"keepalive"}), kept)
  <2>1. \A j \in 1..Len(kept) : kept[j] \in Pings
    BY <1>4
  <2>2. QED BY <1>10, <2>1 DEF Quiet
<1>12. /\ Flat(out, TextOf) = json.text /\ Flat(out, CallsOf) = json.calls
       /\ Flat(out, SummaryOf) = json.summary /\ Flat(out, OfReasons) = <<json.finish>>
  <2>1. /\ Flat(out, TextOf) = Flat(all, TextOf) /\ Flat(out, CallsOf) = Flat(all, CallsOf)
        /\ Flat(out, SummaryOf) = Flat(all, SummaryOf) /\ Flat(out, OfReasons) = Flat(all, OfReasons)
    <3>1. ASSUME NEW S, NEW F \in [ClientEvent -> Seq(S)], Quiet(F, kept)
          PROVE  Flat(out, F) = Flat(all, F)
      BY <1>7, <1>8, <1>9, <3>1, AfterQuiet
    <3>2. QED BY <1>11, <3>1, MapTypes
  <2>2. QED BY <1>9, <2>1, Zenon
<1>13. Flat(out, OfOthers({"keepalive"})) = all
  <2>1. OfOthers({"keepalive"}) \in [ClientEvent -> Seq(ClientEvent)]
    BY EventFunctions
  <2>2. Flat(out, OfOthers({"keepalive"})) = Flat(all, OfOthers({"keepalive"}))
    <3>1. ASSUME NEW S, NEW F \in [ClientEvent -> Seq(S)], Quiet(F, kept)
          PROVE  Flat(out, F) = Flat(all, F)
      BY <1>7, <1>8, <1>9, <3>1, AfterQuiet
    <3>2. QED BY <1>11, <2>1, <3>1
  <2>3. Singles(OfOthers({"keepalive"}), all, all)
    <3>1. \A e \in NotKept : OfOthers({"keepalive"})[e] = <<e>>
      BY DEF NotKept, OfOthers
    <3>2. \A j \in 1..Len(all) : all[j] \in NotKept
      BY <1>9
    <3>3. QED BY <3>1, <3>2 DEF Singles
  <2>4. Flat(all, OfOthers({"keepalive"})) = all
    BY <1>9, <2>1, <2>3, FlatSingles
  <2>5. QED BY <2>2, <2>4
<1>14. /\ Gather(out, {"text"} \X Nat) = Flat(out, TextOf)
       /\ Gather(out, {"call"} \X Nat) = Flat(out, CallsOf)
       /\ Gather(out, {"thinking"} \X Nat) = Flat(out, SummaryOf)
       /\ Finishes(out) = Flat(out, OfReasons)
       /\ Leaving(out, {"keepalive"}) = Flat(out, OfOthers({"keepalive"}))
  BY <1>7, EventMaps, Zenon DEF TextOf, CallsOf, SummaryOf, Blocks
<1>15. QED BY <1>3, <1>4, <1>12, <1>13, <1>14, Zenon

\* SameAnswer: a complete answer is the same as a stream and as a JSON value, in
\* every protocol and for every set of answers.
THEOREM StreamsTellTheSame == StreamsSpec => []SameAnswer
<1>1. SameInv /\ [StreamsNext]_streamVars => SameInv'
  BY SameSteps
<1>2. QED BY <1>1, SameStart, SameHolds, PTL DEF StreamsSpec

-----------------------------------------------------------------------------
(* The calls in the order of their indexes.                                *)

\* An enumeration of n numbers in their order.
Enumerates(q, T, n) ==
    /\ q \in [1..n -> T] /\ (\A i, j \in 1..n : i < j => q[i] < q[j])
    /\ \A x \in T : \E i \in 1..n : q[i] = x
HasOrder(n) == \A T \in SUBSET Nat : IsFiniteSet(T) /\ Cardinality(T) = n => \E q : Enumerates(q, T, n)

\* The least number comes before an enumeration of the others.
LEMMA LeastFirst ==
    ASSUME NEW n \in Nat \ {0}, NEW T \in SUBSET Nat, NEW least \in T, NEW q, NEW p,
           \A y \in T : least <= y, Enumerates(q, T \ {least}, n - 1),
           p = [i \in 1..n |-> IF i = 1 THEN least ELSE q[i - 1]]
    PROVE  Enumerates(p, T, n)
<1>1. \A i \in 2..n : i - 1 \in 1..(n - 1) /\ p[i] = q[i - 1] /\ p[i] \in T /\ p[i] # least
  BY DEF Enumerates
<1>2. p[1] = least /\ 1 \in 1..n /\ p \in [1..n -> T]
  BY <1>1
<1>3. ASSUME NEW i \in 1..n, NEW j \in 1..n, i < j PROVE p[i] < p[j]
  <2>1. CASE i = 1
    <3>1. j \in 2..n
      BY <1>3
    <3>2. p[j] \in T /\ p[j] # least /\ p[i] = least
      BY <1>1, <1>2, <2>1, <3>1
    <3>3. p[j] \in Nat /\ least \in Nat /\ least <= p[j]
      BY <3>2
    <3>4. QED BY <3>2, <3>3
  <2>2. CASE i # 1
    <3>1. i \in 2..n /\ j \in 2..n /\ i - 1 < j - 1
      BY <1>3, <2>2
    <3>2. q[i - 1] < q[j - 1]
      BY <1>1, <3>1 DEF Enumerates
    <3>3. QED BY <1>1, <3>1, <3>2
  <2>3. QED BY <2>1, <2>2
<1>4. ASSUME NEW x \in T PROVE \E i \in 1..n : p[i] = x
  <2>1. CASE x = least
    BY <1>2, <2>1
  <2>2. CASE x # least
    <3>1. PICK k \in 1..(n - 1) : q[k] = x
      BY <2>2 DEF Enumerates
    <3>2. k + 1 \in 2..n /\ k + 1 \in 1..n /\ (k + 1) - 1 = k
      BY <3>1
    <3>3. p[k + 1] = x
      <4>1. p[k + 1] = q[(k + 1) - 1]
        BY <1>1, <3>2
      <4>2. QED BY <3>1, <3>2, <4>1
    <3>4. QED BY <3>2, <3>3
  <2>3. QED BY <2>1, <2>2
<1>5. QED BY <1>2, <1>3, <1>4 DEF Enumerates

\* Every finite set of numbers can be enumerated in its order.
LEMMA OrderExists ==
    ASSUME NEW n \in Nat
    PROVE  HasOrder(n)
<1> DEFINE Good == {m \in 1..(n + 1) : HasOrder(m - 1)}
<1>1. HasOrder(0)
  <2> SUFFICES ASSUME NEW T \in SUBSET Nat, IsFiniteSet(T), Cardinality(T) = 0
               PROVE  \E q : Enumerates(q, T, 0)
    BY DEF HasOrder
  <2>1. T = {}
    BY FS_EmptySet
  <2>2. [i \in 1..0 |-> 0] \in [1..0 -> T]
    OBVIOUS
  <2>3. Enumerates([i \in 1..0 |-> 0], T, 0)
    BY <2>1, <2>2 DEF Enumerates
  <2>4. QED BY <2>3
<1>2. 1 \in Good
  BY <1>1
<1>3. ASSUME NEW m \in 2..(n + 1), m - 1 \in Good PROVE m \in Good
  <2>1. PICK k \in Nat \ {0} : k = m - 1
    OBVIOUS
  <2>2. HasOrder(k - 1)
    BY <1>3, <2>1
  <2>3. ASSUME NEW T \in SUBSET Nat, IsFiniteSet(T), Cardinality(T) = k
        PROVE  \E q : Enumerates(q, T, k)
    <3>1. T # {}
      BY <2>1, <2>3, FS_EmptySet
    <3>2. PICK least \in T : \A y \in T : least <= y
      BY <3>1, LeastExists DEF HasLeast
    <3>3. IsFiniteSet(T \ {least}) /\ Cardinality(T \ {least}) = k - 1 /\ T \ {least} \in SUBSET Nat
      BY <2>3, <3>2, FS_RemoveElement
    <3>4. PICK q : Enumerates(q, T \ {least}, k - 1)
      BY <2>2, <3>3 DEF HasOrder
    <3>5. PICK p : p = [i \in 1..k |-> IF i = 1 THEN least ELSE q[i - 1]]
      OBVIOUS
    <3>6. Enumerates(p, T, k)
      BY <3>2, <3>4, <3>5, LeastFirst
    <3>7. QED BY <3>6
  <2>4. HasOrder(m - 1)
    BY <2>1, <2>3 DEF HasOrder
  <2>5. QED BY <2>4
<1>4. \A m \in 1..(n + 1) : m \in Good
  <2>1. \A m \in 2..(n + 1) : m - 1 \in Good => m \in Good
    BY <1>3, Zenon
  <2>2. n + 1 \in Nat
    OBVIOUS
  <2> HIDE DEF Good
  <2>3. QED BY <1>2, <2>1, <2>2, Upwards
<1>5. n + 1 \in Good /\ (n + 1) - 1 = n
  BY <1>4
<1>6. QED BY <1>5

\* Sorted is a sequence of all the numbers of the set.
LEMMA SortedAll ==
    ASSUME NEW T \in SUBSET Nat, IsFiniteSet(T)
    PROVE  /\ Sorted(T) \in Seq(T) /\ Len(Sorted(T)) = Cardinality(T)
           /\ \A i, j \in 1..Len(Sorted(T)) : i < j => Sorted(T)[i] < Sorted(T)[j]
<1>1. PICK n \in Nat : n = Cardinality(T)
  BY FS_CardinalityType
<1>2. PICK q : Enumerates(q, T, n)
  BY <1>1, OrderExists DEF HasOrder
<1>3. PICK s : s = Sorted(T)
  OBVIOUS
<1>4. s \in [1..n -> T] /\ \A i, j \in 1..n : i < j => s[i] < s[j]
  <2>1. q \in [1..n -> T] /\ \A i, j \in 1..n : i < j => q[i] < q[j]
    BY <1>2 DEF Enumerates
  <2>2. s = CHOOSE r \in [1..n -> T] : \A i, j \in 1..n : i < j => r[i] < r[j]
    BY <1>1, <1>3, Zenon DEF Sorted
  <2>3. QED BY <2>1, <2>2, Zenon
<1>5. s \in Seq(T) /\ Len(s) = n
  BY <1>4
<1>6. QED BY <1>1, <1>3, <1>4, <1>5, Zenon

-----------------------------------------------------------------------------
(* Sequences that are joined of parts, continued.                          *)

\* The flattened sequence has what its parts have.
Occurs(x, s) == \E i \in 1..Len(s) : s[i] = x

LEMMA FlatHas ==
    ASSUME NEW S, NEW ss \in Seq(Seq(S)), NEW j \in 1..Len(ss), NEW m \in 1..Len(ss[j])
    PROVE  Occurs(ss[j][m], FlattenSeq(ss))
<1>1. PICK n \in Nat : n = Len(ss)
  OBVIOUS
<1>2. PICK a, b, c, d : a = SubSeq(ss, 1, j - 1) /\ b = <<ss[j]>> /\ c = SubSeq(ss, j + 1, n) /\ d = SubSeq(ss, 1, j)
  OBVIOUS
<1>3. /\ a \in Seq(Seq(S)) /\ b \in Seq(Seq(S)) /\ c \in Seq(Seq(S)) /\ d \in Seq(Seq(S))
  BY <1>1, <1>2
<1>4. d = a \o b /\ ss = d \o c
  <2>1. d = a \o b
    BY <1>1, <1>2, <1>3
  <2>2. ss = d \o c
    BY <1>1, <1>2, <1>3
  <2>3. QED BY <2>1, <2>2
<1>5. PICK fa, fb, fc, fd, fs :
         /\ fa = FlattenSeq(a) /\ fb = FlattenSeq(b) /\ fc = FlattenSeq(c) /\ fd = FlattenSeq(d)
         /\ fs = FlattenSeq(ss)
  OBVIOUS
<1>6. fd = fa \o fb /\ fs = fd \o fc /\ fb = ss[j]
  <2>1. FlattenSeq(a \o b) = FlattenSeq(a) \o FlattenSeq(b)
    BY <1>3, FlatJoined
  <2>2. FlattenSeq(d \o c) = FlattenSeq(d) \o FlattenSeq(c)
    BY <1>3, FlatJoined
  <2>3. FlattenSeq(b) = ss[j]
    BY <1>2, FlatOne, Zenon
  <2>4. QED BY <1>4, <1>5, <2>1, <2>2, <2>3, Zenon
<1>7. fa \in Seq(S) /\ fb \in Seq(S) /\ fc \in Seq(S)
  BY <1>3, <1>5, FlatType
<1>8. PICK i \in Nat : i = Len(fa) + m
  BY <1>6, <1>7
<1>9. i \in 1..Len(fd) /\ fd[i] = ss[j][m] /\ fd \in Seq(S)
  BY <1>6, <1>7, <1>8
<1>10. i \in 1..Len(fs) /\ fs[i] = fd[i]
  BY <1>6, <1>7, <1>9
<1>11. QED BY <1>5, <1>9, <1>10 DEF Occurs

-----------------------------------------------------------------------------
(* What the translator of Responses keeps.                                 *)

\* The calls by their index.
CallTables == UNION {[D -> Seq(Payload)] : D \in SUBSET Nat}
OfCall(calls, i) == IF i \in DOMAIN calls THEN calls[i] ELSE <<>>

\* It keeps the text and the arguments that were told, and every piece of
\* arguments is of a call that it keeps.  Nothing has failed so far.
ArgsKept(all, calls) ==
    \A j \in 1..Len(all) : all[j].k = "args" => \E i \in DOMAIN calls : all[j].b = ToolCall(i)
Keeps(all, text, calls) ==
    /\ all \in Seq(ClientEvent) /\ calls \in CallTables /\ IsFiniteSet(DOMAIN calls)
    /\ text = Gather(all, {Text})
    /\ \A i \in Nat : OfCall(calls, i) = Gather(all, {ToolCall(i)})
    /\ ArgsKept(all, calls) /\ ~Has(all, "failed")

\* Events that tell no piece.
MuteKinds == Kinds \ {"args", "failed", "added", "block"}
Quiets == {e \in ClientEvent : e.p[1] = 0 /\ e.k \notin {"args", "failed"}}

\* Those of them that open no call.
Mutes == {e \in Quiets : e.k \in Opening => e.b = Text}

\* What is in one part is in the whole, and what is in none is not.
Done(events, b) == \E i \in 1..Len(events) : events[i].k = "done" /\ events[i].b = b

LEMMA JoinHas ==
    ASSUME NEW T, NEW a \in Seq(T), NEW c \in Seq(T), NEW ac, IsJoin(ac, a, c)
    PROVE  /\ ac \in Seq(T)
           /\ \A k : Has(ac, k) <=> Has(a, k) \/ Has(c, k)
           /\ \A b : Done(ac, b) <=> Done(a, b) \/ Done(c, b)
<1>1. PICK n \in Nat, m \in Nat : n = Len(a) /\ m = Len(c)
  OBVIOUS
<1>2. /\ ac \in Seq(T) /\ Len(ac) = n + m
      /\ \A i \in 1..n : ac[i] = a[i]
      /\ \A i \in 1..m : ac[n + i] = c[i]
  BY <1>1, ConcatProperties DEF IsJoin
<1>3. \A i \in 1..(n + m) : i \in 1..n \/ (i - n \in 1..m /\ i = n + (i - n))
  OBVIOUS
<1>4. \A i \in 1..(n + m) : (i \in 1..n /\ ac[i] = a[i]) \/ (i - n \in 1..m /\ ac[i] = c[i - n])
  BY <1>2, <1>3
<1>5. \A i \in 1..n : i \in 1..(n + m)
  OBVIOUS
<1>6. \A i \in 1..m : n + i \in 1..(n + m)
  OBVIOUS
<1>7. ASSUME NEW k PROVE Has(ac, k) <=> Has(a, k) \/ Has(c, k)
  <2>1. Has(ac, k) => Has(a, k) \/ Has(c, k)
    BY <1>1, <1>2, <1>4, Zenon DEF Has
  <2>2. Has(a, k) => Has(ac, k)
    BY <1>1, <1>2, <1>5, Zenon DEF Has
  <2>3. Has(c, k) => Has(ac, k)
    BY <1>1, <1>2, <1>6, Zenon DEF Has
  <2>4. QED BY <2>1, <2>2, <2>3
<1>8. ASSUME NEW b PROVE Done(ac, b) <=> Done(a, b) \/ Done(c, b)
  <2>1. ASSUME Done(ac, b) PROVE Done(a, b) \/ Done(c, b)
    <3>1. PICK i \in 1..(n + m) : ac[i].k = "done" /\ ac[i].b = b
      BY <1>2, <2>1 DEF Done
    <3>2. CASE i \in 1..n /\ ac[i] = a[i]
      BY <1>1, <3>1, <3>2 DEF Done
    <3>3. CASE i - n \in 1..m /\ ac[i] = c[i - n]
      BY <1>1, <3>1, <3>3 DEF Done
    <3>4. QED BY <1>4, <3>2, <3>3
  <2>2. Done(a, b) => Done(ac, b)
    BY <1>1, <1>2, <1>5, Zenon DEF Done
  <2>3. Done(c, b) => Done(ac, b)
    BY <1>1, <1>2, <1>6, Zenon DEF Done
  <2>4. QED BY <2>1, <2>2, <2>3
<1>9. QED BY <1>2, <1>7, <1>8

\* The same of pieces of arguments.
LEMMA JoinArgs ==
    ASSUME NEW a \in Seq(ClientEvent), NEW c \in Seq(ClientEvent), NEW ac, IsJoin(ac, a, c),
           NEW calls, NEW more, ArgsKept(a, calls), ArgsKept(c, more),
           DOMAIN calls \subseteq DOMAIN more
    PROVE  ArgsKept(ac, more)
<1>1. PICK n \in Nat, m \in Nat : n = Len(a) /\ m = Len(c)
  OBVIOUS
<1>2. /\ Len(ac) = n + m
      /\ \A i \in 1..n : ac[i] = a[i]
      /\ \A i \in 1..m : ac[n + i] = c[i]
  BY <1>1, ConcatProperties DEF IsJoin
<1>3. \A i \in 1..(n + m) : i \in 1..n \/ (i - n \in 1..m /\ i = n + (i - n))
  OBVIOUS
<1>4. \A i \in 1..(n + m) : (i \in 1..n /\ ac[i] = a[i]) \/ (i - n \in 1..m /\ ac[i] = c[i - n])
  BY <1>2, <1>3
<1>5. ASSUME NEW i \in 1..(n + m), ac[i].k = "args" PROVE \E x \in DOMAIN more : ac[i].b = ToolCall(x)
  <2>1. CASE i \in 1..n /\ ac[i] = a[i]
    <3>1. \E x \in DOMAIN calls : a[i].b = ToolCall(x)
      BY <1>1, <1>5, <2>1 DEF ArgsKept
    <3>2. QED BY <2>1, <3>1
  <2>2. CASE i - n \in 1..m /\ ac[i] = c[i - n]
    <3>1. \E x \in DOMAIN more : c[i - n].b = ToolCall(x)
      BY <1>1, <1>5, <2>2 DEF ArgsKept
    <3>2. QED BY <2>2, <3>1
  <2>3. QED BY <1>4, <2>1, <2>2
<1>6. QED BY <1>2, <1>5, Zenon DEF ArgsKept

\* They change nothing of it.
LEMMA KeepsQuiet ==
    ASSUME NEW all, NEW text, NEW calls, Keeps(all, text, calls),
           NEW es \in Seq(Quiets), NEW longer, IsJoin(longer, all, es)
    PROVE  Keeps(longer, text, calls)
<1>1. all \in Seq(ClientEvent) /\ es \in Seq(ClientEvent)
  <2>1. Quiets \subseteq ClientEvent
    BY DEF Quiets
  <2>2. QED BY <2>1, SeqMonotonic DEF Keeps
<1>2. \A j \in 1..Len(es) : es[j] \in Quiets
  OBVIOUS
<1>3. ASSUME NEW blocks PROVE Gather(longer, blocks) = Gather(all, blocks)
  <2>1. Quiet(OfBlocks(blocks), es)
    <3>1. \A e \in Quiets : OfBlocks(blocks)[e] = <<>>
      BY DEF Quiets, OfBlocks
    <3>2. QED BY <1>2, <3>1 DEF Quiet
  <2>2. longer \in Seq(ClientEvent)
    BY <1>1, JoinHas
  <2>3. Flat(longer, OfBlocks(blocks)) = Flat(all, OfBlocks(blocks))
    <3>1. OfBlocks(blocks) \in [ClientEvent -> Seq(Payload)]
      BY EventFunctions
    <3>2. QED BY <1>1, <2>1, <3>1, FlatQuiet
  <2>4. QED BY <1>1, <2>2, <2>3, EventMaps
<1>4. ArgsKept(longer, calls)
  <2>1. ArgsKept(es, calls)
    BY <1>2 DEF ArgsKept, Quiets
  <2>2. QED BY <1>1, <2>1, JoinArgs DEF Keeps
<1>5. ~Has(longer, "failed") /\ longer \in Seq(ClientEvent)
  <2>1. ~Has(es, "failed")
    BY <1>2 DEF Has, Quiets
  <2>2. QED BY <1>1, <2>1, JoinHas DEF Keeps
<1>6. QED BY <1>3, <1>4, <1>5, Zenon DEF Keeps

\* The calls with other arguments of call i.
WithArgs(t, calls, i, args) ==
    t = [j \in DOMAIN calls \cup {i} |-> IF j = i THEN args ELSE calls[j]]

\* It is one more call, or the same calls, of which one has other arguments.
TableWith(t, calls, i, args) ==
    /\ t \in CallTables /\ IsFiniteSet(DOMAIN t) /\ DOMAIN t = DOMAIN calls \cup {i}
    /\ \A x \in Nat : OfCall(t, x) = IF x = i THEN args ELSE OfCall(calls, x)

LEMMA WithArgsIs ==
    ASSUME NEW calls \in CallTables, IsFiniteSet(DOMAIN calls), NEW i \in Nat, NEW args \in Seq(Payload),
           NEW t, WithArgs(t, calls, i, args)
    PROVE  TableWith(t, calls, i, args)
<1>1. PICK D \in SUBSET Nat : calls \in [D -> Seq(Payload)]
  BY DEF CallTables
<1>3. t = [j \in D \cup {i} |-> IF j = i THEN args ELSE calls[j]]
  BY <1>1, Zenon DEF WithArgs
<1>4. PICK S : S = Seq(Payload)
  OBVIOUS
<1>5. t \in [D \cup {i} -> S] /\ DOMAIN t = D \cup {i}
  BY <1>1, <1>3, <1>4
<1>6. D \cup {i} \in SUBSET Nat
  OBVIOUS
<1>7. t \in CallTables
  BY <1>4, <1>5, <1>6, Zenon DEF CallTables
<1>8. IsFiniteSet(DOMAIN t)
  BY <1>1, <1>5, FS_AddElement
<1>9. \A x \in Nat : OfCall(t, x) = IF x = i THEN args ELSE OfCall(calls, x)
  BY <1>1, <1>3 DEF OfCall
<1>10. QED BY <1>1, <1>5, <1>7, <1>8, <1>9 DEF TableWith

\* The blocks of a piece.
LEMMA GatherMore ==
    ASSUME NEW all \in Seq(ClientEvent), NEW e \in ClientEvent, e.p[1] # 0, NEW blocks, NEW longer,
           IsMore(longer, all, e)
    PROVE  /\ longer \in Seq(ClientEvent)
           /\ Gather(all, blocks) \in Seq(Payload)
           /\ e.b \in blocks => IsMore(Gather(longer, blocks), Gather(all, blocks), e.p)
           /\ e.b \notin blocks => Gather(longer, blocks) = Gather(all, blocks)
<1>1. PICK F, p, g : F = OfBlocks(blocks) /\ p = e.p /\ g = Flat(all, F)
  OBVIOUS
<1>2. F \in [ClientEvent -> Seq(Payload)]
  BY <1>1, EventFunctions
<1>3. p \in Payload
  BY <1>1 DEF ClientEvent
<1>4. F[e] = IF e.b \in blocks THEN <<p>> ELSE <<>>
  BY <1>1 DEF OfBlocks
<1>5. longer \in Seq(ClientEvent) /\ IsJoin(longer, all, <<e>>) /\ <<e>> \in Seq(ClientEvent)
  BY AppendIsConcat, AppendProperties DEF IsMore, IsJoin
<1>6. /\ F[e] = <<>> => Flat(longer, F) = g
      /\ F[e] = <<p>> => IsMore(Flat(longer, F), g, p)
  <2>1. PICK one, more, x : one = <<e>> /\ more = Flat(longer, F) /\ x = F[e]
    OBVIOUS
  <2>2. g \in Seq(Payload) /\ IsJoin(more, g, Flat(one, F))
    BY <1>1, <1>2, <1>5, <2>1, FlatMapJoined
  <2>3. Flat(one, F) = x
    BY <2>1, FlatMapOne, Zenon
  <2>4. g \in Seq(Payload) /\ IsJoin(more, g, x)
    BY <2>2, <2>3, Zenon
  <2>5. (x = <<>> => more = g) /\ (x = <<p>> => IsMore(more, g, p))
    BY <1>3, <2>4, JoinOne
  <2>6. QED BY <2>1, <2>5, Zenon
<1>7. Gather(all, blocks) = g /\ Gather(longer, blocks) = Flat(longer, F)
  BY <1>1, <1>5, EventMaps, Zenon
<1>8. g \in Seq(Payload)
  <2>1. PICK none : none = <<>>
    OBVIOUS
  <2>2. none \in Seq(ClientEvent) /\ IsJoin(all, all, none)
    BY <2>1 DEF IsJoin
  <2>3. QED BY <1>1, <1>2, <2>2, FlatMapJoined
<1>9. QED BY <1>1, <1>4, <1>5, <1>6, <1>7, <1>8, Zenon

\* What is kept of a call are payloads.
LEMMA KeepsTypes ==
    ASSUME NEW all, NEW text, NEW calls, Keeps(all, text, calls), NEW i \in Nat
    PROVE  OfCall(calls, i) \in Seq(Payload) /\ text \in Seq(Payload)
<1>1. PICK D \in SUBSET Nat : calls \in [D -> Seq(Payload)]
  BY DEF Keeps, CallTables
<1>2. OfCall(calls, i) \in Seq(Payload)
  <2>1. CASE i \in D
    <3>1. calls[i] \in Seq(Payload) /\ DOMAIN calls = D
      BY <1>1, <2>1, Zenon
    <3>2. QED BY <2>1, <3>1, Zenon DEF OfCall
  <2>2. CASE i \notin D
    <3>1. OfCall(calls, i) = <<>>
      BY <1>1, <2>2, Zenon DEF OfCall
    <3>2. QED BY <3>1, EmptySeq
  <2>3. QED BY <2>1, <2>2
<1>3. text \in Seq(Payload)
  <2>1. Flat(all, OfBlocks({Text})) \in Seq(Payload)
    <3>1. PICK none : none = <<>>
      OBVIOUS
    <3>2. none \in Seq(ClientEvent) /\ IsJoin(all, all, none) /\ all \in Seq(ClientEvent)
      BY <3>1 DEF IsJoin, Keeps
    <3>3. OfBlocks({Text}) \in [ClientEvent -> Seq(Payload)]
      BY EventFunctions
    <3>4. QED BY <3>2, <3>3, FlatMapJoined
  <2>2. Gather(all, {Text}) = Flat(all, OfBlocks({Text}))
    BY EventMaps DEF Keeps
  <2>3. QED BY <2>1, <2>2, Zenon DEF Keeps
<1>4. QED BY <1>2, <1>3

\* A piece of text.
LEMMA KeepsText ==
    ASSUME NEW all, NEW text, NEW calls, Keeps(all, text, calls),
           NEW e \in ClientEvent, e.p[1] # 0, e.b = Text, e.k = "text",
           NEW longer, IsMore(longer, all, e), NEW more, IsMore(more, text, e.p)
    PROVE  Keeps(longer, more, calls)
<1>2. all \in Seq(ClientEvent) /\ longer \in Seq(ClientEvent)
  BY GatherMore DEF Keeps
<1>3. Gather(longer, {Text}) = more
  <2>1. e.b \in {Text}
    OBVIOUS
  <2>2. IsMore(Gather(longer, {Text}), Gather(all, {Text}), e.p)
    BY <1>2, <2>1, GatherMore
  <2>3. QED BY <2>2, Zenon DEF Keeps, IsMore
<1>4. ASSUME NEW i \in Nat PROVE Gather(longer, {ToolCall(i)}) = Gather(all, {ToolCall(i)})
  <2>1. e.b \notin {ToolCall(i)}
    BY DEF Text, ToolCall
  <2>2. QED BY <1>2, <2>1, GatherMore
<1>5. ArgsKept(longer, calls) /\ ~Has(longer, "failed")
  <2>1. ArgsKept(all, calls) /\ ~Has(all, "failed")
    BY DEF Keeps
  <2>2. ArgsKept(<<e>>, calls) /\ ~Has(<<e>>, "failed") /\ <<e>> \in Seq(ClientEvent)
    BY DEF ArgsKept, Has
  <2>3. IsJoin(longer, all, <<e>>)
    BY <1>2, AppendIsConcat DEF IsJoin, IsMore
  <2>4. QED BY <1>2, <2>1, <2>2, <2>3, JoinArgs, JoinHas
<1>6. QED BY <1>2, <1>3, <1>4, <1>5, Zenon DEF Keeps

\* A call, before its arguments.
LEMMA KeepsCall ==
    ASSUME NEW all, NEW text, NEW calls, Keeps(all, text, calls), NEW i \in Nat,
           NEW t, WithArgs(t, calls, i, OfCall(calls, i))
    PROVE  Keeps(all, text, t)
<1>1. PICK args : args = OfCall(calls, i)
  OBVIOUS
<1>2. args \in Seq(Payload)
  BY <1>1, KeepsTypes
<1>3. calls \in CallTables /\ IsFiniteSet(DOMAIN calls) /\ WithArgs(t, calls, i, args)
  BY <1>1 DEF Keeps
<1>4. /\ t \in CallTables /\ IsFiniteSet(DOMAIN t) /\ DOMAIN calls \subseteq DOMAIN t
      /\ \A x \in Nat : OfCall(t, x) = OfCall(calls, x)
  <2>1. TableWith(t, calls, i, args)
    BY <1>2, <1>3, WithArgsIs
  <2>2. QED BY <1>1, <2>1 DEF TableWith
<1>5. ArgsKept(all, t)
  BY <1>4 DEF ArgsKept, Keeps
<1>6. QED BY <1>4, <1>5, Zenon DEF Keeps

\* A piece of its arguments.
LEMMA KeepsArgs ==
    ASSUME NEW all, NEW text, NEW calls, Keeps(all, text, calls), NEW i \in Nat,
           NEW e \in ClientEvent, e.p[1] # 0, e.b = ToolCall(i), e.k = "args",
           NEW longer, IsMore(longer, all, e), NEW args, IsMore(args, OfCall(calls, i), e.p),
           NEW t, WithArgs(t, calls, i, args)
    PROVE  Keeps(longer, text, t)
<1>2. all \in Seq(ClientEvent) /\ longer \in Seq(ClientEvent)
  BY GatherMore DEF Keeps
<1>3. args \in Seq(Payload)
  <2>1. OfCall(calls, i) \in Seq(Payload)
    BY KeepsTypes
  <2>2. e.p \in Payload
    BY DEF ClientEvent
  <2>3. QED BY <2>1, <2>2, AppendProperties DEF IsMore
<1>4. /\ t \in CallTables /\ IsFiniteSet(DOMAIN t) /\ DOMAIN t = DOMAIN calls \cup {i}
      /\ \A x \in Nat : OfCall(t, x) = IF x = i THEN args ELSE OfCall(calls, x)
  <2>1. calls \in CallTables /\ IsFiniteSet(DOMAIN calls)
    BY DEF Keeps
  <2>2. TableWith(t, calls, i, args)
    BY <1>3, <2>1, WithArgsIs
  <2>3. QED BY <2>2, Zenon DEF TableWith
<1>5. Gather(longer, {Text}) = text
  <2>1. e.b \notin {Text}
    BY DEF Text, ToolCall
  <2>2. Gather(longer, {Text}) = Gather(all, {Text})
    BY <1>2, <2>1, GatherMore
  <2>3. QED BY <2>2 DEF Keeps
<1>6. ASSUME NEW x \in Nat PROVE OfCall(t, x) = Gather(longer, {ToolCall(x)})
  <2>1. OfCall(calls, x) = Gather(all, {ToolCall(x)})
    BY DEF Keeps
  <2>2. CASE x = i
    <3>1. e.b \in {ToolCall(x)}
      BY <2>2
    <3>2. IsMore(Gather(longer, {ToolCall(x)}), Gather(all, {ToolCall(x)}), e.p)
      BY <1>2, <3>1, GatherMore
    <3>3. OfCall(t, x) = args
      BY <1>4, <2>2, Zenon
    <3>4. QED BY <2>1, <2>2, <3>2, <3>3, Zenon DEF IsMore
  <2>3. CASE x # i
    <3>1. e.b \notin {ToolCall(x)}
      BY <2>3 DEF ToolCall
    <3>2. Gather(longer, {ToolCall(x)}) = Gather(all, {ToolCall(x)})
      BY <1>2, <3>1, GatherMore
    <3>3. QED BY <1>4, <2>1, <2>3, <3>2, Zenon
  <2>4. QED BY <2>2, <2>3
<1>7. ArgsKept(longer, t) /\ ~Has(longer, "failed")
  <2>1. ArgsKept(all, calls) /\ ~Has(all, "failed")
    BY DEF Keeps
  <2>2. ArgsKept(<<e>>, t) /\ ~Has(<<e>>, "failed") /\ <<e>> \in Seq(ClientEvent)
    BY <1>4 DEF ArgsKept, Has
  <2>3. IsJoin(longer, all, <<e>>) /\ DOMAIN calls \subseteq DOMAIN t
    BY <1>2, <1>4, AppendIsConcat DEF IsJoin, IsMore
  <2>4. QED BY <1>2, <2>1, <2>2, <2>3, JoinArgs, JoinHas
<1>8. QED BY <1>2, <1>4, <1>5, <1>6, <1>7, Zenon DEF Keeps

-----------------------------------------------------------------------------
(* What a translator says and what it remembers.                           *)

Translator ==
    [pending : Seq(ClientEvent), usage : BOOLEAN, text : Seq(Payload), calls : CallTables,
     blocks : SUBSET BlockName, seq : Nat, started : BOOLEAN, tools : BOOLEAN, finished : BOOLEAN]

\* The translator t is s after it said some events; text and calls are the same.
SaidMore(t, s, es) ==
    /\ t \in Translator /\ es \in Seq(ClientEvent) /\ IsJoin(t.pending, s.pending, es)
    /\ t.text = s.text /\ t.calls = s.calls /\ t.tools = s.tools /\ t.finished = s.finished

\* It is a record of its fields.
LEMMA TranslatorFields ==
    ASSUME NEW s \in Translator
    PROVE  /\ \A x \in Seq(ClientEvent) : [s EXCEPT !.pending = x] \in Translator
           /\ \A x \in BOOLEAN : [s EXCEPT !.usage = x] \in Translator
           /\ \A x \in Seq(Payload) : [s EXCEPT !.text = x] \in Translator
           /\ \A x \in CallTables : [s EXCEPT !.calls = x] \in Translator
           /\ \A x \in SUBSET BlockName : [s EXCEPT !.blocks = x] \in Translator
           /\ \A x \in Nat : [s EXCEPT !.seq = x] \in Translator
           /\ \A x \in BOOLEAN : [s EXCEPT !.started = x] \in Translator
           /\ \A x \in BOOLEAN : [s EXCEPT !.tools = x] \in Translator
           /\ \A x \in BOOLEAN : [s EXCEPT !.finished = x] \in Translator
<1>1. PICK P, T, B, C : P = Seq(ClientEvent) /\ T = Seq(Payload) /\ B = SUBSET BlockName /\ C = CallTables
  OBVIOUS
<1>2. PICK R : R = [pending : P, usage : BOOLEAN, text : T, calls : C, blocks : B, seq : Nat,
                    started : BOOLEAN, tools : BOOLEAN, finished : BOOLEAN]
  OBVIOUS
<1>3. R = Translator /\ s \in R
  BY <1>1, <1>2, Zenon DEF Translator
<1>4. /\ \A x \in P : [s EXCEPT !.pending = x] \in R
      /\ \A x \in BOOLEAN : [s EXCEPT !.usage = x] \in R
      /\ \A x \in T : [s EXCEPT !.text = x] \in R
      /\ \A x \in C : [s EXCEPT !.calls = x] \in R
      /\ \A x \in B : [s EXCEPT !.blocks = x] \in R
  BY <1>2, <1>3
<1>5. /\ \A x \in Nat : [s EXCEPT !.seq = x] \in R
      /\ \A x \in BOOLEAN : [s EXCEPT !.started = x] \in R
      /\ \A x \in BOOLEAN : [s EXCEPT !.tools = x] \in R
      /\ \A x \in BOOLEAN : [s EXCEPT !.finished = x] \in R
  BY <1>2, <1>3
<1>6. QED BY <1>1, <1>3, <1>4, <1>5, Zenon

LEMMA FieldTypes ==
    ASSUME NEW s \in Translator
    PROVE  /\ s.pending \in Seq(ClientEvent) /\ s.text \in Seq(Payload) /\ s.calls \in CallTables
           /\ s.blocks \in SUBSET BlockName /\ s.seq \in Nat /\ s.started \in BOOLEAN
           /\ s.tools \in BOOLEAN /\ s.finished \in BOOLEAN
<1>1. PICK P, T, B : P = Seq(ClientEvent) /\ T = Seq(Payload) /\ B = SUBSET BlockName
  OBVIOUS
<1>2. s \in [pending : P, usage : BOOLEAN, text : T, calls : CallTables,
                    blocks : B, seq : Nat, started : BOOLEAN, tools : BOOLEAN, finished : BOOLEAN]
  BY <1>1, Zenon DEF Translator
<1>3. ASSUME NEW C, s \in [pending : P, usage : BOOLEAN, text : T, calls : C,
                    blocks : B, seq : Nat, started : BOOLEAN, tools : BOOLEAN, finished : BOOLEAN]
      PROVE  /\ s.pending \in P /\ s.text \in T /\ s.calls \in C
             /\ s.blocks \in B /\ s.seq \in Nat /\ s.started \in BOOLEAN
             /\ s.tools \in BOOLEAN /\ s.finished \in BOOLEAN
  BY <1>3
<1>4. QED BY <1>1, <1>2, <1>3, Zenon

\* What changing one field leaves alone.
LEMMA OtherFields ==
    ASSUME NEW s \in Translator, NEW x
    PROVE  /\ [s EXCEPT !.pending = x].pending = x
           /\ [s EXCEPT !.pending = x].text = s.text /\ [s EXCEPT !.pending = x].calls = s.calls
           /\ [s EXCEPT !.pending = x].tools = s.tools /\ [s EXCEPT !.pending = x].finished = s.finished
           /\ [s EXCEPT !.pending = x].seq = s.seq /\ [s EXCEPT !.pending = x].blocks = s.blocks
           /\ [s EXCEPT !.seq = x].pending = s.pending
           /\ [s EXCEPT !.seq = x].text = s.text /\ [s EXCEPT !.seq = x].calls = s.calls
           /\ [s EXCEPT !.seq = x].tools = s.tools /\ [s EXCEPT !.seq = x].finished = s.finished
           /\ [s EXCEPT !.blocks = x].pending = s.pending /\ [s EXCEPT !.blocks = x].blocks = x
           /\ [s EXCEPT !.blocks = x].text = s.text /\ [s EXCEPT !.blocks = x].calls = s.calls
           /\ [s EXCEPT !.blocks = x].tools = s.tools /\ [s EXCEPT !.blocks = x].finished = s.finished
           /\ [s EXCEPT !.started = x].pending = s.pending
           /\ [s EXCEPT !.started = x].text = s.text /\ [s EXCEPT !.started = x].calls = s.calls
           /\ [s EXCEPT !.started = x].tools = s.tools /\ [s EXCEPT !.started = x].finished = s.finished
           /\ [s EXCEPT !.usage = x].pending = s.pending
           /\ [s EXCEPT !.usage = x].text = s.text /\ [s EXCEPT !.usage = x].calls = s.calls
           /\ [s EXCEPT !.usage = x].tools = s.tools /\ [s EXCEPT !.usage = x].finished = s.finished
<1>1. PICK P, T, B, C : P = Seq(ClientEvent) /\ T = Seq(Payload) /\ B = SUBSET BlockName /\ C = CallTables
  OBVIOUS
<1>2. s \in [pending : P, usage : BOOLEAN, text : T, calls : C,
                    blocks : B, seq : Nat, started : BOOLEAN, tools : BOOLEAN, finished : BOOLEAN]
  BY <1>1, Zenon DEF Translator
<1>3. QED BY <1>2

LEMMA MemoryFields ==
    ASSUME NEW s \in Translator, NEW x
    PROVE  /\ [s EXCEPT !.tools = x].pending = s.pending
           /\ [s EXCEPT !.tools = x].text = s.text /\ [s EXCEPT !.tools = x].calls = s.calls
           /\ [s EXCEPT !.tools = x].tools = x /\ [s EXCEPT !.tools = x].finished = s.finished
           /\ [s EXCEPT !.finished = x].pending = s.pending
           /\ [s EXCEPT !.finished = x].text = s.text /\ [s EXCEPT !.finished = x].calls = s.calls
           /\ [s EXCEPT !.finished = x].tools = s.tools /\ [s EXCEPT !.finished = x].finished = x
           /\ [s EXCEPT !.text = x].pending = s.pending
           /\ [s EXCEPT !.text = x].text = x /\ [s EXCEPT !.text = x].calls = s.calls
           /\ [s EXCEPT !.text = x].tools = s.tools /\ [s EXCEPT !.text = x].finished = s.finished
           /\ [s EXCEPT !.calls = x].pending = s.pending
           /\ [s EXCEPT !.calls = x].text = s.text /\ [s EXCEPT !.calls = x].calls = x
           /\ [s EXCEPT !.calls = x].tools = s.tools /\ [s EXCEPT !.calls = x].finished = s.finished
<1>1. PICK P, T, B, C : P = Seq(ClientEvent) /\ T = Seq(Payload) /\ B = SUBSET BlockName /\ C = CallTables
  OBVIOUS
<1>2. s \in [pending : P, usage : BOOLEAN, text : T, calls : C,
                    blocks : B, seq : Nat, started : BOOLEAN, tools : BOOLEAN, finished : BOOLEAN]
  BY <1>1, Zenon DEF Translator
<1>3. QED BY <1>2

\* Saying two things is saying them joined.
LEMMA SaidTwice ==
    ASSUME NEW s \in Translator, NEW t, NEW u, NEW es, NEW fs, SaidMore(t, s, es), SaidMore(u, t, fs)
    PROVE  \E gs : IsJoin(gs, es, fs) /\ SaidMore(u, s, gs)
<1>1. PICK a, b, c : a = s.pending /\ b = t.pending /\ c = u.pending
  OBVIOUS
<1>2. /\ a \in Seq(ClientEvent) /\ es \in Seq(ClientEvent) /\ fs \in Seq(ClientEvent)
      /\ b = a \o es /\ c = b \o fs
  BY <1>1, FieldTypes DEF SaidMore, IsJoin
<1>3. es \o fs \in Seq(ClientEvent)
  BY <1>2, ConcatProperties
<1>4. c = a \o (es \o fs)
  BY <1>2, ConcatAssociative
<1>5. PICK gs : gs = es \o fs
  OBVIOUS
<1>6. IsJoin(c, a, gs) /\ IsJoin(gs, es, fs) /\ gs \in Seq(ClientEvent)
  BY <1>3, <1>4, <1>5, Zenon DEF IsJoin
<1>7. QED BY <1>1, <1>6, Zenon DEF SaidMore

LEMMA PushSays ==
    ASSUME NEW s \in Translator, NEW e \in ClientEvent
    PROVE  SaidMore(Push(s, e), s, <<e>>) /\ Push(s, e).seq = s.seq /\ Push(s, e).blocks = s.blocks
<1>1. PICK x : x = Append(s.pending, e)
  OBVIOUS
<1>2. x \in Seq(ClientEvent) /\ IsJoin(x, s.pending, <<e>>) /\ <<e>> \in Seq(ClientEvent)
  <2>1. s.pending \in Seq(ClientEvent)
    BY FieldTypes
  <2>2. QED BY <1>1, <2>1, AppendProperties, AppendIsConcat DEF IsJoin
<1>3. PICK t : t = [s EXCEPT !.pending = x]
  OBVIOUS
<1>4. t \in Translator
  BY <1>2, <1>3, TranslatorFields
<1>5. /\ t.pending = x /\ t.text = s.text /\ t.calls = s.calls /\ t.tools = s.tools
      /\ t.finished = s.finished /\ t.seq = s.seq /\ t.blocks = s.blocks
  BY <1>3, OtherFields, Zenon
<1>6. Push(s, e) = t
  BY <1>1, <1>3, Zenon DEF Push
<1>7. QED BY <1>2, <1>4, <1>5, <1>6, Zenon DEF SaidMore

LEMMA PushAllSays ==
    ASSUME NEW s \in Translator, NEW es \in Seq(ClientEvent)
    PROVE  SaidMore(PushAll(s, es), s, es)
<1>1. PICK x : x = s.pending \o es
  OBVIOUS
<1>2. x \in Seq(ClientEvent) /\ IsJoin(x, s.pending, es)
  <2>1. s.pending \in Seq(ClientEvent)
    BY FieldTypes
  <2>2. QED BY <1>1, <2>1, ConcatProperties DEF IsJoin
<1>3. PICK t : t = [s EXCEPT !.pending = x]
  OBVIOUS
<1>4. t \in Translator
  BY <1>2, <1>3, TranslatorFields
<1>5. /\ t.pending = x /\ t.text = s.text /\ t.calls = s.calls /\ t.tools = s.tools
      /\ t.finished = s.finished /\ t.seq = s.seq /\ t.blocks = s.blocks
  BY <1>3, OtherFields, Zenon
<1>6. PushAll(s, es) = t
  BY <1>1, <1>3, Zenon DEF PushAll
<1>7. QED BY <1>2, <1>4, <1>5, <1>6, Zenon DEF SaidMore

\* An event with another number.
AtNumber(f, e, n) == f = [e EXCEPT !.q = n]

LEMMA NumberedEvent ==
    ASSUME NEW e \in ClientEvent, NEW n \in Nat, NEW f, AtNumber(f, e, n)
    PROVE  f \in ClientEvent /\ f.k = e.k /\ f.b = e.b /\ f.p = e.p
BY DEF AtNumber, ClientEvent

LEMMA SaySays ==
    ASSUME NEW s \in Translator, NEW e \in ClientEvent
    PROVE  \E f : AtNumber(f, e, s.seq) /\ SaidMore(Say(s, e), s, <<f>>) /\ Say(s, e).blocks = s.blocks
<1>1. PICK f : f = [e EXCEPT !.q = s.seq]
  OBVIOUS
<1>2. AtNumber(f, e, s.seq) /\ s.seq \in Nat
  BY <1>1, FieldTypes DEF AtNumber
<1>3. f \in ClientEvent
  BY <1>2, NumberedEvent
<1>4. PICK t : t = Push(s, f)
  OBVIOUS
<1>5. SaidMore(t, s, <<f>>) /\ t \in Translator /\ t.seq = s.seq /\ t.blocks = s.blocks
  BY <1>3, <1>4, PushSays DEF SaidMore
<1>6. PICK u : u = [t EXCEPT !.seq = s.seq + 1]
  OBVIOUS
<1>7. s.seq + 1 \in Nat
  BY <1>2
<1>8. u \in Translator
  BY <1>5, <1>6, <1>7, TranslatorFields
<1>9. Say(s, e) = u
  BY <1>1, <1>4, <1>5, <1>6, Zenon DEF Say
<1>10. /\ u.pending = t.pending /\ u.text = t.text /\ u.calls = t.calls /\ u.tools = t.tools
       /\ u.finished = t.finished
  BY <1>5, <1>6, OtherFields
<1>11. u.blocks = t.blocks
  BY <1>5, <1>6 DEF Translator
<1>12. SaidMore(u, s, <<f>>)
  BY <1>5, <1>8, <1>10, Zenon DEF SaidMore
<1>13. QED BY <1>2, <1>5, <1>9, <1>11, <1>12, Zenon

-----------------------------------------------------------------------------
(* What says no piece.                                                     *)

\* The translator t is s after it said mute events.
Mutely(t, s) == \E es \in Seq(Mutes) : SaidMore(t, s, es)

\* The same, or it opened a call.
Quietly(t, s) == \E es \in Seq(Quiets) : SaidMore(t, s, es)

LEMMA MuteSeqs ==
    /\ Mutes \subseteq ClientEvent /\ Seq(Mutes) \subseteq Seq(ClientEvent)
    /\ Seq(Mutes) \subseteq Seq(Quiets)
<1>1. Mutes \subseteq Quiets /\ Mutes \subseteq ClientEvent
  BY DEF Mutes, Quiets
<1>2. QED BY <1>1, SeqMonotonic

LEMMA MutelyTwice ==
    ASSUME NEW s \in Translator, NEW t, NEW u, Mutely(t, s), Mutely(u, t)
    PROVE  Mutely(u, s)
<1>1. PICK es \in Seq(Mutes) : SaidMore(t, s, es)
  BY DEF Mutely
<1>2. PICK fs \in Seq(Mutes) : SaidMore(u, t, fs)
  BY DEF Mutely
<1>3. PICK gs : IsJoin(gs, es, fs) /\ SaidMore(u, s, gs)
  BY <1>1, <1>2, SaidTwice
<1>4. gs \in Seq(Mutes)
  BY <1>3, ConcatProperties DEF IsJoin
<1>5. QED BY <1>3, <1>4, Zenon DEF Mutely

\* What only remembers says nothing.
LEMMA SilentMutely ==
    ASSUME NEW s \in Translator
    PROVE  /\ Mutely(s, s)
           /\ \A x \in BOOLEAN : Mutely([s EXCEPT !.started = x], s) /\ Mutely([s EXCEPT !.usage = x], s)
           /\ \A x \in SUBSET BlockName : Mutely([s EXCEPT !.blocks = x], s)
<1>1. PICK es : es = <<>>
  OBVIOUS
<1>2. es \in Seq(Mutes) /\ es \in Seq(ClientEvent)
  BY <1>1
<1>3. PICK p : p = s.pending
  OBVIOUS
<1>4. IsJoin(p, p, es)
  <2>1. p \in Seq(ClientEvent)
    BY <1>3, FieldTypes
  <2>2. QED BY <1>1, <2>1, ConcatEmptySeq DEF IsJoin
<1>5. ASSUME NEW t \in Translator, t.pending = s.pending, t.text = s.text, t.calls = s.calls,
             t.tools = s.tools, t.finished = s.finished
      PROVE  Mutely(t, s)
  <2>1. SaidMore(t, s, es)
    BY <1>2, <1>3, <1>4, <1>5, Zenon DEF SaidMore
  <2>2. QED BY <1>2, <2>1, Zenon DEF Mutely
<1>6. ASSUME NEW x \in BOOLEAN
      PROVE  Mutely([s EXCEPT !.started = x], s) /\ Mutely([s EXCEPT !.usage = x], s)
  <2>1. PICK t : t = [s EXCEPT !.started = x]
    OBVIOUS
  <2>2. t \in Translator
    BY <2>1, TranslatorFields
  <2>3. /\ t.pending = s.pending /\ t.text = s.text /\ t.calls = s.calls
        /\ t.tools = s.tools /\ t.finished = s.finished
    BY <2>1, OtherFields, Zenon
  <2>4. PICK u : u = [s EXCEPT !.usage = x]
    OBVIOUS
  <2>5. u \in Translator
    BY <2>4, TranslatorFields
  <2>6. /\ u.pending = s.pending /\ u.text = s.text /\ u.calls = s.calls
        /\ u.tools = s.tools /\ u.finished = s.finished
    BY <2>4, OtherFields, Zenon
  <2>7. QED BY <1>5, <2>1, <2>2, <2>3, <2>4, <2>5, <2>6, Zenon
<1>7. ASSUME NEW x \in SUBSET BlockName PROVE Mutely([s EXCEPT !.blocks = x], s)
  <2>1. PICK t : t = [s EXCEPT !.blocks = x]
    OBVIOUS
  <2>2. t \in Translator
    BY <2>1, TranslatorFields
  <2>3. /\ t.pending = s.pending /\ t.text = s.text /\ t.calls = s.calls
        /\ t.tools = s.tools /\ t.finished = s.finished
    BY <2>1, OtherFields, Zenon
  <2>4. QED BY <1>5, <2>1, <2>2, <2>3, Zenon
<1>8. QED BY <1>5, <1>6, <1>7

\* The events that tell no piece.
LEMMA MuteEvents ==
    /\ \A k \in MuteKinds : Plain(k) \in Mutes
    /\ \A k \in MuteKinds, b \in BlockName : About(k, b) \in Mutes
    /\ \A b \in BlockName : About("added", b) \in Quiets
    /\ About("added", Text) \in Mutes
    /\ Text \in BlockName /\ \A i \in Nat : ToolCall(i) \in BlockName
<1>1. <<"none", 0>> \in BlockName /\ Text \in BlockName /\ \A i \in Nat : ToolCall(i) \in BlockName
  BY DEF BlockName, Text, ToolCall
<1>2. <<0, "exact">> \in Payload
  BY DEF Payload, Forms
<1>3. ASSUME NEW k \in MuteKinds, NEW b \in BlockName PROVE About(k, b) \in Mutes
  BY <1>2 DEF About, Event, Mutes, Quiets, Opening, ClientEvent, MuteKinds
<1>4. ASSUME NEW k \in MuteKinds PROVE Plain(k) \in Mutes
  <2>1. Plain(k) = About(k, <<"none", 0>>)
    BY DEF Plain, About
  <2>2. QED BY <1>1, <1>3, <2>1, Zenon
<1>5. ASSUME NEW b \in BlockName PROVE About("added", b) \in Quiets
  BY <1>2 DEF About, Event, Quiets, ClientEvent, Kinds
<1>6. About("added", Text) \in Mutes
  <2>1. About("added", Text).b = Text
    BY DEF About, Event
  <2>2. QED BY <1>1, <1>5, <2>1 DEF Mutes
<1>7. QED BY <1>1, <1>3, <1>4, <1>5, <1>6

LEMMA SayMute ==
    ASSUME NEW s \in Translator, NEW e \in Mutes
    PROVE  Mutely(Say(s, e), s) /\ Say(s, e).blocks = s.blocks /\ Say(s, e) \in Translator
<1>1. e \in ClientEvent
  BY MuteSeqs
<1>2. PICK f : AtNumber(f, e, s.seq) /\ SaidMore(Say(s, e), s, <<f>>) /\ Say(s, e).blocks = s.blocks
  BY <1>1, SaySays
<1>3. s.seq \in Nat
  BY FieldTypes
<1>4. f \in ClientEvent /\ f.k = e.k /\ f.b = e.b /\ f.p = e.p
  BY <1>1, <1>2, <1>3, NumberedEvent
<1>5. f \in Mutes
  BY <1>4 DEF Mutes, Quiets
<1>6. PICK es : es = <<f>>
  OBVIOUS
<1>7. es \in Seq(Mutes)
  BY <1>5, <1>6
<1>8. SaidMore(Say(s, e), s, es)
  BY <1>2, <1>6, Zenon
<1>9. QED BY <1>2, <1>7, <1>8, Zenon DEF Mutely, SaidMore

\* A call that is opened says no piece.
LEMMA SayQuiet ==
    ASSUME NEW s \in Translator, NEW e \in Quiets
    PROVE  Quietly(Say(s, e), s)
<1>1. e \in ClientEvent /\ s.seq \in Nat
  BY FieldTypes DEF Quiets
<1>2. PICK f : AtNumber(f, e, s.seq) /\ SaidMore(Say(s, e), s, <<f>>)
  BY <1>1, SaySays
<1>3. f \in ClientEvent /\ f.k = e.k /\ f.p = e.p
  BY <1>1, <1>2, NumberedEvent
<1>4. f \in Quiets
  BY <1>3 DEF Quiets
<1>5. PICK es : es = <<f>>
  OBVIOUS
<1>6. es \in Seq(Quiets)
  BY <1>4, <1>5
<1>7. SaidMore(Say(s, e), s, es)
  BY <1>2, <1>5, Zenon
<1>8. QED BY <1>6, <1>7, Zenon DEF Quietly

LEMMA PushMute ==
    ASSUME NEW s \in Translator, NEW e \in Mutes
    PROVE  Mutely(Push(s, e), s) /\ Push(s, e) \in Translator
<1>1. e \in ClientEvent
  BY MuteSeqs
<1>2. PICK es : es = <<e>>
  OBVIOUS
<1>3. SaidMore(Push(s, e), s, es)
  BY <1>1, <1>2, PushSays, Zenon
<1>4. es \in Seq(Mutes)
  BY <1>2
<1>5. QED BY <1>3, <1>4, Zenon DEF Mutely, SaidMore

\* Two events in a row.
LEMMA TwoMute ==
    ASSUME NEW s \in Translator, NEW e \in Mutes, NEW f \in Mutes
    PROVE  /\ Mutely(Say(Say(s, e), f), s) /\ Say(Say(s, e), f).blocks = s.blocks
           /\ Say(Say(s, e), f) \in Translator
<1>1. PICK t : t = Say(s, e)
  OBVIOUS
<1>2. t \in Translator /\ Mutely(t, s) /\ t.blocks = s.blocks
  BY <1>1, SayMute
<1>3. PICK u : u = Say(t, f)
  OBVIOUS
<1>4. u \in Translator /\ Mutely(u, t) /\ u.blocks = t.blocks
  BY <1>2, <1>3, SayMute
<1>5. Mutely(u, s)
  BY <1>2, <1>4, MutelyTwice
<1>6. QED BY <1>1, <1>2, <1>3, <1>4, <1>5, Zenon

LEMMA CreatedMutely ==
    ASSUME NEW s \in Translator
    PROVE  Mutely(Created(s), s) /\ Created(s).blocks = s.blocks /\ Created(s) \in Translator
<1>1. CASE s.started
  BY <1>1, SilentMutely, Zenon DEF Created
<1>2. CASE ~s.started
  <2>1. PICK t : t = [s EXCEPT !.started = TRUE]
    OBVIOUS
  <2>2. t \in Translator /\ Mutely(t, s)
    BY <2>1, TranslatorFields, SilentMutely, Zenon
  <2>3. t.blocks = s.blocks
    BY <2>1 DEF Translator
  <2>4. PICK e, f : e = Plain("created") /\ f = Plain("in_progress")
    OBVIOUS
  <2>5. e \in Mutes /\ f \in Mutes
    <3>1. "created" \in MuteKinds /\ "in_progress" \in MuteKinds
      BY DEF Kinds, MuteKinds
    <3>2. QED BY <2>4, <3>1, MuteEvents, Zenon
  <2>6. PICK u : u = Say(Say(t, e), f)
    OBVIOUS
  <2>7. u \in Translator /\ Mutely(u, t) /\ u.blocks = t.blocks
    BY <2>2, <2>5, <2>6, TwoMute
  <2>8. Mutely(u, s)
    BY <2>2, <2>7, MutelyTwice
  <2>9. Created(s) = u
    BY <1>2, <2>1, <2>4, <2>6, Zenon DEF Created
  <2>10. QED BY <2>3, <2>7, <2>8, <2>9, Zenon
<1>3. QED BY <1>1, <1>2

LEMMA TextAddedMutely ==
    ASSUME NEW s \in Translator
    PROVE  Mutely(TextAdded(s), s) /\ TextAdded(s) \in Translator /\ Text \in TextAdded(s).blocks
<1>1. CASE Text \in s.blocks
  BY <1>1, SilentMutely, Zenon DEF TextAdded
<1>2. CASE Text \notin s.blocks
  <2>1. PICK x : x = s.blocks \cup {Text}
    OBVIOUS
  <2>2. x \in SUBSET BlockName /\ Text \in x
    BY <2>1, FieldTypes, MuteEvents
  <2>3. PICK t : t = [s EXCEPT !.blocks = x]
    OBVIOUS
  <2>4. t \in Translator /\ Mutely(t, s) /\ t.blocks = x
    <3>1. t \in Translator
      BY <2>2, <2>3, TranslatorFields
    <3>2. Mutely(t, s)
      BY <2>2, <2>3, SilentMutely, Zenon
    <3>3. t.blocks = x
      BY <2>3 DEF Translator
    <3>4. QED BY <3>1, <3>2, <3>3
  <2>5. PICK e, f : e = About("added", Text) /\ f = About("part", Text)
    OBVIOUS
  <2>6. e \in Mutes /\ f \in Mutes
    <3>1. "part" \in MuteKinds
      BY DEF Kinds, MuteKinds
    <3>2. Text \in BlockName
      BY MuteEvents
    <3>3. QED BY <2>5, <3>1, <3>2, MuteEvents, Zenon
  <2>7. PICK u : u = Say(Say(t, e), f)
    OBVIOUS
  <2>8. u \in Translator /\ Mutely(u, t) /\ u.blocks = t.blocks
    BY <2>4, <2>6, <2>7, TwoMute
  <2>9. Mutely(u, s)
    BY <2>4, <2>8, MutelyTwice
  <2>10. TextAdded(s) = u
    BY <1>2, <2>1, <2>3, <2>5, <2>7, Zenon DEF TextAdded
  <2>11. QED BY <2>2, <2>4, <2>8, <2>9, <2>10, Zenon
<1>3. QED BY <1>1, <1>2

\* What a translator keeps, with what was sent before.
KeepsIn(sent, s) ==
    /\ s \in Translator /\ sent \in Seq(ClientEvent) /\ s.finished = FALSE
    /\ \E all : IsJoin(all, sent, s.pending) /\ Keeps(all, s.text, s.calls)

\* The events so far, of a translator that says more.
LEMMA SaidAll ==
    ASSUME NEW s \in Translator, NEW sent \in Seq(ClientEvent), NEW all, IsJoin(all, sent, s.pending),
           NEW t, NEW es, SaidMore(t, s, es)
    PROVE  \E longer : /\ IsJoin(longer, sent, t.pending) /\ IsJoin(longer, all, es)
                       /\ longer \in Seq(ClientEvent)
<1>1. PICK p, q : p = s.pending /\ q = t.pending
  OBVIOUS
<1>2. p \in Seq(ClientEvent) /\ es \in Seq(ClientEvent) /\ q = p \o es /\ all = sent \o p
  BY <1>1, FieldTypes DEF SaidMore, IsJoin
<1>3. (sent \o p) \o es = sent \o (p \o es)
  BY <1>2, ConcatAssociative
<1>4. PICK longer : longer = sent \o q
  OBVIOUS
<1>5. IsJoin(longer, sent, q) /\ IsJoin(longer, all, es)
  BY <1>2, <1>3, <1>4, Zenon DEF IsJoin
<1>6. longer \in Seq(ClientEvent)
  <2>1. q \in Seq(ClientEvent)
    BY <1>1, FieldTypes DEF SaidMore
  <2>2. QED BY <1>4, <2>1, ConcatProperties
<1>7. QED BY <1>1, <1>5, <1>6, Zenon

LEMMA KeepsQuietly ==
    ASSUME NEW sent, NEW s, KeepsIn(sent, s), NEW t, Quietly(t, s)
    PROVE  KeepsIn(sent, t)
<1>1. PICK all : IsJoin(all, sent, s.pending) /\ Keeps(all, s.text, s.calls)
  BY Zenon DEF KeepsIn
<1>2. PICK es \in Seq(Quiets) : SaidMore(t, s, es)
  BY DEF Quietly
<1>3. s \in Translator /\ sent \in Seq(ClientEvent)
  BY Zenon DEF KeepsIn
<1>4. PICK longer : IsJoin(longer, sent, t.pending) /\ IsJoin(longer, all, es)
  BY <1>1, <1>2, <1>3, SaidAll
<1>5. PICK text, calls : text = s.text /\ calls = s.calls
  OBVIOUS
<1>6. Keeps(longer, text, calls)
  BY <1>1, <1>2, <1>4, <1>5, KeepsQuiet
<1>7. QED BY <1>2, <1>3, <1>4, <1>5, <1>6, Zenon DEF KeepsIn, SaidMore

LEMMA KeepsMutely ==
    ASSUME NEW sent, NEW s, KeepsIn(sent, s), NEW t, Mutely(t, s)
    PROVE  KeepsIn(sent, t)
<1>1. Quietly(t, s)
  BY MuteSeqs DEF Mutely, Quietly
<1>2. QED BY <1>1, KeepsQuietly

-----------------------------------------------------------------------------
(* What says a piece keeps it.                                             *)

LEMMA SawToolKeeps ==
    ASSUME NEW sent, NEW s, KeepsIn(sent, s)
    PROVE  KeepsIn(sent, SawTool(s)) /\ SawTool(s).calls = s.calls
<1>1. PICK t : t = [s EXCEPT !.tools = TRUE]
  OBVIOUS
<1>2. s \in Translator
  BY Zenon DEF KeepsIn
<1>3. t \in Translator
  BY <1>1, <1>2, TranslatorFields
<1>4. t.pending = s.pending /\ t.text = s.text /\ t.calls = s.calls /\ t.finished = s.finished
  BY <1>1, <1>2, MemoryFields, Zenon
<1>5. SawTool(s) = t
  BY <1>1, Zenon DEF SawTool
<1>6. QED BY <1>3, <1>4, <1>5, Zenon DEF KeepsIn

LEMMA SayTextKeeps ==
    ASSUME NEW sent, NEW s, KeepsIn(sent, s), NEW p \in Payload, p[1] # 0,
           NEW more, IsMore(more, s.text, p), NEW t, t = [s EXCEPT !.text = more]
    PROVE  KeepsIn(sent, Say(t, Piece("text", Text, p)))
<1>1. PICK all : IsJoin(all, sent, s.pending) /\ Keeps(all, s.text, s.calls)
  BY Zenon DEF KeepsIn
<1>2. s \in Translator /\ sent \in Seq(ClientEvent) /\ s.finished = FALSE
  BY Zenon DEF KeepsIn
<1>3. more \in Seq(Payload)
  <2>1. s.text \in Seq(Payload)
    BY <1>2, FieldTypes
  <2>2. QED BY <2>1, AppendProperties DEF IsMore
<1>4. t \in Translator
  BY <1>2, <1>3, TranslatorFields
<1>5. t.pending = s.pending /\ t.text = more /\ t.calls = s.calls /\ t.finished = s.finished
  BY <1>2, MemoryFields, Zenon
<1>6. PICK e : e = Piece("text", Text, p)
  OBVIOUS
<1>7. e \in ClientEvent /\ e.k = "text" /\ e.b = Text /\ e.p = p
  <2>1. Text \in BlockName /\ "text" \in Kinds
    BY MuteEvents DEF Kinds
  <2>2. QED BY <1>6, <2>1 DEF Piece, Event, ClientEvent
<1>8. PICK u : u = Say(t, e)
  OBVIOUS
<1>9. PICK f : AtNumber(f, e, t.seq) /\ SaidMore(u, t, <<f>>)
  BY <1>4, <1>7, <1>8, SaySays
<1>10. f \in ClientEvent /\ f.k = "text" /\ f.b = Text /\ f.p = p
  <2>1. t.seq \in Nat
    BY <1>4, FieldTypes
  <2>2. QED BY <1>7, <1>9, <2>1, NumberedEvent
<1>11. PICK one : one = <<f>>
  OBVIOUS
<1>12. SaidMore(u, t, one) /\ IsJoin(all, sent, t.pending)
  BY <1>1, <1>5, <1>9, <1>11, Zenon
<1>13. PICK longer : IsJoin(longer, sent, u.pending) /\ IsJoin(longer, all, one)
  BY <1>2, <1>4, <1>12, SaidAll
<1>14. IsMore(longer, all, f)
  <2>1. all \in Seq(ClientEvent)
    BY <1>1 DEF Keeps
  <2>2. QED BY <1>10, <1>11, <1>13, <2>1, JoinOne
<1>15. PICK text, calls : text = s.text /\ calls = s.calls
  OBVIOUS
<1>16. Keeps(longer, more, calls)
  <2>1. Keeps(all, text, calls) /\ IsMore(more, text, f.p) /\ f.p[1] # 0
    BY <1>1, <1>10, <1>15, Zenon
  <2>2. QED BY <1>10, <1>14, <2>1, KeepsText
<1>17. QED BY <1>2, <1>5, <1>6, <1>8, <1>9, <1>13, <1>15, <1>16, Zenon DEF KeepsIn, SaidMore

\* A call that was added, or remembered already.
LEMMA CallKeeps ==
    ASSUME NEW sent, NEW s, KeepsIn(sent, s), NEW i \in Nat,
           NEW c, WithArgs(c, s.calls, i, OfCall(s.calls, i)), NEW t, t = [s EXCEPT !.calls = c]
    PROVE  KeepsIn(sent, t)
<1>1. PICK all : IsJoin(all, sent, s.pending) /\ Keeps(all, s.text, s.calls)
  BY Zenon DEF KeepsIn
<1>2. s \in Translator /\ sent \in Seq(ClientEvent) /\ s.finished = FALSE
  BY Zenon DEF KeepsIn
<1>3. PICK text, calls : text = s.text /\ calls = s.calls
  OBVIOUS
<1>4. Keeps(all, text, c)
  <2>1. Keeps(all, text, calls) /\ WithArgs(c, calls, i, OfCall(calls, i))
    BY <1>1, <1>3, Zenon
  <2>2. QED BY <2>1, KeepsCall
<1>5. c \in CallTables
  BY <1>4, Zenon DEF Keeps
<1>6. t \in Translator
  BY <1>2, <1>5, TranslatorFields
<1>7. t.pending = s.pending /\ t.text = s.text /\ t.calls = c /\ t.finished = s.finished
  BY <1>2, MemoryFields, Zenon
<1>8. QED BY <1>1, <1>2, <1>3, <1>4, <1>6, <1>7, Zenon DEF KeepsIn

\* s with other calls.
HasCalls(t, s, c) == t = [s EXCEPT !.calls = c]

\* A piece of arguments, which may follow the mute event that adds the call.
LEMMA SayArgsKeeps ==
    ASSUME NEW sent, NEW s, KeepsIn(sent, s), NEW i \in Nat, NEW p \in Payload, p[1] # 0,
           NEW args, IsMore(args, OfCall(s.calls, i), p), NEW c, WithArgs(c, s.calls, i, args),
           NEW t, HasCalls(t, s, c), NEW u, t \in Translator => Quietly(u, t)
    PROVE  KeepsIn(sent, Say(u, Piece("args", ToolCall(i), p))) /\ t \in Translator
<1>1. PICK all : IsJoin(all, sent, s.pending) /\ Keeps(all, s.text, s.calls)
  BY Zenon DEF KeepsIn
<1>2. s \in Translator /\ sent \in Seq(ClientEvent) /\ s.finished = FALSE
  BY Zenon DEF KeepsIn
<1>3. PICK text, calls : text = s.text /\ calls = s.calls
  OBVIOUS
<1>4. Keeps(all, text, calls) /\ IsMore(args, OfCall(calls, i), p) /\ WithArgs(c, calls, i, args)
  BY <1>1, <1>3, Zenon
<1>5. c \in CallTables
  <2>1. OfCall(calls, i) \in Seq(Payload)
    BY <1>4, KeepsTypes
  <2>2. args \in Seq(Payload)
    BY <1>4, <2>1, AppendProperties DEF IsMore
  <2>3. calls \in CallTables /\ IsFiniteSet(DOMAIN calls)
    BY <1>4, Zenon DEF Keeps
  <2>4. TableWith(c, calls, i, args)
    BY <1>4, <2>2, <2>3, WithArgsIs
  <2>5. QED BY <2>4, Zenon DEF TableWith
<1>6. t \in Translator
  BY <1>2, <1>5, TranslatorFields DEF HasCalls
<1>7. t.pending = s.pending /\ t.text = s.text /\ t.calls = c /\ t.finished = s.finished
  BY <1>2, MemoryFields, Zenon DEF HasCalls
<1>8. PICK es \in Seq(Quiets) : SaidMore(u, t, es)
  BY <1>6, Zenon DEF Quietly
<1>9. IsJoin(all, sent, t.pending) /\ u \in Translator
  BY <1>1, <1>7, <1>8, Zenon DEF SaidMore
<1>10. PICK longer : IsJoin(longer, sent, u.pending) /\ IsJoin(longer, all, es)
  BY <1>2, <1>6, <1>8, <1>9, SaidAll
<1>11. Keeps(longer, text, calls)
  BY <1>4, <1>10, KeepsQuiet
<1>12. PICK e : e = Piece("args", ToolCall(i), p)
  OBVIOUS
<1>13. e \in ClientEvent /\ e.k = "args" /\ e.b = ToolCall(i) /\ e.p = p
  <2>1. ToolCall(i) \in BlockName /\ "args" \in Kinds
    BY MuteEvents DEF Kinds
  <2>2. QED BY <1>12, <2>1 DEF Piece, Event, ClientEvent
<1>14. PICK v : v = Say(u, e)
  OBVIOUS
<1>15. PICK f : AtNumber(f, e, u.seq) /\ SaidMore(v, u, <<f>>)
  BY <1>9, <1>13, <1>14, SaySays
<1>16. f \in ClientEvent /\ f.k = "args" /\ f.b = ToolCall(i) /\ f.p = p
  <2>1. u.seq \in Nat
    BY <1>9, FieldTypes
  <2>2. QED BY <1>13, <1>15, <2>1, NumberedEvent
<1>17. PICK one : one = <<f>>
  OBVIOUS
<1>18. SaidMore(v, u, one)
  BY <1>15, <1>17, Zenon
<1>19. PICK longest : IsJoin(longest, sent, v.pending) /\ IsJoin(longest, longer, one)
  BY <1>2, <1>9, <1>10, <1>18, SaidAll
<1>20. IsMore(longest, longer, f)
  <2>1. longer \in Seq(ClientEvent)
    BY <1>11 DEF Keeps
  <2>2. QED BY <1>16, <1>17, <1>19, <2>1, JoinOne
<1>21. Keeps(longest, text, c)
  <2>1. f.p[1] # 0 /\ IsMore(args, OfCall(calls, i), f.p)
    BY <1>4, <1>16, Zenon
  <2>2. QED BY <1>4, <1>11, <1>16, <1>20, <2>1, KeepsArgs
<1>22. v \in Translator /\ v.text = text /\ v.calls = c /\ v.finished = FALSE
  BY <1>2, <1>3, <1>7, <1>8, <1>18, Zenon DEF SaidMore
<1>23. QED BY <1>2, <1>6, <1>12, <1>14, <1>19, <1>21, <1>22, Zenon DEF KeepsIn

LEMMA ResponsesTextKeeps ==
    ASSUME NEW sent, NEW s, KeepsIn(sent, s), NEW e, e.p \in Payload, e.p[1] # 0
    PROVE  KeepsIn(sent, ResponsesText(s, e))
<1>1. PICK c, p : c = Created(s) /\ p = e.p
  OBVIOUS
<1>2. PICK o : o = TextAdded(c)
  OBVIOUS
<1>3. s \in Translator
  BY Zenon DEF KeepsIn
<1>4. c \in Translator /\ Mutely(c, s)
  BY <1>1, <1>3, CreatedMutely
<1>5. Mutely(o, c)
  BY <1>2, <1>4, TextAddedMutely
<1>6. KeepsIn(sent, c)
  BY <1>4, KeepsMutely
<1>7. KeepsIn(sent, o)
  BY <1>5, <1>6, KeepsMutely
<1>8. PICK more, t : more = Append(o.text, p) /\ t = [o EXCEPT !.text = more]
  OBVIOUS
<1>9. KeepsIn(sent, Say(t, Piece("text", Text, p)))
  <2>1. IsMore(more, o.text, p)
    BY <1>8, Zenon DEF IsMore
  <2>2. p \in Payload /\ p[1] # 0
    BY <1>1
  <2>3. QED BY <1>7, <1>8, <2>1, <2>2, SayTextKeeps
<1>10. QED BY <1>1, <1>2, <1>8, <1>9, Zenon DEF ResponsesText

LEMMA ResponsesCallKeeps ==
    ASSUME NEW sent, NEW s, KeepsIn(sent, s), NEW e, e.i \in Nat, e.p \in Payload,
           e.p = Nothing \/ e.p[1] # 0
    PROVE  KeepsIn(sent, ResponsesCall(s, e))
<1>1. PICK b, i, p : b = Created(s) /\ i = e.i /\ p = e.p
  OBVIOUS
<1>2. PICK o : o = SawTool(b)
  OBVIOUS
<1>3. s \in Translator
  BY Zenon DEF KeepsIn
<1>4. Mutely(b, s)
  BY <1>1, <1>3, CreatedMutely
<1>5. KeepsIn(sent, b)
  BY <1>4, KeepsMutely
<1>6. KeepsIn(sent, o)
  BY <1>2, <1>5, SawToolKeeps
<1>7. PICK old, args, c, t :
         /\ old = OfCall(o.calls, i) /\ args = (IF p = Nothing THEN old ELSE Append(old, p))
         /\ c = [j \in DOMAIN o.calls \cup {i} |-> IF j = i THEN args ELSE o.calls[j]]
         /\ t = [o EXCEPT !.calls = c]
  OBVIOUS
<1>8. AddCall(o, i, p) = t /\ WithArgs(c, o.calls, i, args)
  <2>1. Arguments(o, i) = old
    BY <1>7, Zenon DEF Arguments, OfCall
  <2>2. WithArgs(c, o.calls, i, args)
    BY <1>7, Zenon DEF WithArgs
  <2>3. AddCall(o, i, p) = [o EXCEPT !.calls = [j \in DOMAIN o.calls \cup {i} |-> IF j = i THEN args ELSE o.calls[j]]]
    BY <1>7, <2>1, Zenon DEF AddCall
  <2>4. QED BY <1>7, <2>2, <2>3, Zenon
<1>9. PICK u : u = IF Arguments(s, i) = <<>> THEN Say(t, About("added", ToolCall(i))) ELSE t
  OBVIOUS
<1>10. i \in Nat /\ p \in Payload
  BY <1>1
<1>11. t \in Translator => Quietly(u, t)
  <2>1. PICK x : x = About("added", ToolCall(i))
    OBVIOUS
  <2>2. x \in Quiets
    BY <1>10, <2>1, MuteEvents
  <2>3. ASSUME t \in Translator, Arguments(s, i) = <<>> PROVE Quietly(u, t)
    BY <1>9, <2>1, <2>2, <2>3, SayQuiet, Zenon
  <2>4. ASSUME t \in Translator, Arguments(s, i) # <<>> PROVE Quietly(u, t)
    <3>1. Mutely(u, t)
      BY <1>9, <2>4, SilentMutely
    <3>2. QED BY <3>1, MuteSeqs DEF Mutely, Quietly
  <2>5. QED BY <2>3, <2>4
<1>12. ResponsesCall(s, e) = IF p = Nothing THEN u ELSE Say(u, Piece("args", ToolCall(i), p))
  BY <1>1, <1>2, <1>8, <1>9, Zenon DEF ResponsesCall
<1>13. CASE p = Nothing
  <2>1. WithArgs(c, o.calls, i, OfCall(o.calls, i))
    BY <1>7, <1>8, <1>13, Zenon
  <2>2. KeepsIn(sent, t)
    BY <1>6, <1>7, <1>10, <2>1, CallKeeps
  <2>3. KeepsIn(sent, u)
    <3>1. t \in Translator
      BY <2>2, Zenon DEF KeepsIn
    <3>2. QED BY <1>11, <2>2, <3>1, KeepsQuietly
  <2>4. QED BY <1>12, <1>13, <2>3, Zenon
<1>14. CASE p # Nothing
  <2>1. p[1] # 0
    BY <1>1, <1>14
  <2>2. IsMore(args, OfCall(o.calls, i), p)
    BY <1>7, <1>14, Zenon DEF IsMore
  <2>3. HasCalls(t, o, c)
    BY <1>7, Zenon DEF HasCalls
  <2>4. KeepsIn(sent, Say(u, Piece("args", ToolCall(i), p)))
    BY <1>6, <1>8, <1>10, <1>11, <2>1, <2>2, <2>3, SayArgsKeeps
  <2>5. QED BY <1>12, <1>14, <2>4, Zenon
<1>15. QED BY <1>13, <1>14

-----------------------------------------------------------------------------
(* What the end of a stream says.                                          *)

\* t is s after it said mute events: these items are done, these kinds occur.
Ending(t, s, items, kinds) ==
    \E es \in Seq(Mutes) : /\ SaidMore(t, s, es)
                           /\ \A b \in items : Done(es, b)
                           /\ \A k \in kinds : Has(es, k)

LEMMA EndingTwice ==
    ASSUME NEW s \in Translator, NEW t, NEW u, NEW items, NEW kinds, NEW others, NEW more,
           Ending(t, s, items, kinds), Ending(u, t, others, more)
    PROVE  Ending(u, s, items \cup others, kinds \cup more)
<1>1. PICK es \in Seq(Mutes) : SaidMore(t, s, es) /\ (\A b \in items : Done(es, b)) /\ \A k \in kinds : Has(es, k)
  BY Zenon DEF Ending
<1>2. PICK fs \in Seq(Mutes) : SaidMore(u, t, fs) /\ (\A b \in others : Done(fs, b)) /\ \A k \in more : Has(fs, k)
  BY Zenon DEF Ending
<1>3. PICK gs : IsJoin(gs, es, fs) /\ SaidMore(u, s, gs)
  BY <1>1, <1>2, SaidTwice
<1>4. gs \in Seq(Mutes) /\ (\A k : Has(gs, k) <=> Has(es, k) \/ Has(fs, k))
      /\ \A b : Done(gs, b) <=> Done(es, b) \/ Done(fs, b)
  BY <1>1, <1>2, <1>3, JoinHas
<1>5. (\A b \in items \cup others : Done(gs, b)) /\ \A k \in kinds \cup more : Has(gs, k)
  BY <1>1, <1>2, <1>4
<1>6. QED BY <1>3, <1>4, <1>5, Zenon DEF Ending

LEMMA MutelyEnding ==
    ASSUME NEW s, NEW t, Mutely(t, s)
    PROVE  Ending(t, s, {}, {})
BY DEF Mutely, Ending

\* One event.
LEMMA SayEnding ==
    ASSUME NEW s \in Translator, NEW e \in Mutes, NEW items, NEW kinds,
           \A b \in items : b = e.b /\ e.k = "done", \A k \in kinds : k = e.k
    PROVE  /\ Ending(Say(s, e), s, items, kinds) /\ Say(s, e) \in Translator
           /\ Ending(Push(s, e), s, items, kinds) /\ Push(s, e) \in Translator
<1>1. e \in ClientEvent
  BY MuteSeqs
<1>2. ASSUME NEW f \in Mutes, f.k = e.k, f.b = e.b, NEW t, SaidMore(t, s, <<f>>)
      PROVE  Ending(t, s, items, kinds) /\ t \in Translator
  <2>1. PICK es : es = <<f>>
    OBVIOUS
  <2>2. es \in Seq(Mutes) /\ Len(es) = 1 /\ es[1] = f
    BY <2>1
  <2>3. (\A b \in items : Done(es, b)) /\ \A k \in kinds : Has(es, k)
    BY <1>2, <2>2 DEF Done, Has
  <2>4. SaidMore(t, s, es)
    BY <1>2, <2>1, Zenon
  <2>5. QED BY <2>2, <2>3, <2>4, Zenon DEF Ending, SaidMore
<1>3. SaidMore(Push(s, e), s, <<e>>)
  BY <1>1, PushSays
<1>4. PICK f : AtNumber(f, e, s.seq) /\ SaidMore(Say(s, e), s, <<f>>)
  BY <1>1, SaySays
<1>5. f \in Mutes /\ f.k = e.k /\ f.b = e.b
  <2>1. s.seq \in Nat
    BY FieldTypes
  <2>2. f \in ClientEvent /\ f.k = e.k /\ f.b = e.b /\ f.p = e.p
    BY <1>1, <1>4, <2>1, NumberedEvent
  <2>3. QED BY <2>2 DEF Mutes, Quiets
<1>6. QED BY <1>2, <1>3, <1>4, <1>5, Zenon

\* finish_text
LEMMA TextDoneEnds ==
    ASSUME NEW s \in Translator
    PROVE  Ending(TextDone(s), s, {Text}, {}) /\ TextDone(s) \in Translator
<1>1. PICK e, f, g : e = About("text.done", Text) /\ f = About("part.done", Text) /\ g = About("done", Text)
  OBVIOUS
<1>2. e \in Mutes /\ f \in Mutes /\ g \in Mutes /\ g.k = "done" /\ g.b = Text
  <2>1. /\ "text.done" \in MuteKinds /\ "part.done" \in MuteKinds
        /\ "done" \in MuteKinds /\ Text \in BlockName
    BY MuteEvents DEF Kinds, MuteKinds
  <2>2. e \in Mutes /\ f \in Mutes /\ g \in Mutes
    BY <1>1, <2>1, MuteEvents, Zenon
  <2>3. g.k = "done" /\ g.b = Text
    BY <1>1 DEF About, Event
  <2>4. QED BY <2>2, <2>3
<1>3. PICK t : t = TextAdded(s)
  OBVIOUS
<1>4. t \in Translator /\ Mutely(t, s)
  BY <1>3, TextAddedMutely
<1>5. PICK u : u = Say(Say(t, e), f)
  OBVIOUS
<1>6. u \in Translator /\ Mutely(u, t)
  BY <1>2, <1>4, <1>5, TwoMute
<1>7. PICK v : v = Say(u, g)
  OBVIOUS
<1>8. v \in Translator /\ Ending(v, u, {Text}, {})
  BY <1>2, <1>6, <1>7, SayEnding
<1>9. Mutely(u, s)
  BY <1>4, <1>6, MutelyTwice
<1>10. Ending(v, s, {} \cup {Text}, {} \cup {})
  BY <1>8, <1>9, EndingTwice, MutelyEnding
<1>11. {} \cup {Text} = {Text} /\ {} \cup {} = {}
  OBVIOUS
<1>12. TextDone(s) = v
  BY <1>1, <1>3, <1>5, <1>7, Zenon DEF TextDone
<1>13. Ending(v, s, {Text}, {})
  BY <1>10, <1>11, Zenon
<1>14. QED BY <1>8, <1>12, <1>13, Zenon

\* Events with their numbers.
NumberedFrom(fs, es, n) == fs = [j \in 1..Len(es) |-> [es[j] EXCEPT !.q = n + j - 1]]

LEMMA NumberedMutes ==
    ASSUME NEW es \in Seq(Mutes), NEW n \in Nat, NEW fs, NumberedFrom(fs, es, n)
    PROVE  fs \in Seq(Mutes) /\ Len(fs) = Len(es) /\ \A b : Done(es, b) => Done(fs, b)
<1>1. PICK m \in Nat : m = Len(es)
  OBVIOUS
<1>2. fs = [j \in 1..m |-> [es[j] EXCEPT !.q = n + j - 1]]
  BY <1>1, Zenon DEF NumberedFrom
<1>3. ASSUME NEW j \in 1..m
      PROVE  fs[j] \in Mutes /\ fs[j].k = es[j].k /\ fs[j].b = es[j].b
  <2>1. es[j] \in Mutes
    BY <1>1
  <2>2. PICK e, q, f : e = es[j] /\ q = n + j - 1 /\ f = [e EXCEPT !.q = q]
    OBVIOUS
  <2>3. e \in Mutes /\ q \in Nat
    BY <2>1, <2>2
  <2>4. f \in ClientEvent /\ f.k = e.k /\ f.b = e.b /\ f.p = e.p
    <3>1. e \in ClientEvent
      BY <2>3, MuteSeqs
    <3>2. AtNumber(f, e, q)
      BY <2>2, Zenon DEF AtNumber
    <3>3. QED BY <2>3, <3>1, <3>2, NumberedEvent
  <2>5. f \in Mutes
    BY <2>3, <2>4 DEF Mutes, Quiets
  <2>6. fs[j] = f
    BY <1>2, <2>2, Zenon
  <2>7. QED BY <2>2, <2>4, <2>5, <2>6, Zenon
<1>4. fs \in Seq(Mutes) /\ Len(fs) = m
  <2>1. fs = [j \in 1..m |-> fs[j]]
    BY <1>2
  <2>2. \A j \in 1..m : fs[j] \in Mutes
    BY <1>3
  <2>3. PICK T : T = Mutes
    OBVIOUS
  <2>4. fs \in [1..m -> T]
    BY <2>1, <2>2, <2>3
  <2>5. fs \in Seq(T) /\ Len(fs) = m
    BY <2>4
  <2>6. QED BY <2>3, <2>5, Zenon
<1>5. ASSUME NEW b, Done(es, b) PROVE Done(fs, b)
  BY <1>1, <1>3, <1>4, <1>5, Zenon DEF Done
<1>6. QED BY <1>1, <1>4, <1>5

LEMMA SayAllEnds ==
    ASSUME NEW s \in Translator, NEW es \in Seq(Mutes), NEW items, \A b \in items : Done(es, b)
    PROVE  Ending(SayAll(s, es), s, items, {}) /\ SayAll(s, es) \in Translator
<1>1. PICK n, fs : n = s.seq /\ fs = [j \in 1..Len(es) |-> [es[j] EXCEPT !.q = s.seq + j - 1]]
  OBVIOUS
<1>2. n \in Nat
  BY <1>1, FieldTypes
<1>3. NumberedFrom(fs, es, n)
  BY <1>1, Zenon DEF NumberedFrom
<1>4. fs \in Seq(Mutes) /\ \A b \in items : Done(fs, b)
  BY <1>2, <1>3, NumberedMutes
<1>5. PICK t : t = PushAll(s, fs)
  OBVIOUS
<1>6. SaidMore(t, s, fs)
  <2>1. fs \in Seq(ClientEvent)
    BY <1>4, MuteSeqs
  <2>2. QED BY <1>5, <2>1, PushAllSays
<1>7. PICK m, u : m = t.seq + Len(es) /\ u = [t EXCEPT !.seq = m]
  OBVIOUS
<1>8. t \in Translator
  BY <1>6 DEF SaidMore
<1>9. m \in Nat
  <2>1. t.seq \in Nat /\ Len(es) \in Nat
    BY <1>8, FieldTypes
  <2>2. QED BY <1>7, <2>1
<1>10. u \in Translator
  BY <1>7, <1>8, <1>9, TranslatorFields
<1>11. /\ u.pending = t.pending /\ u.text = t.text /\ u.calls = t.calls
       /\ u.tools = t.tools /\ u.finished = t.finished
  BY <1>7, <1>8, OtherFields
<1>12. SaidMore(u, s, fs)
  BY <1>6, <1>10, <1>11, Zenon DEF SaidMore
<1>13. SayAll(s, es) = u
  BY <1>1, <1>5, <1>7, Zenon DEF SayAll
<1>14. Ending(u, s, items, {})
  <2>1. \A k \in {} : Has(fs, k)
    OBVIOUS
  <2>2. QED BY <1>4, <1>12, <2>1, Zenon DEF Ending
<1>15. QED BY <1>10, <1>13, <1>14, Zenon

\* Sorting keeps every number.
LEMMA SortedHas ==
    ASSUME NEW D \in SUBSET Nat, IsFiniteSet(D), NEW q, q = Sorted(D)
    PROVE  q \in Seq(D) /\ \A i \in D : \E j \in 1..Len(q) : q[j] = i
<1>1. q \in Seq(D) /\ Len(q) = Cardinality(D) /\ \A i, j \in 1..Len(q) : i < j => q[i] < q[j]
  BY SortedAll
<1>2. \A i \in D : \E j \in 1..Len(q) : q[j] = i
  <2>1. PICK n \in Nat : n = Len(q)
    BY <1>1
  <2>2. \A i, j \in 1..n : q[i] = q[j] => i = j
    <3>1. q \in [1..n -> D]
      BY <1>1, <2>1
    <3>2. \A i, j \in 1..n : i < j => q[i] < q[j]
      BY <1>1, <2>1, Zenon
    <3>3. \A i \in 1..n : q[i] \in Nat
      BY <3>1
    <3>4. ASSUME NEW i \in 1..n, NEW j \in 1..n, q[i] = q[j] PROVE i = j
      <4>1. PICK x \in Nat, y \in Nat : x = q[i] /\ y = q[j]
        BY <3>3
      <4>2. (i < j => x < y) /\ (j < i => y < x) /\ x = y
        BY <3>2, <3>4, <4>1, Zenon
      <4>3. QED BY <4>2
    <3>5. QED BY <3>4
  <2>3. q \in Injection(1..n, D)
    BY <1>1, <2>1, <2>2 DEF Injection, IsInjective
  <2>4. IsFiniteSet(D) /\ Cardinality(1..n) = n /\ n = Cardinality(D)
    <3>1. Cardinality(1..n) = n
      BY FS_Interval
    <3>2. QED BY <1>1, <2>1, <3>1
  <2>5. q \in Surjection(1..n, D)
    BY <2>3, <2>4, FS_Injection
  <2>6. QED BY <2>1, <2>5 DEF Surjection
<1>3. QED BY <1>1, <1>2

\* finish_tool_calls
CallNames(calls) == {ToolCall(i) : i \in DOMAIN calls}

LEMMA IndexesAll ==
    ASSUME NEW s \in Translator, IsFiniteSet(DOMAIN s.calls)
    PROVE  /\ Indexes(s) \in Seq(DOMAIN s.calls) /\ DOMAIN s.calls \in SUBSET Nat
           /\ \A i \in DOMAIN s.calls : \E j \in 1..Len(Indexes(s)) : Indexes(s)[j] = i
<1>1. PICK D : D = DOMAIN s.calls
  OBVIOUS
<1>2. D \in SUBSET Nat
  <2>1. s.calls \in CallTables
    BY FieldTypes
  <2>2. QED BY <1>1, <2>1 DEF CallTables
<1>3. PICK q : q = Sorted(D)
  OBVIOUS
<1>4. q \in Seq(D) /\ \A i \in D : \E j \in 1..Len(q) : q[j] = i
  BY <1>1, <1>2, <1>3, SortedHas
<1>5. Indexes(s) = q
  BY <1>1, <1>3, Zenon DEF Indexes
<1>6. QED BY <1>1, <1>2, <1>4, <1>5, Zenon

LEMMA CallsDoneEnds ==
    ASSUME NEW s \in Translator, IsFiniteSet(DOMAIN s.calls)
    PROVE  Ending(CallsDone(s), s, CallNames(s.calls), {}) /\ CallsDone(s) \in Translator
<1>1. PICK D, q : D = DOMAIN s.calls /\ q = Indexes(s)
  OBVIOUS
<1>2. /\ q \in Seq(D) /\ D \in SUBSET Nat
      /\ \A i \in D : \E j \in 1..Len(q) : q[j] = i
  BY <1>1, IndexesAll
<1>3. PICK n \in Nat : n = Len(q)
  BY <1>2
<1>4. PICK tt : tt = [j \in 1..n |-> <<About("args.done", ToolCall(q[j])), About("done", ToolCall(q[j]))>>]
  OBVIOUS
<1>5. ASSUME NEW j \in 1..n
      PROVE  /\ tt[j] \in Seq(Mutes) /\ 2 \in 1..Len(tt[j])
             /\ tt[j][2].k = "done" /\ tt[j][2].b = ToolCall(q[j])
  <2>1. PICK e, f, two : e = About("args.done", ToolCall(q[j])) /\ f = About("done", ToolCall(q[j])) /\ two = <<e, f>>
    OBVIOUS
  <2>2. q[j] \in Nat
    <3>1. q[j] \in D
      BY <1>2, <1>3
    <3>2. QED BY <1>2, <3>1
  <2>3. e \in Mutes /\ f \in Mutes
    <3>1. "args.done" \in MuteKinds /\ "done" \in MuteKinds
      BY DEF Kinds, MuteKinds
    <3>2. QED BY <2>1, <2>2, <3>1, MuteEvents, Zenon
  <2>4. f.k = "done" /\ f.b = ToolCall(q[j])
    BY <2>1 DEF About, Event
  <2>5. two \in Seq(Mutes) /\ 2 \in 1..Len(two) /\ two[2] = f
    BY <2>1, <2>3
  <2>6. tt[j] = two
    BY <1>4, <2>1, Zenon
  <2>7. QED BY <2>4, <2>5, <2>6, Zenon
<1>6. tt \in Seq(Seq(Mutes)) /\ Len(tt) = n
  <2>1. tt = [j \in 1..n |-> tt[j]]
    BY <1>4
  <2>2. QED BY <1>5, <2>1, IsASeq
<1>7. PICK es : es = FlattenSeq(tt)
  OBVIOUS
<1>8. es \in Seq(Mutes)
  BY <1>6, <1>7, FlatType
<1>9. ASSUME NEW b \in CallNames(s.calls) PROVE Done(es, b)
  <2>1. PICK i \in D : b = ToolCall(i)
    BY <1>1 DEF CallNames
  <2>2. PICK j \in 1..n : q[j] = i
    BY <1>2, <1>3
  <2>3. j \in 1..Len(tt) /\ 2 \in 1..Len(tt[j])
    BY <1>5, <1>6
  <2>4. Occurs(tt[j][2], FlattenSeq(tt))
    BY <1>6, <2>3, FlatHas, Zenon
  <2>5. PICK m \in 1..Len(es) : es[m] = tt[j][2]
    BY <1>7, <2>4, Zenon DEF Occurs
  <2>6. es[m].k = "done" /\ es[m].b = b
    BY <1>5, <2>1, <2>2, <2>5, Zenon
  <2>7. QED BY <2>6, Zenon DEF Done
<1>10. PICK t, names : t = SayAll(s, es) /\ names = CallNames(s.calls)
  OBVIOUS
<1>11. Ending(t, s, names, {}) /\ t \in Translator
  BY <1>8, <1>9, <1>10, SayAllEnds
<1>12. CallsDone(s) = t
  BY <1>1, <1>3, <1>4, <1>7, <1>10, Zenon DEF CallsDone
<1>13. QED BY <1>10, <1>11, <1>12, Zenon

\* finish: what the items of the response are, they are done.
LastItems(s) == IF s.tools THEN CallNames(s.calls) ELSE {Text}

LEMMA ResponsesEndEnds ==
    ASSUME NEW s \in Translator, IsFiniteSet(DOMAIN s.calls), NEW storing
    PROVE  \E t : /\ Ending(t, s, LastItems(s), {"completed"})
                  /\ ResponsesEnd(s, storing) = [t EXCEPT !.finished = TRUE]
<1>1. PICK c : c = Created(s)
  OBVIOUS
<1>2. c \in Translator /\ Mutely(c, s)
  BY <1>1, CreatedMutely
<1>3. c.calls = s.calls /\ c.tools = s.tools
  BY <1>2 DEF Mutely, SaidMore
<1>4. PICK names, done : names = LastItems(s) /\ done = IF s.tools THEN CallsDone(c) ELSE TextDone(c)
  OBVIOUS
<1>5. done \in Translator /\ Ending(done, c, names, {})
  <2>1. CASE s.tools
    <3>1. IsFiniteSet(DOMAIN c.calls) /\ names = CallNames(c.calls) /\ done = CallsDone(c)
      BY <1>3, <1>4, <2>1, Zenon DEF LastItems
    <3>2. QED BY <1>2, <3>1, CallsDoneEnds, Zenon
  <2>2. CASE ~s.tools
    <3>1. names = {Text} /\ done = TextDone(c)
      BY <1>4, <2>2, Zenon DEF LastItems
    <3>2. QED BY <1>2, <3>1, TextDoneEnds, Zenon
  <2>3. QED BY <2>1, <2>2
<1>6. PICK r : r = IF storing = "fails" THEN Push(done, Plain("error")) ELSE done
  OBVIOUS
<1>7. /\ Plain("error") \in Mutes /\ Plain("completed") \in Mutes /\ Plain("[DONE]") \in Mutes
  <2>1. /\ "error" \in MuteKinds /\ "completed" \in MuteKinds
        /\ "[DONE]" \in MuteKinds
    BY DEF Kinds, MuteKinds
  <2>2. QED BY <2>1, MuteEvents, Zenon
<1>8. r \in Translator /\ Ending(r, done, {}, {})
  <2>1. CASE storing = "fails"
    <3>1. r = Push(done, Plain("error"))
      BY <1>6, <2>1
    <3>2. QED BY <1>5, <1>7, <3>1, PushMute, MutelyEnding, Zenon
  <2>2. CASE storing # "fails"
    <3>1. r = done
      BY <1>6, <2>2
    <3>2. QED BY <1>5, <3>1, SilentMutely, MutelyEnding, Zenon
  <2>3. QED BY <2>1, <2>2
<1>9. PICK e, u : e = Plain("completed") /\ u = Say(r, e)
  OBVIOUS
<1>10. u \in Translator /\ Ending(u, r, {}, {"completed"})
  <2>1. e \in Mutes
    BY <1>7, <1>9
  <2>2. e.k = "completed"
    BY <1>9 DEF Plain, Event
  <2>3. QED BY <1>8, <1>9, <2>1, <2>2, SayEnding
<1>11. PICK t : t = Push(u, Plain("[DONE]"))
  OBVIOUS
<1>12. Ending(t, u, {}, {})
  BY <1>7, <1>10, <1>11, PushMute, MutelyEnding, Zenon
<1>13. Ending(c, s, {}, {})
  BY <1>2, MutelyEnding
<1>14. Ending(done, s, {} \cup names, {} \cup {})
  BY <1>5, <1>13, EndingTwice
<1>15. Ending(r, s, names, {})
  <2>1. {} \cup names = names /\ names \cup {} = names /\ {} \cup {} = {}
    OBVIOUS
  <2>2. Ending(done, s, names, {})
    BY <1>14, <2>1, Zenon
  <2>3. Ending(r, s, names \cup {}, {} \cup {})
    BY <1>8, <2>2, EndingTwice
  <2>4. QED BY <2>1, <2>3, Zenon
<1>16. Ending(t, s, names, {"completed"})
  <2>1. names \cup {} = names /\ {} \cup {"completed"} = {"completed"} /\ {"completed"} \cup {} = {"completed"}
    OBVIOUS
  <2>2. Ending(u, s, names \cup {}, {} \cup {"completed"})
    BY <1>10, <1>15, EndingTwice
  <2>3. Ending(u, s, names, {"completed"})
    BY <2>1, <2>2, Zenon
  <2>4. Ending(t, s, names \cup {}, {"completed"} \cup {})
    BY <1>12, <2>3, EndingTwice
  <2>5. QED BY <2>1, <2>4, Zenon
<1>17. ResponsesEnd(s, storing) = [t EXCEPT !.finished = TRUE]
  <2>1. (IF s.tools THEN CallsDone(Created(s)) ELSE TextDone(Created(s))) = done
    BY <1>1, <1>4, Zenon
  <2>2. QED BY <1>6, <1>9, <1>11, <2>1, Zenon DEF ResponsesEnd, Ended
<1>18. QED BY <1>4, <1>16, <1>17, Zenon

-----------------------------------------------------------------------------
(* What is on its way to the translator.                                   *)

GoodPayload == {p \in Payload : p = Nothing \/ p[1] # 0}
DeltaReasons == {"none", "stop", "tool_calls", "function_call", "length", "other"}
Delta == [k : {"text", "call", "usage", "finish", "error"}, i : Nat, p : GoodPayload, r : DeltaReasons]

\* Frames that are whole, and one that is not.
Marks == {"exact", "garbled"}
Framed(fs) == [f : fs, n : Nat \ {0}, form : Marks]
Parted(fs) == {NoPart} \cup [f : fs, form : Marks]
Buffers(fs) == [whole : Seq(Framed(fs)), part : Parted(fs)]

WayInv ==
    /\ {"kind", "sent", "cuts", "state", "reason", "pieces", "usage"} \subseteq DOMAIN upstream
    /\ upstream.sent \in Nat
    /\ buffer \in Buffers(Frames) /\ ready \in Seq(Delta)

LEMMA DeltaTypes ==
    /\ \A p \in GoodPayload : TextDelta(p) \in Delta
    /\ \A i \in Nat, p \in GoodPayload : ToolCallDelta(i, p) \in Delta
    /\ Usage \in Delta /\ Rejected \in Delta
    /\ \A r \in DeltaReasons : Finish(r) \in Delta
    /\ \A n \in Nat \ {0}, form \in Forms : <<n, form>> \in GoodPayload
    /\ Nothing \in GoodPayload
<1>1. Nothing \in GoodPayload
  BY DEF Nothing, GoodPayload, Payload, Forms
<1>2. \A n \in Nat \ {0}, form \in Forms : <<n, form>> \in GoodPayload
  BY DEF GoodPayload, Payload
<1>3. "none" \in DeltaReasons
  BY DEF DeltaReasons
<1>4. PICK G, R : G = GoodPayload /\ R = DeltaReasons
  OBVIOUS
<1>5. Delta = [k : {"text", "call", "usage", "finish", "error"}, i : Nat, p : G, r : R]
  BY <1>4, Zenon DEF Delta
<1>6. /\ \A p \in G : TextDelta(p) \in Delta
      /\ \A i \in Nat, p \in G : ToolCallDelta(i, p) \in Delta
      /\ Usage \in Delta /\ Rejected \in Delta
      /\ \A r \in R : Finish(r) \in Delta
  <2>1. Nothing \in G /\ "none" \in R
    BY <1>1, <1>3, <1>4
  <2> HIDE DEF Nothing
  <2>2. QED BY <1>5, <2>1 DEF TextDelta, ToolCallDelta, Usage, Rejected, Finish, ProviderEvent
<1>7. QED BY <1>1, <1>2, <1>4, <1>6, Zenon

\* What is made of one frame.
LEMMA OpenAiTypes ==
    ASSUME NEW f, f.i \in Nat, NEW n \in Nat \ {0}, NEW form \in Marks
    PROVE  OpenAiEvents(f, n, form) \in Seq(Delta)
<1>1. form \in Forms /\ "trimmed" \in Forms
  BY DEF Marks, Forms
<1>2. OpenAiText(f, n, form) \in Delta
  <2>1. <<n, "trimmed">> \in GoodPayload /\ <<n, form>> \in GoodPayload /\ Nothing \in GoodPayload
    BY <1>1, DeltaTypes
  <2>2. TextDelta(<<n, "trimmed">>) \in Delta /\ TextDelta(<<n, form>>) \in Delta /\ TextDelta(Nothing) \in Delta
    BY <2>1, DeltaTypes, Zenon
  <2>3. QED BY <2>2, Zenon DEF OpenAiText
<1>3. ASSUME NEW i \in Nat PROVE ToolCallDelta(i, IF f.args THEN <<n, form>> ELSE Nothing) \in Delta
  <2>1. <<n, form>> \in GoodPayload /\ Nothing \in GoodPayload
    BY <1>1, DeltaTypes
  <2>2. PICK p : p = IF f.args THEN <<n, form>> ELSE Nothing
    OBVIOUS
  <2>3. p \in GoodPayload
    BY <2>1, <2>2, Zenon
  <2>4. QED BY <2>2, <2>3, DeltaTypes, Zenon
<1>4. ToolCallDelta(0, Nothing) \in Delta
  BY DeltaTypes
<1>5. Finish(OpenAiReason(f.finish)) \in Delta
  <2>1. OpenAiReason(f.finish) \in DeltaReasons
    BY DEF OpenAiReason, DeltaReasons
  <2>2. QED BY <2>1, DeltaTypes
<1>6. PICK a, b, c, d :
         /\ a = (IF f.usage THEN <<Usage>> ELSE <<>>)
         /\ b = (IF f.text # "none" THEN <<OpenAiText(f, n, form)>> ELSE <<>>)
         /\ c = (CASE f.type = "call" ->
                    <<ToolCallDelta(f.i, IF f.args THEN <<n, form>> ELSE Nothing)>>
                   [] f.type = "function" ->
                    <<ToolCallDelta(0, IF f.args THEN <<n, form>> ELSE Nothing)>>
                   [] f.type = "null" -> <<ToolCallDelta(0, Nothing)>>
                   [] OTHER -> <<>>)
         /\ d = (IF f.finish # "none" THEN <<Finish(OpenAiReason(f.finish))>> ELSE <<>>)
  OBVIOUS
<1>7. a \in Seq(Delta) /\ b \in Seq(Delta) /\ c \in Seq(Delta) /\ d \in Seq(Delta)
  <2>1. <<>> \in Seq(Delta)
    OBVIOUS
  <2>2. \A e \in Delta : <<e>> \in Seq(Delta)
    OBVIOUS
  <2>3. a \in Seq(Delta)
    BY <1>6, <2>1, <2>2, DeltaTypes, Zenon
  <2>4. b \in Seq(Delta)
    BY <1>2, <1>6, <2>1, <2>2, Zenon
  <2>5. c \in Seq(Delta)
    <3>1. PICK x, y : /\ x = ToolCallDelta(f.i, IF f.args THEN <<n, form>> ELSE Nothing)
                      /\ y = ToolCallDelta(0, IF f.args THEN <<n, form>> ELSE Nothing)
      OBVIOUS
    <3>2. x \in Delta /\ y \in Delta
      BY <1>3, <3>1, Zenon
    <3>3. c = CASE f.type = "call" -> <<x>> [] f.type = "function" -> <<y>>
                [] f.type = "null" -> <<ToolCallDelta(0, Nothing)>> [] OTHER -> <<>>
      BY <1>6, <3>1, Zenon
    <3>4. QED BY <1>4, <2>1, <2>2, <3>2, <3>3, Zenon
  <2>6. d \in Seq(Delta)
    BY <1>5, <1>6, <2>1, <2>2, Zenon
  <2>7. QED BY <2>3, <2>4, <2>5, <2>6
<1>8. a \o b \o c \o d \in Seq(Delta)
  BY <1>7, ConcatProperties
<1>9. <<Rejected>> \in Seq(Delta)
  BY DeltaTypes
<1>10. QED BY <1>6, <1>8, <1>9, Zenon DEF OpenAiEvents

LEMMA AnthropicTypes ==
    ASSUME NEW f, f.i \in Nat, NEW n \in Nat \ {0}, NEW form \in Marks
    PROVE  AnthropicEvents(f, n, form) \in Seq(Delta)
<1>1. form \in Forms
  BY DEF Marks, Forms
<1>2. \A e \in Delta : <<e>> \in Seq(Delta)
  OBVIOUS
<1>3. <<>> \in Seq(Delta)
  OBVIOUS
<1>4. BlockStart(f) \in Seq(Delta)
  <2>1. ToolCallDelta(f.i, Nothing) \in Delta
    BY DeltaTypes, Zenon
  <2>2. QED BY <1>2, <2>1, Zenon DEF BlockStart
<1>5. BlockDelta(f, n, form) \in Seq(Delta)
  <2>1. PICK p : p = <<n, form>>
    OBVIOUS
  <2>2. p \in GoodPayload
    BY <1>1, <2>1, DeltaTypes
  <2>3. TextDelta(p) \in Delta /\ ToolCallDelta(f.i, p) \in Delta
    BY <2>2, DeltaTypes, Zenon
  <2>4. QED BY <1>2, <2>1, <2>3, Zenon DEF BlockDelta
<1>6. MessageDelta(f) \in Seq(Delta)
  <2>1. AnthropicReason(f.finish) \in DeltaReasons
    BY DEF AnthropicReason, DeltaReasons
  <2>2. Finish(AnthropicReason(f.finish)) \in Delta /\ Usage \in Delta
    BY <2>1, DeltaTypes
  <2>3. PICK a, b : a = (IF f.usage THEN <<Usage>> ELSE <<>>) /\ b = <<Finish(AnthropicReason(f.finish))>>
    OBVIOUS
  <2>4. a \in Seq(Delta) /\ b \in Seq(Delta)
    BY <1>2, <1>3, <2>2, <2>3, Zenon
  <2>5. a \o b \in Seq(Delta)
    BY <2>4, ConcatProperties
  <2>6. QED BY <2>3, <2>5, Zenon DEF MessageDelta
<1>7. <<Rejected>> \in Seq(Delta)
  BY <1>2, DeltaTypes
<1>8. QED BY <1>3, <1>4, <1>5, <1>6, <1>7, Zenon DEF AnthropicEvents

LEMMA WholeTypes ==
    ASSUME NEW texts \in Nat, NEW calls \in Nat, NEW usage
    PROVE  EventsOfWhole(texts, calls, usage) \in Seq(Delta)
<1>1. PICK a, b, c :
         /\ a = (IF calls = 0 THEN [n \in 1..texts |-> TextDelta(<<n, "exact">>)]
                 ELSE [n \in 1..calls |-> ToolCallDelta(n - 1, <<n, "exact">>)])
         /\ b = (IF usage THEN <<Usage>> ELSE <<>>)
         /\ c = <<Finish(IF calls = 0 THEN "stop" ELSE "tool_calls")>>
  OBVIOUS
<1>2. ASSUME NEW n \in Nat \ {0} PROVE <<n, "exact">> \in GoodPayload
  BY DeltaTypes DEF Forms
<1>3. PICK D : D = Delta
  OBVIOUS
<1>4. a \in Seq(D)
  <2>1. ASSUME NEW n \in 1..texts PROVE TextDelta(<<n, "exact">>) \in D
    <3>1. n \in Nat \ {0}
      OBVIOUS
    <3>2. QED BY <1>2, <1>3, <3>1, DeltaTypes, Zenon
  <2>2. ASSUME NEW n \in 1..calls PROVE ToolCallDelta(n - 1, <<n, "exact">>) \in D
    <3>1. n \in Nat \ {0} /\ n - 1 \in Nat
      OBVIOUS
    <3>2. QED BY <1>2, <1>3, <3>1, DeltaTypes, Zenon
  <2>3. [n \in 1..texts |-> TextDelta(<<n, "exact">>)] \in Seq(D)
    BY <2>1, IsASeq
  <2>4. [n \in 1..calls |-> ToolCallDelta(n - 1, <<n, "exact">>)] \in Seq(D)
    BY <2>2, IsASeq
  <2>5. QED BY <1>1, <2>3, <2>4, Zenon
<1>5. b \in Seq(D)
  <2>1. Usage \in D
    BY <1>3, DeltaTypes
  <2>2. <<Usage>> \in Seq(D) /\ <<>> \in Seq(D)
    BY <2>1
  <2>3. QED BY <1>1, <2>2, Zenon
<1>6. c \in Seq(D)
  <2>1. PICK r : r = IF calls = 0 THEN "stop" ELSE "tool_calls"
    OBVIOUS
  <2>2. r \in DeltaReasons
    BY <2>1 DEF DeltaReasons
  <2>3. Finish(r) \in D
    BY <1>3, <2>2, DeltaTypes
  <2>4. <<Finish(r)>> \in Seq(D)
    BY <2>3
  <2>5. QED BY <1>1, <2>1, <2>4, Zenon
<1>7. a \o b \o c \in Seq(D)
  BY <1>4, <1>5, <1>6, ConcatProperties
<1>8. QED BY <1>1, <1>3, <1>7, Zenon DEF EventsOfWhole

LEMMA FramesHaveIndexes == \A f \in Frames : f.i \in Nat
BY FramesAssumption DEF Frames

LEMMA ParseTypes ==
    ASSUME NEW f \in Frames, NEW n \in Nat \ {0}, NEW form \in Marks
    PROVE  Parse(f, n, form) \in Seq(Delta)
BY FramesHaveIndexes, OpenAiTypes, AnthropicTypes, Zenon DEF Parse

\* The fields of the buffer.
LEMMA BufferFields ==
    ASSUME NEW fs, NEW b \in Buffers(fs)
    PROVE  /\ b.whole \in Seq(Framed(fs)) /\ b.part \in Parted(fs)
           /\ \A x \in Seq(Framed(fs)) : [b EXCEPT !.whole = x] \in Buffers(fs)
           /\ \A x \in Parted(fs) : [b EXCEPT !.part = x] \in Buffers(fs)
           /\ \A x \in Seq(Framed(fs)), y \in Parted(fs) : [whole |-> x, part |-> y] \in Buffers(fs)
<1>1. PICK W, P : W = Seq(Framed(fs)) /\ P = Parted(fs)
  OBVIOUS
<1>2. PICK R : R = [whole : W, part : P]
  OBVIOUS
<1>3. R = Buffers(fs) /\ b \in R
  BY <1>1, <1>2, Zenon DEF Buffers
<1>4. /\ b.whole \in W /\ b.part \in P
      /\ \A x \in W : [b EXCEPT !.whole = x] \in R
      /\ \A x \in P : [b EXCEPT !.part = x] \in R
      /\ \A x \in W, y \in P : [whole |-> x, part |-> y] \in R
  BY <1>2, <1>3
<1>5. QED BY <1>1, <1>3, <1>4, Zenon

LEMMA PartIs ==
    ASSUME NEW fs, NEW x \in Parted(fs), x # NoPart
    PROVE  x.f \in fs /\ x.form \in Marks
BY DEF Parted

LEMMA FrameIs ==
    ASSUME NEW fs
    PROVE  /\ \A x \in Framed(fs) : x.f \in fs /\ x.n \in Nat \ {0} /\ x.form \in Marks
           /\ \A f \in fs, n \in Nat \ {0}, form \in Marks : [f |-> f, n |-> n, form |-> form] \in Framed(fs)
           /\ \A f \in fs, form \in Marks : [f |-> f, form |-> form] \in Parted(fs)
           /\ NoPart \in Parted(fs)
BY DEF Framed, Parted

\* The upstream after a step: the fields stay, the kind stays.
HasFields(u, kind, n) ==
    /\ {"kind", "sent", "cuts", "state", "reason", "pieces", "usage"} \subseteq DOMAIN u
    /\ u.kind = kind /\ u.sent = n

LEMMA UpstreamSteps ==
    ASSUME NEW n \in Nat, HasFields(upstream, upstream.kind, n)
    PROVE  /\ \A f, m : HasFields(Counted(f, m), upstream.kind, m)
           /\ \A x : HasFields([upstream EXCEPT !.state = x], upstream.kind, n)
           /\ \A x : HasFields([upstream EXCEPT !.cuts = x], upstream.kind, n)
<1>1. ASSUME NEW f, NEW m PROVE HasFields(Counted(f, m), upstream.kind, m)
  BY DEF HasFields, Counted
<1>2. QED BY <1>1 DEF HasFields

LEMMA CountedClosed ==
    ASSUME NEW n \in Nat, HasFields(upstream, upstream.kind, n), NEW f, NEW m
    PROVE  HasFields([Counted(f, m) EXCEPT !.state = "closed"], upstream.kind, m)
<1>1. PICK u : u = Counted(f, m)
  OBVIOUS
<1>2. HasFields(u, upstream.kind, m)
  BY <1>1, UpstreamSteps
<1>3. HasFields([u EXCEPT !.state = "closed"], upstream.kind, m)
  BY <1>2 DEF HasFields
<1>4. QED BY <1>1, <1>3, Zenon

LiveInv == WasLive /\ WayInv

LEMMA LiveStart ==
    ASSUME StreamsInit, WasLive
    PROVE  LiveInv
<1>1. buffer \in Buffers(Frames)
  <2>1. PICK e : e = <<>>
    OBVIOUS
  <2>2. e \in Seq(Framed(Frames)) /\ NoPart \in Parted(Frames)
    BY <2>1, FrameIs
  <2>3. buffer = [whole |-> e, part |-> NoPart]
    BY <2>1, Zenon DEF StreamsInit
  <2>4. PICK W, P : W = Seq(Framed(Frames)) /\ P = Parted(Frames)
    OBVIOUS
  <2>5. [whole |-> e, part |-> NoPart] \in [whole : W, part : P]
    <3>1. e \in W /\ NoPart \in P
      BY <2>2, <2>4
    <3> HIDE DEF NoPart
    <3>2. QED BY <3>1
  <2>6. QED BY <2>3, <2>4, <2>5, Zenon DEF Buffers
<1>2. ASSUME NEW kind, upstream = [NoUpstream EXCEPT !.kind = kind, !.state = "open"], ready = <<>>
      PROVE  WayInv
  <2>1. /\ {"kind", "sent", "cuts", "state", "reason", "pieces", "usage"} \subseteq DOMAIN upstream
        /\ upstream.sent \in Nat
    BY <1>2 DEF NoUpstream
  <2>2. ready \in Seq(Delta)
    BY <1>2
  <2>3. QED BY <1>1, <2>1, <2>2 DEF WayInv
<1>3. ASSUME NEW texts \in 0..MaxWhole, NEW calls \in 0..MaxWhole, NEW usage,
             upstream = Whole(texts, calls, usage), ready = EventsOfWhole(texts, calls, usage)
      PROVE  WayInv
  <2>1. /\ {"kind", "sent", "cuts", "state", "reason", "pieces", "usage"} \subseteq DOMAIN upstream
        /\ upstream.sent \in Nat
    BY <1>3 DEF Whole
  <2>2. texts \in Nat /\ calls \in Nat
    BY BoundsAssumption
  <2>3. ready \in Seq(Delta)
    BY <1>3, <2>2, WholeTypes
  <2>4. QED BY <1>1, <2>1, <2>3 DEF WayInv
<1>4. upstream # NoUpstream
  BY DEF WasLive, NoUpstream
<1>5. QED BY <1>2, <1>3, <1>4, Zenon DEF StreamsInit, LiveInv

LEMMA LiveSteps ==
    ASSUME LiveInv, [StreamsNext]_streamVars
    PROVE  LiveInv' /\ upstream'.kind = upstream.kind
<1>1. PICK n, kind : n = upstream.sent /\ kind = upstream.kind
  OBVIOUS
<1>2. n \in Nat /\ HasFields(upstream, kind, n)
  BY <1>1 DEF LiveInv, WayInv, HasFields
<1>3. ASSUME NEW m \in Nat, HasFields(upstream', kind, m), NEW fs, fs = Frames,
             buffer' \in Buffers(fs), ready' \in Seq(Delta)
      PROVE  LiveInv' /\ upstream'.kind = upstream.kind
  <2>1. upstream'.kind = upstream.kind /\ upstream'.sent \in Nat
    BY <1>1, <1>3 DEF HasFields
  <2>2. Frames' = fs
    BY <1>3, <2>1 DEF Frames
  <2>3. QED BY <1>3, <2>1, <2>2 DEF LiveInv, WayInv, HasFields, WasLive
<1>4. PICK fs : fs = Frames
  OBVIOUS
<1>5. buffer \in Buffers(fs) /\ ready \in Seq(Delta)
  BY <1>4 DEF LiveInv, WayInv
<1>6. /\ buffer.whole \in Seq(Framed(fs)) /\ buffer.part \in Parted(fs)
      /\ \A x \in Seq(Framed(fs)) : [buffer EXCEPT !.whole = x] \in Buffers(fs)
      /\ \A x \in Parted(fs) : [buffer EXCEPT !.part = x] \in Buffers(fs)
      /\ \A x \in Seq(Framed(fs)), y \in Parted(fs) : [whole |-> x, part |-> y] \in Buffers(fs)
  BY <1>5, BufferFields
<1>7. n + 1 \in Nat \ {0} /\ upstream.sent + 1 = n + 1 /\ "exact" \in Marks
  BY <1>1, <1>2 DEF Marks
<1>8. \A f : HasFields(Counted(f, n + 1), kind, n + 1)
  BY <1>1, <1>2, UpstreamSteps
<1>9. CASE UNCHANGED <<upstream, buffer, ready>>
  BY <1>2, <1>3, <1>4, <1>5, <1>9
<1>10. ASSUME NEW f \in Frames, SendFrame(f) PROVE LiveInv' /\ upstream'.kind = upstream.kind
  <2>1. PICK whole, x : /\ x = [f |-> f, n |-> n + 1, form |-> "exact"] /\ whole = Append(buffer.whole, x)
    OBVIOUS
  <2>2. x \in Framed(fs)
    BY <1>4, <1>7, <1>10, <2>1, FrameIs
  <2>3. whole \in Seq(Framed(fs))
    BY <1>6, <2>1, <2>2, AppendProperties
  <2>4. buffer' = [buffer EXCEPT !.whole = whole] /\ upstream' = Counted(f, n + 1) /\ ready' = ready
    BY <1>7, <1>10, <2>1, Zenon DEF SendFrame
  <2>5. buffer' \in Buffers(fs)
    BY <1>6, <2>3, <2>4, Zenon
  <2>6. HasFields(upstream', kind, n + 1) /\ n + 1 \in Nat
    BY <1>7, <1>8, <2>4
  <2>7. QED BY <1>3, <1>4, <1>5, <2>4, <2>5, <2>6, Zenon
<1>11. ASSUME NEW f \in Frames, SendHead(f) PROVE LiveInv' /\ upstream'.kind = upstream.kind
  <2>1. PICK form \in Marks : buffer' = [buffer EXCEPT !.part = [f |-> f, form |-> form]]
    BY <1>11, Zenon DEF SendHead, Marks
  <2>2. PICK x : x = [f |-> f, form |-> form]
    OBVIOUS
  <2>3. x \in Parted(fs)
    BY <1>4, <1>11, <2>2, FrameIs
  <2>4. buffer' \in Buffers(fs)
    BY <1>6, <2>1, <2>2, <2>3, Zenon
  <2>5. HasFields(upstream', kind, n)
    <3>1. PICK x2 : x2 = upstream.cuts + 1
      OBVIOUS
    <3>2. upstream' = [upstream EXCEPT !.cuts = x2]
      BY <1>11, <3>1, Zenon DEF SendHead
    <3>3. QED BY <1>1, <1>2, <3>2, UpstreamSteps
  <2>6. ready' = ready
    BY <1>11 DEF SendHead
  <2>7. QED BY <1>2, <1>3, <1>4, <1>5, <2>4, <2>5, <2>6, Zenon
<1>12. CASE SendTail
  <2>1. PICK g : g = buffer.part
    OBVIOUS
  <2>2. /\ g # NoPart /\ upstream' = Counted(g.f, n + 1) /\ ready' = ready
        /\ buffer' = [whole |-> <<[f |-> g.f, n |-> n + 1, form |-> g.form]>>, part |-> NoPart]
    BY <1>7, <1>12, <2>1, Zenon DEF SendTail
  <2>3. g.f \in fs /\ g.form \in Marks
    BY <1>6, <2>1, <2>2, PartIs
  <2>4. PICK x, whole : x = [f |-> g.f, n |-> n + 1, form |-> g.form] /\ whole = <<x>>
    OBVIOUS
  <2>5. x \in Framed(fs) /\ NoPart \in Parted(fs)
    BY <1>7, <2>3, <2>4, FrameIs
  <2>6. whole \in Seq(Framed(fs))
    BY <2>4, <2>5
  <2>7. buffer' \in Buffers(fs)
    BY <1>6, <2>2, <2>4, <2>5, <2>6, Zenon
  <2>8. HasFields(upstream', kind, n + 1) /\ n + 1 \in Nat
    BY <1>7, <1>8, <2>2
  <2>9. QED BY <1>3, <1>4, <1>5, <2>2, <2>7, <2>8, Zenon
<1>13. CASE ParseFrame
  <2>1. PICK w, x, t : w = buffer.whole /\ x = Head(w) /\ t = Tail(w)
    OBVIOUS
  <2>2. /\ w # <<>> /\ ready' = Parse(x.f, x.n, x.form) /\ buffer' = [buffer EXCEPT !.whole = t]
        /\ upstream' = upstream
    BY <1>13, <2>1, Zenon DEF ParseFrame
  <2>3. w \in Seq(Framed(fs))
    BY <1>6, <2>1
  <2>4. x \in Framed(fs) /\ t \in Seq(Framed(fs))
    BY <2>1, <2>2, <2>3, HeadTailProperties
  <2>5. x.f \in fs /\ x.n \in Nat \ {0} /\ x.form \in Marks
    BY <2>4, FrameIs
  <2>6. ready' \in Seq(Delta)
    BY <1>4, <2>2, <2>5, ParseTypes
  <2>7. buffer' \in Buffers(fs)
    BY <1>6, <2>2, <2>4, Zenon
  <2>8. QED BY <1>2, <1>3, <1>4, <2>2, <2>6, <2>7, Zenon
<1>14. CASE Close
  <2>1. buffer' \in Buffers(fs)
    <3>1. buffer' = [buffer EXCEPT !.part = NoPart]
      BY <1>14, Zenon DEF Close
    <3>2. NoPart \in Parted(fs)
      BY FrameIs
    <3>3. QED BY <1>6, <3>1, <3>2, Zenon
  <2>2. <<>> \in Seq(Delta) /\ <<Rejected>> \in Seq(Delta)
    BY DeltaTypes
  <2>3. CASE upstream' = [upstream EXCEPT !.state = "closed"] /\ ready' \in {ready, <<>>, <<Rejected>>}
    <3>1. HasFields(upstream', kind, n)
      BY <1>1, <1>2, <2>3, UpstreamSteps
    <3>2. ready' \in Seq(Delta)
      BY <1>5, <2>2, <2>3
    <3>3. QED BY <1>2, <1>3, <1>4, <2>1, <3>1, <3>2, Zenon
  <2>4. PICK g : g = buffer.part
    OBVIOUS
  <2>5. CASE /\ g # NoPart /\ upstream' = [Counted(g.f, n + 1) EXCEPT !.state = "closed"]
             /\ ready' = Parse(g.f, n + 1, g.form)
    <3>1. g.f \in fs /\ g.form \in Marks
      BY <1>6, <2>4, <2>5, PartIs
    <3>2. ready' \in Seq(Delta)
      BY <1>4, <1>7, <2>5, <3>1, ParseTypes
    <3>3. HasFields(upstream', kind, n + 1) /\ n + 1 \in Nat
      BY <1>1, <1>2, <1>7, <2>5, CountedClosed
    <3>4. QED BY <1>3, <1>4, <2>1, <3>2, <3>3, Zenon
  <2>6. QED BY <1>7, <1>14, <2>3, <2>4, <2>5, Zenon DEF Close
<1>15. CASE Break
  <2>1. upstream' = [upstream EXCEPT !.state = "broken"] /\ ready' = <<Rejected>> /\ buffer' = buffer
    BY <1>15 DEF Break
  <2>2. ready' \in Seq(Delta)
    BY <2>1, DeltaTypes
  <2>3. HasFields(upstream', kind, n)
    BY <1>1, <1>2, <2>1, UpstreamSteps
  <2>4. QED BY <1>2, <1>3, <1>4, <1>5, <2>1, <2>2, <2>3, Zenon
<1>16. CASE TakeEvent
  <2>1. PICK r, t : r = ready /\ t = Tail(r)
    OBVIOUS
  <2>2. r # <<>> /\ ready' = t /\ UNCHANGED <<upstream, buffer>>
    BY <1>16, <2>1, Zenon DEF TakeEvent
  <2>3. t \in Seq(Delta)
    BY <1>5, <2>1, <2>2, HeadTailProperties
  <2>4. QED BY <1>2, <1>3, <1>4, <1>5, <2>2, <2>3
<1>17. CASE TakeEnd \/ Send \/ End \/ KeepAlive \/ Leave
  BY <1>9, <1>17, Zenon DEF TakeEnd, Send, End, KeepAlive, Leave
<1>18. CASE UNCHANGED streamVars
  BY <1>9, <1>18 DEF streamVars
<1>19. QED
  BY <1>10, <1>11, <1>12, <1>13, <1>14, <1>15, <1>16, <1>17, <1>18, Zenon
     DEF StreamsNext, Gateway, Upstream

\* The stream of a complete answer never has an upstream.
LEMMA CompleteSteps ==
    ASSUME CompleteInv, [StreamsNext]_streamVars
    PROVE  CompleteInv'
<1>1. ~Pulled
  <2>1. stream.finished = TRUE
    BY FreshFields, Zenon DEF CompleteInv
  <2>2. QED BY <2>1 DEF Pulled
<1>2. upstream' = upstream
  <2>1. CASE UNCHANGED streamVars
    BY <2>1 DEF streamVars
  <2>2. CASE StreamsNext
    BY <1>1, <2>2, Zenon
       DEF StreamsNext, Gateway, Upstream, ParseFrame, TakeEvent, TakeEnd, Send, End, KeepAlive, Leave,
           Close, Break, SendTail, SendFrame, SendHead, Polled
  <2>3. QED BY <2>1, <2>2
<1>3. upstream' = NoUpstream
  BY <1>2, Zenon DEF CompleteInv
<1>4. ~WasLive'
  BY <1>3 DEF WasLive, NoUpstream
<1>5. SameInv'
  BY SameSteps DEF SameInv
<1>6. QED BY <1>4, <1>5 DEF SameInv

-----------------------------------------------------------------------------
(* What is stored was streamed.                                            *)

\* What the events of a stream and its stored response have in common.
StoredTells(all, kept, tools) ==
    /\ Has(all, "completed") /\ ~Has(all, "failed")
    /\ \A i \in DOMAIN kept.calls : kept.calls[i] = Gather(all, {ToolCall(i)})
    /\ ArgsKept(all, kept.calls)
    /\ ~tools => kept.text = Gather(all, {Text})
    /\ \A j \in 1..Len(kept.output) : Done(all, kept.output[j])

StoredWas(sent, s, kept) ==
    ~kept.none => /\ s.finished
                  /\ \E all : IsJoin(all, sent, s.pending) /\ StoredTells(all, kept, s.tools)

LEMMA StoredMeans == StoredWas(out, stream, stored) => StoredIsStreamed
<1> SUFFICES ASSUME StoredWas(out, stream, stored), ~stored.none PROVE StoredIsStreamed
  BY DEF StoredIsStreamed
<1>1. PICK all : IsJoin(all, out, stream.pending) /\ StoredTells(all, stored, stream.tools)
  BY Zenon DEF StoredWas
<1>2. out \o stream.pending = all /\ stream.finished
  BY <1>1, Zenon DEF IsJoin, StoredWas
<1>3. \A j \in 1..Len(stored.output) :
        \E i \in 1..Len(all) : all[i].k = "done" /\ all[i].b = stored.output[j]
  BY <1>1, Zenon DEF StoredTells, Done
<1>4. \A j \in 1..Len(all) : all[j].k = "args" => \E i \in DOMAIN stored.calls : all[j].b = ToolCall(i)
  BY <1>1, Zenon DEF StoredTells, ArgsKept
<1>5. QED BY <1>1, <1>2, <1>3, <1>4, Zenon DEF StoredTells, StoredIsStreamed

\* The items of the response are done when the response is.
LEMMA OutputItems ==
    ASSUME NEW s \in Translator, IsFiniteSet(DOMAIN s.calls), NEW t, t = TextAddedOrCalls(s)
    PROVE  /\ t.text = s.text /\ t.calls = s.calls /\ t.tools = s.tools
           /\ \A j \in 1..Len(CurrentOutput(t)) : CurrentOutput(t)[j] \in LastItems(s)
<1>1. CASE s.tools
  <2>1. t = s
    BY <1>1 DEF TextAddedOrCalls
  <2>2. PICK D, q : D = DOMAIN s.calls /\ q = Indexes(s)
    OBVIOUS
  <2>3. q \in Seq(D) /\ LastItems(s) = {ToolCall(i) : i \in D}
    BY <1>1, <2>2, IndexesAll DEF LastItems, CallNames
  <2>4. PICK n \in Nat : n = Len(q)
    BY <2>3
  <2>5. CurrentOutput(s) = [j \in 1..n |-> ToolCall(q[j])]
    BY <1>1, <2>2, <2>4, Zenon DEF CurrentOutput
  <2>6. PICK o : o = [j \in 1..n |-> ToolCall(q[j])]
    OBVIOUS
  <2>7. Len(o) = n /\ \A j \in 1..n : o[j] = ToolCall(q[j]) /\ q[j] \in D
    BY <2>3, <2>4, <2>6
  <2>8. \A j \in 1..Len(o) : o[j] \in LastItems(s)
    BY <2>3, <2>7, Zenon
  <2>9. QED BY <2>1, <2>5, <2>6, <2>8, Zenon
<1>2. CASE ~s.tools
  <2>1. t = TextAdded(s)
    BY <1>2, Zenon DEF TextAddedOrCalls
  <2>2. Mutely(t, s)
    BY <2>1, TextAddedMutely, Zenon
  <2>3. t.text = s.text /\ t.calls = s.calls /\ t.tools = s.tools
    BY <2>2 DEF Mutely, SaidMore
  <2>4. LastItems(s) = {Text}
    BY <1>2 DEF LastItems
  <2>5. PICK o : o = CurrentOutput(t)
    OBVIOUS
  <2>6. o = <<Text>> \/ o = <<>>
    BY <1>2, <2>3, <2>5, Zenon DEF CurrentOutput
  <2>7. \A j \in 1..Len(o) : o[j] = Text
    BY <2>6
  <2>8. QED BY <2>3, <2>4, <2>5, <2>7, Zenon
<1>3. QED BY <1>1, <1>2

\* finish
LEMMA EndStored ==
    ASSUME NEW sent, NEW s, KeepsIn(sent, s), NEW storing, NEW r, r = ResponsesEnd(s, storing),
           NEW kept, kept = Stored(TextAddedOrCalls(s))
    PROVE  r \in Translator /\ r.finished = TRUE /\ StoredWas(sent, r, kept)
<1>1. PICK all : IsJoin(all, sent, s.pending) /\ Keeps(all, s.text, s.calls)
  BY Zenon DEF KeepsIn
<1>2. s \in Translator /\ sent \in Seq(ClientEvent) /\ s.finished = FALSE
  BY Zenon DEF KeepsIn
<1>3. PICK text, calls, tools, names : text = s.text /\ calls = s.calls /\ tools = s.tools /\ names = LastItems(s)
  OBVIOUS
<1>4. Keeps(all, text, calls) /\ IsFiniteSet(DOMAIN s.calls)
  BY <1>1, <1>3, Zenon DEF Keeps
<1>5. PICK t : /\ Ending(t, s, names, {"completed"})
               /\ r = [t EXCEPT !.finished = TRUE]
  BY <1>2, <1>3, <1>4, ResponsesEndEnds, Zenon
<1>6. PICK es \in Seq(Mutes) : /\ SaidMore(t, s, es)
                               /\ \A b \in names : Done(es, b)
                               /\ \A k \in {"completed"} : Has(es, k)
  BY <1>5, Zenon DEF Ending
<1>7. t \in Translator /\ t.tools = tools
  BY <1>3, <1>6 DEF SaidMore
<1>8. r \in Translator
  BY <1>5, <1>7, TranslatorFields
<1>9. r.pending = t.pending /\ r.tools = tools /\ r.finished = TRUE
  BY <1>5, <1>7, MemoryFields
<1>10. PICK longer : IsJoin(longer, sent, t.pending) /\ IsJoin(longer, all, es)
  BY <1>1, <1>2, <1>6, SaidAll
<1>11. Keeps(longer, text, calls)
  BY <1>4, <1>6, <1>10, KeepsQuiet, MuteSeqs
<1>12. Has(longer, "completed") /\ \A b \in names : Done(longer, b)
  <2>1. all \in Seq(ClientEvent) /\ es \in Seq(ClientEvent)
    BY <1>4, MuteSeqs DEF Keeps
  <2>2. (\A k : Has(longer, k) <=> Has(all, k) \/ Has(es, k)) /\ \A b : Done(longer, b) <=> Done(all, b) \/ Done(es, b)
    BY <1>10, <2>1, JoinHas
  <2>3. QED BY <1>6, <2>2, Zenon
<1>13. PICK u, given : u = TextAddedOrCalls(s) /\ given = CurrentOutput(u)
  OBVIOUS
<1>14. /\ u.text = text /\ u.calls = calls /\ u.tools = tools
       /\ \A j \in 1..Len(given) : given[j] \in names
  BY <1>2, <1>3, <1>4, <1>13, OutputItems, Zenon
<1>15. kept.calls = calls /\ kept.output = given /\ (~tools => kept.text = text)
  <2>1. PICK kt : kt = IF tools THEN <<>> ELSE text
    OBVIOUS
  <2>2. ToStore(u) = [text |-> kt, calls |-> calls]
    BY <1>14, <2>1, Zenon DEF ToStore
  <2>3. ToStore(u).text = kt /\ ToStore(u).calls = calls
    BY <2>2
  <2>4. kept = [text |-> kt, calls |-> calls, output |-> given, none |-> FALSE]
    BY <1>13, <2>3, Zenon DEF Stored
  <2>5. kept.calls = calls /\ kept.output = given /\ kept.text = kt
    BY <2>4
  <2>6. QED BY <2>1, <2>5, Zenon
<1>16. \A i \in DOMAIN calls : calls[i] = Gather(longer, {ToolCall(i)})
  <2>1. calls \in CallTables /\ \A i \in Nat : OfCall(calls, i) = Gather(longer, {ToolCall(i)})
    BY <1>11, Zenon DEF Keeps
  <2>2. \A i \in DOMAIN calls : i \in Nat
    BY <2>1 DEF CallTables
  <2>3. QED BY <2>1, <2>2, Zenon DEF OfCall
<1>17. StoredTells(longer, kept, tools)
  <2>1. text = Gather(longer, {Text}) /\ ArgsKept(longer, calls) /\ ~Has(longer, "failed")
    BY <1>11, Zenon DEF Keeps
  <2>2. \A j \in 1..Len(given) : Done(longer, given[j])
    BY <1>12, <1>14
  <2>3. QED BY <1>12, <1>15, <1>16, <2>1, <2>2, Zenon DEF StoredTells
<1>18. StoredWas(sent, r, kept)
  BY <1>9, <1>10, <1>17, Zenon DEF StoredWas
<1>19. QED BY <1>8, <1>9, <1>18

LEMMA ErrorEnds ==
    ASSUME NEW s \in Translator
    PROVE  ResponsesError(s) \in Translator /\ ResponsesError(s).finished = TRUE
<1>1. PICK e, f, g : e = Plain("failed") /\ f = Plain("error") /\ g = Plain("[DONE]")
  OBVIOUS
<1>2. e \in ClientEvent /\ f \in ClientEvent /\ g \in ClientEvent
  <2>1. <<"none", 0>> \in BlockName /\ <<0, "exact">> \in Payload
    BY DEF BlockName, Payload, Forms
  <2>2. "failed" \in Kinds /\ "error" \in Kinds /\ "[DONE]" \in Kinds
    BY DEF Kinds
  <2>3. QED BY <1>1, <2>1, <2>2 DEF Plain, Event, ClientEvent
<1>3. PICK t : t = Say(s, e)
  OBVIOUS
<1>4. t \in Translator
  BY <1>2, <1>3, SaySays DEF SaidMore
<1>5. PICK u : u = Push(t, f)
  OBVIOUS
<1>6. u \in Translator
  BY <1>2, <1>4, <1>5, PushSays DEF SaidMore
<1>7. PICK v : v = Push(u, g)
  OBVIOUS
<1>8. v \in Translator
  BY <1>2, <1>6, <1>7, PushSays DEF SaidMore
<1>9. PICK w : w = [v EXCEPT !.finished = TRUE]
  OBVIOUS
<1>10. w \in Translator
  BY <1>8, <1>9, TranslatorFields
<1>11. w.finished = TRUE
  BY <1>8, <1>9, MemoryFields
<1>12. ResponsesError(s) = w
  BY <1>1, <1>3, <1>5, <1>7, <1>9, Zenon DEF ResponsesError, Ended
<1>13. QED BY <1>10, <1>11, <1>12, Zenon

\* A response is stored when the stream is finished, and tells what was streamed.
ResponsesInv ==
    /\ stream \in Translator /\ out \in Seq(ClientEvent)
    /\ stream.finished = FALSE => stored = NotStored /\ KeepsIn(out, stream)
    /\ stream.finished = TRUE => StoredWas(out, stream, stored)
StoredInv ==
    IF protocol = "responses" THEN ResponsesInv ELSE stored = NotStored

\* The invariant of every stream.
StreamsInv == (LiveInv /\ StoredInv) \/ CompleteInv

LEMMA NothingStored == ASSUME NEW sent, NEW s PROVE StoredWas(sent, s, NotStored)
BY DEF StoredWas, NotStored

LEMMA StreamsStart == StreamsInit => StreamsInv
<1> SUFFICES ASSUME StreamsInit PROVE StreamsInv
  OBVIOUS
<1>1. CASE ~WasLive
  BY <1>1, SameStart DEF SameInv, StreamsInv
<1>2. CASE WasLive
  <2>1. LiveInv
    BY <1>2, LiveStart
  <2>2. stored = NotStored /\ out = <<>>
    BY Zenon DEF StreamsInit
  <2>3. protocol \in Live /\ stream = Begin(protocol)
    <3>1. upstream # NoUpstream
      BY <1>2 DEF WasLive, NoUpstream
    <3>2. QED BY <3>1, Zenon DEF StreamsInit
  <2>4. CASE protocol = "responses"
    <3>1. PICK e : e = <<>>
      OBVIOUS
    <3>2. stream = Fresh(e)
      <4>1. Begin("responses") = Fresh(<<>>)
        BY DEF Begin
      <4>2. QED BY <2>3, <2>4, <3>1, <4>1, Zenon
    <3>3. e \in Seq(ClientEvent) /\ e \in Seq(Payload) /\ IsJoin(e, e, e) /\ DOMAIN e = {}
      BY <3>1 DEF IsJoin
    <3>4. e \in CallTables /\ IsFiniteSet(DOMAIN e)
      <4>1. e \in [{} -> Seq(Payload)]
        BY <3>1
      <4>2. QED BY <3>3, <4>1, FS_EmptySet DEF CallTables
    <3>5. stream = [pending |-> e, usage |-> FALSE, text |-> e, calls |-> e, blocks |-> {},
                    seq |-> 0, started |-> FALSE, tools |-> FALSE, finished |-> FALSE]
      BY <3>1, <3>2, Zenon DEF Fresh
    <3>6. stream \in Translator
      <4>1. PICK P, T, C, B : P = Seq(ClientEvent) /\ T = Seq(Payload) /\ C = CallTables /\ B = SUBSET BlockName
        OBVIOUS
      <4>2. e \in P /\ e \in T /\ e \in C /\ {} \in B
        BY <3>3, <3>4, <4>1
      <4>3. stream \in [pending : P, usage : BOOLEAN, text : T, calls : C,
                    blocks : B, seq : Nat, started : BOOLEAN, tools : BOOLEAN, finished : BOOLEAN]
        BY <3>5, <4>2
      <4>4. QED BY <4>1, <4>3, Zenon DEF Translator
    <3>7. stream.pending = e /\ stream.text = e /\ stream.calls = e /\ stream.finished = FALSE
      BY <3>5
    <3>8. Keeps(e, e, e)
      <4>1. \A blocks : Gather(e, blocks) = e
        BY <3>1, <3>3, EventMaps, FlatMapOne, Zenon
      <4>2. \A i \in Nat : OfCall(e, i) = e
        BY <3>1, <3>3 DEF OfCall
      <4>3. ArgsKept(e, e) /\ ~Has(e, "failed")
        BY <3>1 DEF ArgsKept, Has
      <4>4. QED BY <3>3, <3>4, <4>1, <4>2, <4>3, Zenon DEF Keeps
    <3>9. KeepsIn(out, stream)
      BY <2>2, <3>1, <3>3, <3>6, <3>7, <3>8, Zenon DEF KeepsIn
    <3>10. out \in Seq(ClientEvent) /\ stream.finished # TRUE
      <4>1. out \in Seq(ClientEvent)
        BY <2>2
      <4>2. FALSE # TRUE
        OBVIOUS
      <4>3. QED BY <3>7, <4>1, <4>2, Zenon
    <3>11. ResponsesInv
      BY <2>2, <3>6, <3>9, <3>10, Zenon DEF ResponsesInv
    <3>12. QED BY <2>1, <2>4, <3>11 DEF StoredInv, StreamsInv
  <2>5. CASE protocol # "responses"
    BY <2>1, <2>2, <2>5 DEF StoredInv, StreamsInv
  <2>6. QED BY <2>4, <2>5
<1>3. QED BY <1>1, <1>2

LEMMA ResponsesSteps ==
    ASSUME LiveInv, ResponsesInv, protocol = "responses", [StreamsNext]_streamVars
    PROVE  ResponsesInv'
<1>1. stream \in Translator /\ out \in Seq(ClientEvent)
  BY DEF ResponsesInv
<1>2. CASE UNCHANGED <<stream, out, stored>>
  BY <1>2 DEF ResponsesInv
<1>3. ASSUME KeepsIn(out, stream'), UNCHANGED <<out, stored>>, stream.finished = FALSE
      PROVE  ResponsesInv'
  <2>1. /\ KeepsIn(out', stream') /\ stream' \in Translator /\ stream'.finished = FALSE
        /\ out' \in Seq(ClientEvent) /\ stored' = NotStored
    BY <1>3, Zenon DEF KeepsIn, ResponsesInv
  <2>2. stream'.finished # TRUE
    BY <2>1
  <2>3. QED BY <2>1, <2>2, Zenon DEF ResponsesInv
<1>4. ASSUME NEW storing, stream' = ResponsesEnd(stream, storing), Store(stream, storing),
             UNCHANGED out, stream.finished = FALSE
      PROVE  ResponsesInv'
  <2>1. KeepsIn(out, stream) /\ stored = NotStored
    BY <1>4 DEF ResponsesInv
  <2>2. PICK kept, r : kept = Stored(TextAddedOrCalls(stream)) /\ r = ResponsesEnd(stream, storing)
    OBVIOUS
  <2>3. r \in Translator /\ r.finished = TRUE /\ StoredWas(out, r, kept)
    BY <2>1, <2>2, EndStored
  <2>4. stored' = kept \/ stored' = NotStored
    BY <1>4, <2>1, <2>2, Zenon DEF Store
  <2>5. StoredWas(out, r, stored')
    BY <2>3, <2>4, NothingStored, Zenon
  <2>6. stream' = r /\ out' = out /\ r.finished # FALSE
    BY <1>4, <2>2, <2>3
  <2>7. QED BY <1>1, <2>3, <2>5, <2>6, Zenon DEF ResponsesInv
<1>5. CASE TakeEvent
  <2>1. PICK r, e : r = ready /\ e = Head(r)
    OBVIOUS
  <2>2. r # <<>> /\ r \in Seq(Delta)
    BY <1>5, <2>1, Zenon DEF TakeEvent, LiveInv, WayInv
  <2>3. e \in Delta
    BY <2>1, <2>2, HeadTailProperties
  <2>4. e.i \in Nat /\ e.p \in GoodPayload
    BY <2>3 DEF Delta
  <2>5. e.p \in Payload /\ (e.p = Nothing \/ e.p[1] # 0)
    BY <2>4 DEF GoodPayload
  <2>6. stream.finished = FALSE /\ out' = out /\ KeepsIn(out, stream)
    <3>1. ~stream.finished /\ out' = out
      BY <1>5 DEF TakeEvent, Pulled
    <3>2. stream.finished = FALSE
      BY <1>1, <3>1, FieldTypes
    <3>3. QED BY <3>1, <3>2 DEF ResponsesInv
  <2>7. CASE stream' = OnText(stream, e) /\ UNCHANGED stored
    <3>1. CASE e.p = Nothing
      <4>1. stream' = stream
        BY <2>7, <3>1, Zenon DEF OnText
      <4>2. QED BY <1>2, <2>6, <2>7, <4>1
    <3>2. CASE e.p # Nothing
      <4>1. stream' = ResponsesText(stream, e)
        BY <2>7, <3>2 DEF OnText
      <4>2. e.p[1] # 0
        BY <2>5, <3>2
      <4>3. KeepsIn(out, stream')
        BY <2>5, <2>6, <4>1, <4>2, ResponsesTextKeeps, Zenon
      <4>4. QED BY <1>3, <2>6, <2>7, <4>3
    <3>3. QED BY <3>1, <3>2
  <2>8. CASE stream' = OnCall(stream, e) /\ UNCHANGED stored
    <3>1. stream' = ResponsesCall(stream, e)
      BY <2>8 DEF OnCall
    <3>2. KeepsIn(out, stream')
      BY <2>4, <2>5, <2>6, <3>1, ResponsesCallKeeps, Zenon
    <3>3. QED BY <1>3, <2>6, <2>8, <3>2
  <2>9. CASE stream' = [stream EXCEPT !.usage = TRUE] /\ UNCHANGED stored
    <3>1. Mutely(stream', stream)
      BY <1>1, <2>9, SilentMutely, Zenon
    <3>2. KeepsIn(out, stream')
      BY <2>6, <3>1, KeepsMutely
    <3>3. QED BY <1>3, <2>6, <2>9, <3>2
  <2>10. CASE stream' = OnError(stream) /\ UNCHANGED stored
    <3>1. stream' = ResponsesError(stream)
      BY <2>10 DEF OnError
    <3>2. stream' \in Translator /\ stream'.finished = TRUE
      BY <1>1, <3>1, ErrorEnds, Zenon
    <3>3. stored' = NotStored
      BY <2>6, <2>10 DEF ResponsesInv
    <3>4. StoredWas(out', stream', stored')
      BY <3>3, NothingStored, Zenon
    <3>5. stream'.finished # FALSE /\ out' \in Seq(ClientEvent)
      BY <1>1, <2>6, <3>2
    <3>6. QED BY <3>2, <3>4, <3>5, Zenon DEF ResponsesInv
  <2>11. ASSUME NEW storing, stream' = OnFinish(stream, e.r, storing), Store(stream, storing)
         PROVE  ResponsesInv'
    <3>1. stream' = ResponsesEnd(stream, storing)
      BY <2>11 DEF OnFinish
    <3>2. QED BY <1>4, <2>6, <2>11, <3>1
  <2>12. QED BY <1>5, <2>1, <2>7, <2>8, <2>9, <2>10, <2>11, Zenon DEF TakeEvent
<1>6. CASE TakeEnd
  <2>1. PICK storing : stream' = OnEnd(stream, storing) /\ Store(stream, storing)
    BY <1>6, Zenon DEF TakeEnd
  <2>2. stream' = ResponsesEnd(stream, storing)
    BY <2>1 DEF OnEnd
  <2>3. out' = out /\ stream.finished = FALSE
    <3>1. ~stream.finished /\ out' = out
      BY <1>6 DEF TakeEnd, Polled, Pulled
    <3>2. QED BY <1>1, <3>1, FieldTypes
  <2>4. QED BY <1>4, <2>1, <2>2, <2>3
<1>7. CASE Send
  <2>1. PICK p, h, t, sent, none :
           p = stream.pending /\ h = Head(p) /\ t = Tail(p) /\ sent = Append(out, h) /\ none = <<>>
    OBVIOUS
  <2>2. p # <<>> /\ out' = sent /\ stream' = [stream EXCEPT !.pending = t] /\ stored' = stored
    BY <1>7, <2>1, Zenon DEF Send
  <2>3. p \in Seq(ClientEvent)
    BY <1>1, <2>1, FieldTypes
  <2>4. none \in Seq(ClientEvent) /\ IsJoin(out, none, out)
    BY <1>1, <2>1 DEF IsJoin
  <2>5. ASSUME NEW all, IsJoin(all, out, p)
        PROVE  sent \in Seq(ClientEvent) /\ t \in Seq(ClientEvent) /\ IsJoin(all, sent, t)
    BY <1>1, <2>1, <2>2, <2>3, <2>4, <2>5, Moved
  <2>6. sent \in Seq(ClientEvent) /\ t \in Seq(ClientEvent)
    <3>1. PICK all : all = out \o p
      OBVIOUS
    <3>2. IsJoin(all, out, p)
      BY <3>1, Zenon DEF IsJoin
    <3>3. QED BY <2>5, <3>2
  <2>7. stream' \in Translator
    BY <1>1, <2>2, <2>6, TranslatorFields
  <2>8. /\ stream'.pending = t /\ stream'.text = stream.text /\ stream'.calls = stream.calls
        /\ stream'.tools = stream.tools /\ stream'.finished = stream.finished
    BY <1>1, <2>2, OtherFields, Zenon
  <2>9. ASSUME KeepsIn(out, stream) PROVE KeepsIn(out', stream')
    BY <2>1, <2>2, <2>5, <2>6, <2>7, <2>8, <2>9, Zenon DEF KeepsIn
  <2>10. ASSUME StoredWas(out, stream, stored) PROVE StoredWas(out', stream', stored')
    BY <2>1, <2>2, <2>5, <2>8, <2>10, Zenon DEF StoredWas
  <2>11. QED BY <2>2, <2>6, <2>7, <2>8, <2>9, <2>10, Zenon DEF ResponsesInv
<1>8. CASE UNCHANGED streamVars
  BY <1>2, <1>8 DEF streamVars
<1>9. QED
  BY <1>2, <1>5, <1>6, <1>7, <1>8, Zenon
     DEF StreamsNext, Gateway, Upstream, ParseFrame, End, KeepAlive, Leave,
         Close, Break, SendTail, SendFrame, SendHead

LEMMA StreamsSteps == StreamsInv /\ [StreamsNext]_streamVars => StreamsInv'
<1> SUFFICES ASSUME StreamsInv, [StreamsNext]_streamVars PROVE StreamsInv'
  OBVIOUS
<1>1. CASE CompleteInv
  BY <1>1, CompleteSteps DEF StreamsInv
<1>2. CASE LiveInv /\ StoredInv
  <2>1. LiveInv'
    BY <1>2, LiveSteps
  <2>2. protocol' = protocol
    BY Zenon
       DEF streamVars, StreamsNext, Gateway, Upstream, ParseFrame, TakeEvent, TakeEnd, Send, End, KeepAlive,
           Leave, Close, Break, SendTail, SendFrame, SendHead
  <2>3. CASE protocol = "responses"
    <3>1. ResponsesInv'
      BY <1>2, <2>3, ResponsesSteps DEF StoredInv
    <3>2. QED BY <2>1, <2>2, <2>3, <3>1 DEF StoredInv, StreamsInv
  <2>4. CASE protocol # "responses"
    <3>1. stored' = stored
      <4>1. ASSUME NEW s, NEW storing, Store(s, storing) PROVE stored' = stored
        BY <2>4, <4>1, Zenon DEF Store
      <4>2. QED
        BY <4>1, Zenon
           DEF streamVars, StreamsNext, Gateway, Upstream, ParseFrame, TakeEvent, TakeEnd, Send, End, KeepAlive,
               Leave, Close, Break, SendTail, SendFrame, SendHead
    <3>2. QED BY <1>2, <2>1, <2>2, <2>4, <3>1 DEF StoredInv, StreamsInv
  <2>5. QED BY <2>3, <2>4
<1>3. QED BY <1>1, <1>2 DEF StreamsInv

LEMMA StoredHolds == StreamsInv => StoredIsStreamed
<1>1. ASSUME StoredWas(out, stream, stored) PROVE StoredIsStreamed
  BY <1>1, StoredMeans
<1>2. ASSUME stored = NotStored PROVE StoredIsStreamed
  BY <1>1, <1>2, NothingStored, Zenon
<1>3. ASSUME ResponsesInv PROVE StoredIsStreamed
  <2>1. stream.finished \in BOOLEAN
    BY <1>3, FieldTypes DEF ResponsesInv
  <2>2. QED BY <1>1, <1>2, <1>3, <2>1 DEF ResponsesInv
<1>4. QED BY <1>2, <1>3, Zenon DEF StreamsInv, StoredInv, CompleteInv

\* What is stored for previous_response_id is what was streamed, for every frames
\* that an upstream sends (finish, maybe_store_openai_response).
THEOREM StoredWasStreamed == StreamsSpec => []StoredIsStreamed
<1>1. StreamsInit => StreamsInv
  BY StreamsStart
<1>2. StreamsInv /\ [StreamsNext]_streamVars => StreamsInv'
  BY StreamsSteps
<1>3. StreamsInv => StoredIsStreamed
  BY StoredHolds
<1>4. QED BY <1>1, <1>2, <1>3, PTL DEF StreamsSpec

-----------------------------------------------------------------------------
(* What a translator passes on, in any protocol.                           *)

\* The items that it has opened.
Items(s) == s.blocks \cup CallNames(s.calls)
Names == {Text} \cup {ToolCall(i) : i \in Nat}

\* A translator at work.  Messages have their items as blocks; Responses have
\* the text there and the calls by their index.
Sound(s) ==
    /\ s \in Translator /\ s.finished = FALSE
    /\ s.blocks \subseteq Names /\ IsFiniteSet(s.blocks) /\ IsFiniteSet(DOMAIN s.calls)
    /\ protocol = "responses" => s.blocks \subseteq {Text} /\ (~s.tools => DOMAIN s.calls = {})
    /\ protocol # "responses" => DOMAIN s.calls = {}

\* Every event that opens an item opens one of these.
OpensIn(es, items) == \A j \in 1..Len(es) : es[j].k \in Opening => es[j].b \in items

\* The translator t is s after it said events with these pieces.
SaysPieces(t, s, ps, items) ==
    \E es \in Seq(ClientEvent) :
        IsJoin(t.pending, s.pending, es) /\ Flat(es, OfPieces) = ps /\ OpensIn(es, items)
Passes(t, s, ps) == Sound(t) /\ Items(s) \subseteq Items(t) /\ SaysPieces(t, s, ps, Items(t))

LEMMA PieceMap == OfPieces \in [ClientEvent -> Seq(BlockName \X Nat)]
BY EventFunctions

\* What is joined opens what its parts open.
LEMMA OpensJoined ==
    ASSUME NEW T, NEW a \in Seq(T), NEW c \in Seq(T), NEW ac, IsJoin(ac, a, c),
           NEW items, NEW more, OpensIn(a, items), OpensIn(c, more), items \subseteq more
    PROVE  OpensIn(ac, more)
<1>1. PICK n \in Nat, m \in Nat : n = Len(a) /\ m = Len(c)
  OBVIOUS
<1>2. Len(ac) = n + m /\ (\A i \in 1..n : ac[i] = a[i]) /\ \A i \in (n + 1)..(n + m) : ac[i] = c[i - n]
  BY <1>1 DEF IsJoin
<1>3. ASSUME NEW j \in 1..Len(ac), ac[j].k \in Opening PROVE ac[j].b \in more
  <2>1. CASE j \in 1..n
    <3>1. ac[j] = a[j] /\ j \in 1..Len(a)
      BY <1>1, <1>2, <2>1
    <3>2. QED BY <1>3, <3>1, Zenon DEF OpensIn
  <2>2. CASE j \in (n + 1)..(n + m)
    <3>1. ac[j] = c[j - n] /\ j - n \in 1..Len(c)
      BY <1>1, <1>2, <2>2
    <3>2. QED BY <1>3, <3>1, Zenon DEF OpensIn
  <2>3. QED BY <1>2, <2>1, <2>2
<1>4. QED BY <1>3 DEF OpensIn

\* Joining is associative.
LEMMA JoinTwice ==
    ASSUME NEW T, NEW a \in Seq(T), NEW b \in Seq(T), NEW c \in Seq(T), NEW ab, NEW abc,
           IsJoin(ab, a, b), IsJoin(abc, ab, c)
    PROVE  \E bc \in Seq(T) : IsJoin(bc, b, c) /\ IsJoin(abc, a, bc)
<1>1. PICK bc : bc = b \o c
  OBVIOUS
<1>2. bc \in Seq(T)
  BY <1>1, ConcatProperties
<1>3. (a \o b) \o c = a \o (b \o c)
  BY ConcatAssociative
<1>4. abc = a \o bc
  BY <1>1, <1>3, Zenon DEF IsJoin
<1>5. QED BY <1>1, <1>2, <1>4, Zenon DEF IsJoin

\* What says nothing first.
LEMMA PassTwice ==
    ASSUME NEW s, Sound(s), NEW t, NEW u, NEW ps, Passes(t, s, <<>>), Passes(u, t, ps)
    PROVE  Passes(u, s, ps)
<1>1. PICK es \in Seq(ClientEvent) :
          IsJoin(t.pending, s.pending, es) /\ Flat(es, OfPieces) = <<>> /\ OpensIn(es, Items(t))
  BY Zenon DEF Passes, SaysPieces
<1>2. PICK fs \in Seq(ClientEvent) :
          IsJoin(u.pending, t.pending, fs) /\ Flat(fs, OfPieces) = ps /\ OpensIn(fs, Items(u))
  BY Zenon DEF Passes, SaysPieces
<1>3. s.pending \in Seq(ClientEvent) /\ Sound(u) /\ Items(t) \subseteq Items(u) /\ Items(s) \subseteq Items(u)
  BY FieldTypes DEF Passes, Sound
<1>4. PICK gs \in Seq(ClientEvent) : IsJoin(gs, es, fs) /\ IsJoin(u.pending, s.pending, gs)
  <2>1. PICK a, b, c : a = s.pending /\ b = t.pending /\ c = u.pending
    OBVIOUS
  <2>2. IsJoin(b, a, es) /\ IsJoin(c, b, fs) /\ a \in Seq(ClientEvent)
    BY <1>1, <1>2, <1>3, <2>1, Zenon
  <2>3. \E gs \in Seq(ClientEvent) : IsJoin(gs, es, fs) /\ IsJoin(c, a, gs)
    BY <1>1, <1>2, <2>2, JoinTwice
  <2>4. QED BY <2>1, <2>3, Zenon
<1>5. Flat(gs, OfPieces) = ps
  <2>1. PICK x, y, z : x = Flat(es, OfPieces) /\ y = Flat(fs, OfPieces) /\ z = Flat(gs, OfPieces)
    OBVIOUS
  <2>2. IsJoin(z, x, y) /\ y \in Seq(BlockName \X Nat)
    BY <1>4, <2>1, PieceMap, FlatMapJoined, Zenon
  <2>3. x = <<>>
    BY <1>1, <2>1, Zenon
  <2>4. z = y
    BY <2>2, <2>3 DEF IsJoin
  <2>5. QED BY <1>2, <2>1, <2>4, Zenon
<1>6. OpensIn(gs, Items(u))
  BY <1>1, <1>2, <1>3, <1>4, OpensJoined
<1>7. QED BY <1>3, <1>4, <1>5, <1>6, Zenon DEF Passes, SaysPieces

LEMMA SoundSame ==
    ASSUME NEW s, Sound(s), NEW t \in Translator, t.blocks = s.blocks, t.calls = s.calls,
           t.tools = s.tools, t.finished = s.finished
    PROVE  Sound(t) /\ Items(t) = Items(s)
BY DEF Sound, Items

\* Nothing is said.
LEMMA Unsaid ==
    ASSUME NEW s, Sound(s), NEW t, Sound(t), t.pending = s.pending, Items(s) \subseteq Items(t)
    PROVE  Passes(t, s, <<>>)
<1>1. PICK e : e = <<>>
  OBVIOUS
<1>2. PICK p, q : p = s.pending /\ q = t.pending
  OBVIOUS
<1>3. p \in Seq(ClientEvent)
  BY <1>2, FieldTypes DEF Sound
<1>4. IsJoin(q, p, e) /\ e \in Seq(ClientEvent) /\ OpensIn(e, Items(t))
  BY <1>1, <1>2, <1>3 DEF IsJoin, OpensIn
<1>5. Flat(e, OfPieces) = <<>>
  BY <1>1, FlatMapOne, Zenon
<1>6. QED BY <1>2, <1>4, <1>5, Zenon DEF Passes, SaysPieces

\* What an event tells.
OnePiece(b, p) == IF p[1] # 0 THEN <<<<b, p[1]>>>> ELSE <<>>

LEMMA OneSays ==
    ASSUME NEW f \in ClientEvent, NEW items, f.k \in Opening => f.b \in items, NEW es, es = <<f>>
    PROVE  es \in Seq(ClientEvent) /\ Flat(es, OfPieces) = OnePiece(f.b, f.p) /\ OpensIn(es, items)
<1>1. es \in Seq(ClientEvent) /\ Len(es) = 1 /\ es[1] = f
  OBVIOUS
<1>2. OpensIn(es, items)
  BY <1>1 DEF OpensIn
<1>3. Flat(es, OfPieces) = OfPieces[f]
  BY FlatMapOne, Zenon
<1>4. OfPieces[f] = OnePiece(f.b, f.p)
  BY DEF OfPieces, OnePiece
<1>5. QED BY <1>1, <1>2, <1>3, <1>4

LEMMA SayPasses ==
    ASSUME NEW s, Sound(s), NEW e \in ClientEvent, e.k \in Opening => e.b \in Items(s)
    PROVE  /\ Passes(Say(s, e), s, OnePiece(e.b, e.p)) /\ Items(Say(s, e)) = Items(s)
           /\ Passes(Push(s, e), s, OnePiece(e.b, e.p)) /\ Items(Push(s, e)) = Items(s)
<1>1. s \in Translator /\ s.seq \in Nat
  BY FieldTypes DEF Sound
<1>2. ASSUME NEW f \in ClientEvent, f.k = e.k, f.b = e.b, f.p = e.p,
             NEW t, SaidMore(t, s, <<f>>), t.blocks = s.blocks
      PROVE  Passes(t, s, OnePiece(e.b, e.p)) /\ Items(t) = Items(s)
  <2>1. PICK es : es = <<f>>
    OBVIOUS
  <2>2. SaidMore(t, s, es)
    BY <1>2, <2>1, Zenon
  <2>3. Sound(t) /\ Items(t) = Items(s)
    BY <1>2, <2>2, SoundSame DEF SaidMore
  <2>4. es \in Seq(ClientEvent) /\ Flat(es, OfPieces) = OnePiece(e.b, e.p) /\ OpensIn(es, Items(t))
    BY <1>2, <2>1, <2>3, OneSays
  <2>5. QED BY <2>2, <2>3, <2>4, Zenon DEF Passes, SaysPieces, SaidMore
<1>3. SaidMore(Push(s, e), s, <<e>>) /\ Push(s, e).blocks = s.blocks
  BY <1>1, PushSays
<1>4. PICK f : AtNumber(f, e, s.seq) /\ SaidMore(Say(s, e), s, <<f>>) /\ Say(s, e).blocks = s.blocks
  BY <1>1, SaySays
<1>5. f \in ClientEvent /\ f.k = e.k /\ f.b = e.b /\ f.p = e.p
  BY <1>1, <1>4, NumberedEvent
<1>6. QED BY <1>2, <1>3, <1>4, <1>5, Zenon

\* The events that translators say.
LEMMA EventIs ==
    /\ \A k \in Kinds, b \in BlockName :
          /\ About(k, b) \in ClientEvent /\ About(k, b).k = k /\ About(k, b).b = b
          /\ OnePiece(About(k, b).b, About(k, b).p) = <<>>
    /\ \A k \in Kinds : /\ Plain(k) \in ClientEvent /\ Plain(k).k = k
                        /\ OnePiece(Plain(k).b, Plain(k).p) = <<>>
    /\ \A k \in Kinds, b \in BlockName, p \in Payload :
          Piece(k, b, p) \in ClientEvent /\ Piece(k, b, p).k = k /\ Piece(k, b, p).b = b /\ Piece(k, b, p).p = p
    /\ \A r \in Reasons : /\ Reason("finish", r) \in ClientEvent /\ Reason("finish", r).k = "finish"
                          /\ OnePiece(Reason("finish", r).b, Reason("finish", r).p) = <<>>
<1>1. <<"none", 0>> \in BlockName /\ <<0, "exact">> \in Payload /\ "finish" \in Kinds
      /\ \A r \in Reasons : <<0, r>> \in Payload
  BY DEF BlockName, Payload, Forms, Kinds
<1>2. \A k \in Kinds, b \in BlockName, p \in Payload :
          Event(k, b, p, 0) \in ClientEvent /\ Event(k, b, p, 0).k = k /\ Event(k, b, p, 0).b = b
          /\ Event(k, b, p, 0).p = p
  BY DEF Event, ClientEvent
<1>3. (\A b : OnePiece(b, <<0, "exact">>) = <<>>) /\ \A b, r : OnePiece(b, <<0, r>>) = <<>>
  BY DEF OnePiece
<1>4. \A k \in Kinds, b \in BlockName :
          /\ About(k, b) \in ClientEvent /\ About(k, b).k = k /\ About(k, b).b = b
          /\ OnePiece(About(k, b).b, About(k, b).p) = <<>>
  BY <1>1, <1>2, <1>3 DEF About
<1>5. \A k \in Kinds : /\ Plain(k) \in ClientEvent /\ Plain(k).k = k
                       /\ OnePiece(Plain(k).b, Plain(k).p) = <<>>
  BY <1>1, <1>2, <1>3 DEF Plain
<1>6. \A r \in Reasons : /\ Reason("finish", r) \in ClientEvent /\ Reason("finish", r).k = "finish"
                         /\ OnePiece(Reason("finish", r).b, Reason("finish", r).p) = <<>>
  <2> SUFFICES ASSUME NEW r \in Reasons
               PROVE  /\ Reason("finish", r) \in ClientEvent /\ Reason("finish", r).k = "finish"
                      /\ OnePiece(Reason("finish", r).b, Reason("finish", r).p) = <<>>
    OBVIOUS
  <2>1. PICK b, p, e : b = <<"none", 0>> /\ p = <<0, r>> /\ e = Event("finish", b, p, 0)
    OBVIOUS
  <2>2. Reason("finish", r) = e
    BY <2>1, Zenon DEF Reason
  <2>3. b \in BlockName /\ p \in Payload /\ "finish" \in Kinds
    BY <1>1, <2>1
  <2>4. e \in ClientEvent /\ e.k = "finish" /\ e.b = b /\ e.p = p
    BY <1>2, <2>1, <2>3
  <2>5. OnePiece(b, p) = <<>>
    BY <2>1 DEF OnePiece
  <2>6. QED BY <2>2, <2>4, <2>5
<1>7. \A k \in Kinds, b \in BlockName, p \in Payload :
          Piece(k, b, p) \in ClientEvent /\ Piece(k, b, p).k = k /\ Piece(k, b, p).b = b /\ Piece(k, b, p).p = p
  BY <1>2, Zenon DEF Piece
<1>8. QED BY <1>4, <1>5, <1>6, <1>7

\* Other fields.
LEMMA QuietFields ==
    ASSUME NEW s, Sound(s)
    PROVE  /\ \A x \in BOOLEAN : Passes([s EXCEPT !.usage = x], s, <<>>)
           /\ \A x \in BOOLEAN : Passes([s EXCEPT !.started = x], s, <<>>)
           /\ \A x \in Seq(Payload) : Passes([s EXCEPT !.text = x], s, <<>>)
           /\ Passes(SawTool(s), s, <<>>) /\ SawTool(s).tools = TRUE
           /\ Passes(s, s, <<>>)
<1>1. s \in Translator
  BY DEF Sound
<1>2. ASSUME NEW t \in Translator, t.pending = s.pending, t.blocks = s.blocks, t.calls = s.calls,
             t.tools = s.tools, t.finished = s.finished
      PROVE  Passes(t, s, <<>>)
  <2>1. Sound(t) /\ Items(t) = Items(s)
    BY <1>2, SoundSame
  <2>2. QED BY <1>2, <2>1, Unsaid
<1>3. ASSUME NEW x \in BOOLEAN
      PROVE  Passes([s EXCEPT !.usage = x], s, <<>>) /\ Passes([s EXCEPT !.started = x], s, <<>>)
  <2>1. PICK t, u : t = [s EXCEPT !.usage = x] /\ u = [s EXCEPT !.started = x]
    OBVIOUS
  <2>2. t \in Translator /\ u \in Translator
    BY <1>1, <2>1, TranslatorFields
  <2>3. t.blocks = s.blocks /\ u.blocks = s.blocks
    BY <1>1, <2>1 DEF Translator
  <2>4. Passes(t, s, <<>>)
    <3>1. t.pending = s.pending /\ t.calls = s.calls /\ t.tools = s.tools /\ t.finished = s.finished
      BY <1>1, <2>1, OtherFields, Zenon
    <3>2. QED BY <1>2, <2>2, <2>3, <3>1
  <2>5. Passes(u, s, <<>>)
    <3>1. u.pending = s.pending /\ u.calls = s.calls /\ u.tools = s.tools /\ u.finished = s.finished
      BY <1>1, <2>1, OtherFields, Zenon
    <3>2. QED BY <1>2, <2>2, <2>3, <3>1
  <2>6. QED BY <2>1, <2>4, <2>5, Zenon
<1>4. ASSUME NEW x \in Seq(Payload) PROVE Passes([s EXCEPT !.text = x], s, <<>>)
  <2>1. PICK t : t = [s EXCEPT !.text = x]
    OBVIOUS
  <2>2. t \in Translator /\ t.blocks = s.blocks
    <3>1. t \in Translator
      BY <1>1, <2>1, TranslatorFields
    <3>2. QED BY <1>1, <2>1, <3>1 DEF Translator
  <2>3. t.pending = s.pending /\ t.calls = s.calls /\ t.tools = s.tools /\ t.finished = s.finished
    BY <1>1, <2>1, MemoryFields, Zenon
  <2>4. Passes(t, s, <<>>)
    BY <1>2, <2>2, <2>3
  <2>5. QED BY <2>1, <2>4, Zenon
<1>5. Passes(SawTool(s), s, <<>>) /\ SawTool(s).tools = TRUE
  <2>1. PICK t : t = [s EXCEPT !.tools = TRUE]
    OBVIOUS
  <2>2. t \in Translator /\ t.blocks = s.blocks
    <3>1. t \in Translator
      BY <1>1, <2>1, TranslatorFields
    <3>2. QED BY <1>1, <2>1, <3>1 DEF Translator
  <2>3. t.pending = s.pending /\ t.calls = s.calls /\ t.tools = TRUE /\ t.finished = s.finished
    BY <1>1, <2>1, MemoryFields, Zenon
  <2>4. Sound(t) /\ Items(t) = Items(s)
    BY <2>2, <2>3 DEF Sound, Items
  <2>5. Passes(t, s, <<>>)
    BY <2>3, <2>4, Unsaid
  <2>6. QED BY <2>1, <2>3, <2>5, Zenon DEF SawTool
<1>6. Passes(s, s, <<>>)
  BY <1>1, <1>2
<1>7. QED BY <1>3, <1>4, <1>5, <1>6

-----------------------------------------------------------------------------
(* A piece of text or of a call, in each protocol.                         *)

LEMMA SayOnce ==
    ASSUME NEW s, Sound(s), NEW t, Passes(t, s, <<>>), NEW k \in Kinds \ Opening, NEW b \in BlockName,
           NEW p \in Payload
    PROVE  /\ Passes(Push(t, Piece(k, b, p)), s, OnePiece(b, p))
           /\ Passes(Say(t, Piece(k, b, p)), s, OnePiece(b, p))
<1>1. PICK e : e = Piece(k, b, p)
  OBVIOUS
<1>2. e \in ClientEvent /\ e.k \notin Opening /\ e.b = b /\ e.p = p
  BY <1>1, EventIs
<1>3. Sound(t)
  BY DEF Passes
<1>4. Passes(Push(t, e), t, OnePiece(b, p)) /\ Passes(Say(t, e), t, OnePiece(b, p))
  BY <1>2, <1>3, SayPasses
<1>5. QED BY <1>1, <1>4, PassTwice

\* An event about an item that it opens or leaves open.
LEMMA TellsOfItem ==
    ASSUME NEW s, Sound(s), NEW t, Passes(t, s, <<>>), NEW k \in Kinds, NEW b \in BlockName,
           b \in Items(t)
    PROVE  /\ Passes(Push(t, About(k, b)), s, <<>>) /\ Items(Push(t, About(k, b))) = Items(t)
           /\ Passes(Say(t, About(k, b)), s, <<>>) /\ Items(Say(t, About(k, b))) = Items(t)
<1>1. PICK e : e = About(k, b)
  OBVIOUS
<1>2. e \in ClientEvent /\ e.b \in Items(t) /\ OnePiece(e.b, e.p) = <<>>
  BY <1>1, EventIs
<1>3. Sound(t)
  BY DEF Passes
<1>4. /\ Passes(Push(t, e), t, <<>>) /\ Passes(Say(t, e), t, <<>>)
      /\ Items(Push(t, e)) = Items(t) /\ Items(Say(t, e)) = Items(t)
  BY <1>2, <1>3, SayPasses
<1>5. QED BY <1>1, <1>4, PassTwice

\* One more block.
LEMMA BlockPasses ==
    ASSUME NEW s, Sound(s), NEW b \in Names, protocol = "responses" => b = Text,
           NEW t, t = [s EXCEPT !.blocks = @ \cup {b}]
    PROVE  Passes(t, s, <<>>) /\ b \in Items(t)
<1>1. s \in Translator /\ s.blocks \in SUBSET BlockName
  BY FieldTypes DEF Sound
<1>2. PICK x : x = s.blocks \cup {b}
  OBVIOUS
<1>3. b \in BlockName
  BY MuteEvents DEF Names
<1>4. x \in SUBSET BlockName /\ IsFiniteSet(x) /\ x \subseteq Names /\ b \in x /\ s.blocks \subseteq x
  BY <1>1, <1>2, <1>3, FS_AddElement DEF Sound
<1>5. t = [s EXCEPT !.blocks = x]
  BY <1>2
<1>6. t \in Translator
  BY <1>1, <1>4, <1>5, TranslatorFields
<1>7. /\ t.pending = s.pending /\ t.blocks = x /\ t.calls = s.calls
      /\ t.tools = s.tools /\ t.finished = s.finished
  <2>1. t.pending = s.pending /\ t.blocks = x /\ t.calls = s.calls
    BY ONLY <1>1, <1>5, OtherFields, Zenon
  <2>2. t.tools = s.tools /\ t.finished = s.finished
    BY ONLY <1>1, <1>5, OtherFields, Zenon
  <2>3. QED BY <2>1, <2>2
<1>8. protocol = "responses" => x \subseteq {Text}
  BY <1>2 DEF Sound
<1>9. Sound(t)
  BY <1>4, <1>6, <1>7, <1>8, Zenon DEF Sound
<1>10. Items(s) \subseteq Items(t) /\ b \in Items(t)
  BY <1>4, <1>7 DEF Items
<1>11. QED BY <1>7, <1>9, <1>10, Unsaid

LEMMA NamesAre ==
    /\ Text \in Names /\ Text \in BlockName
    /\ \A i \in Nat : ToolCall(i) \in Names /\ ToolCall(i) \in BlockName
BY MuteEvents DEF Names

LEMMA OpenedPasses ==
    ASSUME NEW s, Sound(s), NEW b \in Names, protocol # "responses"
    PROVE  Passes(Opened(s, b), s, <<>>) /\ b \in Items(Opened(s, b))
<1>1. CASE b \in s.blocks
  <2>1. Opened(s, b) = s
    BY <1>1 DEF Opened
  <2>2. QED BY <1>1, <2>1, QuietFields DEF Items
<1>2. CASE b \notin s.blocks
  <2>1. PICK t : t = [s EXCEPT !.blocks = @ \cup {b}]
    OBVIOUS
  <2>2. Passes(t, s, <<>>) /\ b \in Items(t)
    BY <2>1, BlockPasses
  <2>3. b \in BlockName /\ "block" \in Kinds
    BY NamesAre DEF Names, Kinds
  <2>4. Opened(s, b) = Push(t, About("block", b))
    BY <1>2, <2>1, Zenon DEF Opened
  <2>5. QED BY <2>2, <2>3, <2>4, TellsOfItem
<1>3. QED BY <1>1, <1>2

LEMMA CreatedPasses ==
    ASSUME NEW s, Sound(s)
    PROVE  Passes(Created(s), s, <<>>)
<1>1. CASE s.started
  <2>1. Created(s) = s
    BY <1>1 DEF Created
  <2>2. QED BY <2>1, QuietFields
<1>2. CASE ~s.started
  <2>1. PICK t, e, f : t = [s EXCEPT !.started = TRUE] /\ e = Plain("created") /\ f = Plain("in_progress")
    OBVIOUS
  <2>2. Passes(t, s, <<>>)
    BY <2>1, QuietFields
  <2>3. /\ e \in ClientEvent /\ e.k \notin Opening /\ OnePiece(e.b, e.p) = <<>>
        /\ f \in ClientEvent /\ f.k \notin Opening /\ OnePiece(f.b, f.p) = <<>>
    <3>1. "created" \in Kinds /\ "in_progress" \in Kinds /\ "created" \notin Opening /\ "in_progress" \notin Opening
      BY DEF Kinds, Opening
    <3>2. QED BY <2>1, <3>1, EventIs
  <2>4. PICK u : u = Say(t, e)
    OBVIOUS
  <2>5. Passes(u, t, <<>>)
    BY <2>2, <2>3, <2>4, SayPasses DEF Passes
  <2>6. PICK v : v = Say(u, f)
    OBVIOUS
  <2>7. Passes(v, u, <<>>)
    BY <2>3, <2>5, <2>6, SayPasses DEF Passes
  <2>8. Passes(u, s, <<>>)
    BY <2>2, <2>5, PassTwice
  <2>9. Passes(v, s, <<>>)
    BY <2>7, <2>8, PassTwice
  <2>10. Created(s) = v
    BY <1>2, <2>1, <2>4, <2>6, Zenon DEF Created
  <2>11. QED BY <2>9, <2>10
<1>3. QED BY <1>1, <1>2

LEMMA TextAddedPasses ==
    ASSUME NEW s, Sound(s)
    PROVE  Passes(TextAdded(s), s, <<>>) /\ Text \in Items(TextAdded(s))
<1>1. CASE Text \in s.blocks
  <2>1. TextAdded(s) = s
    BY <1>1 DEF TextAdded
  <2>2. QED BY <1>1, <2>1, QuietFields DEF Items
<1>2. CASE Text \notin s.blocks
  <2>1. PICK t : t = [s EXCEPT !.blocks = @ \cup {Text}]
    OBVIOUS
  <2>2. Passes(t, s, <<>>) /\ Text \in Items(t)
    BY <2>1, BlockPasses, NamesAre
  <2>3. "added" \in Kinds /\ "part" \in Kinds
    BY DEF Kinds
  <2>4. PICK u, v : u = Say(t, About("added", Text)) /\ v = Say(u, About("part", Text))
    OBVIOUS
  <2>5. Passes(u, s, <<>>) /\ Text \in Items(u)
    BY <2>2, <2>3, <2>4, NamesAre, TellsOfItem
  <2>6. Passes(v, s, <<>>) /\ Text \in Items(v)
    BY <2>3, <2>4, <2>5, NamesAre, TellsOfItem
  <2>7. TextAdded(s) = v
    BY <1>2, <2>1, <2>4, Zenon DEF TextAdded
  <2>8. QED BY <2>6, <2>7
<1>3. QED BY <1>1, <1>2

\* A call is remembered with its arguments.
LEMMA AddCallPasses ==
    ASSUME NEW s, Sound(s), s.tools = TRUE, protocol = "responses", NEW i \in Nat, NEW p \in Payload,
           NEW t, t = AddCall(s, i, p)
    PROVE  Passes(t, s, <<>>) /\ ToolCall(i) \in Items(t)
<1>1. PICK old, args, c :
         /\ old = OfCall(s.calls, i) /\ args = (IF p = Nothing THEN old ELSE Append(old, p))
         /\ c = [j \in DOMAIN s.calls \cup {i} |-> IF j = i THEN args ELSE s.calls[j]]
  OBVIOUS
<1>2. t = [s EXCEPT !.calls = c] /\ WithArgs(c, s.calls, i, args)
  <2>1. Arguments(s, i) = old
    BY <1>1, Zenon DEF Arguments, OfCall
  <2>2. WithArgs(c, s.calls, i, args)
    BY <1>1, Zenon DEF WithArgs
  <2>3. AddCall(s, i, p) = [s EXCEPT !.calls = [j \in DOMAIN s.calls \cup {i} |-> IF j = i THEN args ELSE s.calls[j]]]
    BY <1>1, <2>1, Zenon DEF AddCall
  <2>4. QED BY <1>1, <2>2, <2>3, Zenon
<1>3. s \in Translator /\ s.calls \in CallTables /\ IsFiniteSet(DOMAIN s.calls)
  BY FieldTypes DEF Sound
<1>4. args \in Seq(Payload)
  <2>1. old \in Seq(Payload)
    <3>1. PICK calls : calls = s.calls
      OBVIOUS
    <3>2. calls \in CallTables /\ old = OfCall(calls, i)
      BY <1>1, <1>3, <3>1, Zenon
    <3>3. PICK D \in SUBSET Nat : calls \in [D -> Seq(Payload)]
      BY <3>2 DEF CallTables
    <3>4. <<>> \in Seq(Payload)
      OBVIOUS
    <3>5. QED BY <3>2, <3>3, <3>4 DEF OfCall
  <2>2. QED BY <1>1, <2>1, AppendProperties
<1>5. TableWith(c, s.calls, i, args)
  BY <1>2, <1>3, <1>4, WithArgsIs
<1>6. c \in CallTables /\ IsFiniteSet(DOMAIN c) /\ DOMAIN c = DOMAIN s.calls \cup {i}
  BY <1>5, Zenon DEF TableWith
<1>7. t \in Translator
  BY <1>2, <1>3, <1>6, TranslatorFields
<1>8. t.pending = s.pending /\ t.calls = c /\ t.tools = TRUE /\ t.finished = s.finished /\ t.blocks = s.blocks
  <2>1. t.blocks = s.blocks
    BY <1>2, <1>3 DEF Translator
  <2>2. t.pending = s.pending /\ t.calls = c
    BY ONLY <1>2, <1>3, MemoryFields, Zenon
  <2>3. t.tools = s.tools /\ t.finished = s.finished
    BY ONLY <1>2, <1>3, MemoryFields, Zenon
  <2>4. QED BY <2>1, <2>2, <2>3
<1>9. Sound(t)
  BY <1>6, <1>7, <1>8 DEF Sound
<1>10. Items(s) \subseteq Items(t) /\ ToolCall(i) \in Items(t)
  BY <1>6, <1>8 DEF Items, CallNames
<1>11. QED BY <1>8, <1>9, <1>10, Unsaid

\* What a delta is to tell.
OfDelta ==
    [d \in Delta |-> CASE d.k = "text" /\ d.p[1] # 0 -> Shown(<<Text, d.p[1]>>)
                       [] d.k = "call" /\ d.p[1] # 0 -> Shown(<<ToolCall(d.i), d.p[1]>>)
                       [] OTHER -> <<>>]

LEMMA DeltaTells ==
    ASSUME NEW e \in Delta
    PROVE  /\ e.i \in Nat /\ e.p \in Payload /\ (e.p = Nothing \/ e.p[1] # 0)
           /\ e.k = "text" => OfDelta[e] = OnePiece(Text, e.p)
           /\ e.k = "call" =>
                OfDelta[e] = CASE protocol = "completion" -> <<>>
                               [] protocol = "legacy" -> OnePiece(ToolCall(0), e.p)
                               [] OTHER -> OnePiece(ToolCall(e.i), e.p)
           /\ e.k \notin {"text", "call"} \/ e.p = Nothing => OfDelta[e] = <<>>
<1>1. e.i \in Nat /\ e.p \in GoodPayload
  BY DEF Delta
<1>2. e.p \in Payload /\ (e.p = Nothing \/ e.p[1] # 0)
  BY <1>1 DEF GoodPayload
<1>3. PICK i, p, n, text, named, zero : i = e.i /\ p = e.p /\ n = p[1] /\ text = Text /\ named = ToolCall(i) /\ zero = ToolCall(0)
  OBVIOUS
<1>4. OfDelta[e] = CASE e.k = "text" /\ n # 0 -> Shown(<<text, n>>)
                     [] e.k = "call" /\ n # 0 -> Shown(<<named, n>>)
                     [] OTHER -> <<>>
  BY <1>3, Zenon DEF OfDelta
<1>5. Shown(<<text, n>>) = <<<<text, n>>>>
  BY <1>3, Zenon DEF Shown
<1>6. named # text
  BY <1>3 DEF ToolCall, Text
<1>7. Shown(<<named, n>>) = CASE protocol = "completion" -> <<>>
                             [] protocol = "legacy" -> <<<<zero, n>>>>
                             [] OTHER -> <<<<named, n>>>>
  BY <1>3, <1>6 DEF Shown
<1>8. e.k = "text" => OfDelta[e] = IF n # 0 THEN <<<<text, n>>>> ELSE <<>>
  BY <1>4, <1>5
<1>9. e.k = "call" => OfDelta[e] = CASE protocol = "completion" -> <<>>
                             [] protocol = "legacy" -> IF n # 0 THEN <<<<zero, n>>>> ELSE <<>>
                             [] OTHER -> IF n # 0 THEN <<<<named, n>>>> ELSE <<>>
  BY <1>4, <1>7
<1>10. p = Nothing => n = 0
  BY <1>3 DEF Nothing
<1>11. \A b : OnePiece(b, p) = IF n # 0 THEN <<<<b, n>>>> ELSE <<>>
  BY <1>3 DEF OnePiece
<1>12. e.k = "text" => OfDelta[e] = OnePiece(text, p)
  BY <1>8, <1>11
<1>13. e.k = "call" => OfDelta[e] = CASE protocol = "completion" -> <<>>
                             [] protocol = "legacy" -> OnePiece(zero, p)
                             [] OTHER -> OnePiece(named, p)
  BY <1>9, <1>11
<1>14. e.k \notin {"text", "call"} \/ p = Nothing => OfDelta[e] = <<>>
  BY <1>4, <1>10
<1>15. QED BY <1>1, <1>2, <1>3, <1>12, <1>13, <1>14, Zenon

\* A piece of text is told, one of nothing is not.
LEMMA TextPasses ==
    ASSUME NEW s, Sound(s), NEW e \in Delta, e.k = "text"
    PROVE  Passes(OnText(s, e), s, OfDelta[e])
<1>1. e.p \in Payload /\ (e.p = Nothing => OfDelta[e] = <<>>) /\ OfDelta[e] = OnePiece(Text, e.p)
  BY DeltaTells
<1>2. CASE e.p = Nothing
  <2>1. OnText(s, e) = s
    BY <1>2 DEF OnText
  <2>2. QED BY <1>1, <1>2, <2>1, QuietFields
<1>3. CASE e.p # Nothing
  <2>1. "delta" \in Kinds \ Opening /\ "text" \in Kinds \ Opening /\ Text \in BlockName /\ Text \in Names
    BY NamesAre DEF Kinds, Opening
  <2>2. CASE protocol = "messages"
    <3>1. Passes(Opened(s, Text), s, <<>>)
      BY <2>1, <2>2, OpenedPasses
    <3>2. OnText(s, e) = Push(Opened(s, Text), Piece("delta", Text, e.p))
      BY <1>3, <2>2 DEF OnText, MessagesText
    <3>3. QED BY <1>1, <2>1, <3>1, <3>2, SayOnce
  <2>3. CASE protocol = "responses"
    <3>1. PICK c, a : c = Created(s) /\ a = TextAdded(c)
      OBVIOUS
    <3>2. Passes(c, s, <<>>)
      BY <3>1, CreatedPasses
    <3>3. Sound(c) /\ Passes(a, c, <<>>)
      BY <3>1, <3>2, TextAddedPasses DEF Passes
    <3>4. Passes(a, s, <<>>)
      BY <3>2, <3>3, PassTwice
    <3>5. PICK x, t : x = Append(a.text, e.p) /\ t = [a EXCEPT !.text = x]
      OBVIOUS
    <3>6. x \in Seq(Payload)
      <4>1. a \in Translator
        BY <3>3 DEF Passes, Sound
      <4>2. a.text \in Seq(Payload)
        BY <4>1, FieldTypes
      <4>3. QED BY <1>1, <3>5, <4>2, AppendProperties
    <3>7. Passes(t, a, <<>>)
      BY <3>3, <3>5, <3>6, QuietFields DEF Passes
    <3>8. Passes(t, s, <<>>)
      BY <3>4, <3>7, PassTwice
    <3>9. OnText(s, e) = Say(t, Piece("text", Text, e.p))
      <4>1. t = [a EXCEPT !.text = Append(@, e.p)]
        BY <3>5
      <4>2. OnText(s, e) = ResponsesText(s, e)
        BY <1>3, <2>3 DEF OnText
      <4>3. QED BY <3>1, <4>1, <4>2, Zenon DEF ResponsesText
    <3>10. QED BY <1>1, <2>1, <3>8, <3>9, SayOnce
  <2>4. CASE protocol \notin {"messages", "responses"}
    <3>1. OnText(s, e) = Push(s, Piece("text", Text, e.p))
      BY <1>3, <2>4 DEF OnText
    <3>2. Passes(s, s, <<>>)
      BY QuietFields
    <3>3. QED BY <1>1, <2>1, <3>1, <3>2, SayOnce
  <2>5. QED BY <2>2, <2>3, <2>4
<1>4. QED BY <1>2, <1>3

LEMMA ResponsesCallPasses ==
    ASSUME NEW s, Sound(s), NEW e, e.i \in Nat, e.p \in Payload, protocol = "responses"
    PROVE  Passes(ResponsesCall(s, e), s, OnePiece(ToolCall(e.i), e.p))
<1>1. PICK i, p, c, o, a : i = e.i /\ p = e.p /\ c = Created(s) /\ o = SawTool(c) /\ a = AddCall(o, i, p)
  OBVIOUS
<1>2. i \in Nat /\ p \in Payload
  BY <1>1
<1>3. Sound(c) /\ Passes(c, s, <<>>)
  BY <1>1, CreatedPasses DEF Passes
<1>4. Sound(o) /\ Passes(o, c, <<>>) /\ o.tools = TRUE
  BY <1>1, <1>3, QuietFields DEF Passes
<1>5. Passes(a, o, <<>>) /\ ToolCall(i) \in Items(a)
  BY <1>1, <1>2, <1>4, AddCallPasses
<1>6. Passes(a, s, <<>>)
  <2>1. Passes(o, s, <<>>)
    BY <1>3, <1>4, PassTwice
  <2>2. QED BY <1>5, <2>1, PassTwice
<1>7. PICK u : u = IF Arguments(s, i) = <<>> THEN Say(a, About("added", ToolCall(i))) ELSE a
  OBVIOUS
<1>8. "added" \in Kinds /\ "args" \in Kinds \ Opening /\ ToolCall(i) \in BlockName
  BY <1>2, NamesAre DEF Kinds, Opening
<1>9. Passes(u, s, <<>>)
  <2>1. CASE Arguments(s, i) = <<>>
    <3>1. u = Say(a, About("added", ToolCall(i)))
      BY <1>7, <2>1
    <3>2. QED BY <1>5, <1>6, <1>8, <3>1, TellsOfItem
  <2>2. CASE Arguments(s, i) # <<>>
    BY <1>6, <1>7, <2>2
  <2>3. QED BY <2>1, <2>2
<1>10. ResponsesCall(s, e) = IF p = Nothing THEN u ELSE Say(u, Piece("args", ToolCall(i), p))
  BY <1>1, <1>7, Zenon DEF ResponsesCall
<1>11. CASE p = Nothing
  <2>1. OnePiece(ToolCall(i), p) = <<>>
    BY <1>11 DEF OnePiece, Nothing
  <2>2. QED BY <1>1, <1>9, <1>10, <1>11, <2>1
<1>12. CASE p # Nothing
  <2>1. Passes(Say(u, Piece("args", ToolCall(i), p)), s, OnePiece(ToolCall(i), p))
    BY <1>2, <1>8, <1>9, SayOnce
  <2>2. QED BY <1>1, <1>10, <1>12, <2>1
<1>13. QED BY <1>11, <1>12

LEMMA CallPasses ==
    ASSUME NEW s, Sound(s), NEW e \in Delta, e.k = "call"
    PROVE  Passes(OnCall(s, e), s, OfDelta[e])
<1>1. /\ e.i \in Nat /\ e.p \in Payload /\ (e.p = Nothing => OfDelta[e] = <<>>)
      /\ OfDelta[e] = CASE protocol = "completion" -> <<>>
                        [] protocol = "legacy" -> OnePiece(ToolCall(0), e.p)
                        [] OTHER -> OnePiece(ToolCall(e.i), e.p)
  BY DeltaTells
<1>2. Passes(SawTool(s), s, <<>>)
  BY QuietFields
<1>3. /\ "delta" \in Kinds \ Opening /\ "function" \in Kinds \ Opening /\ "call" \in Kinds \ Opening
      /\ ToolCall(e.i) \in BlockName /\ ToolCall(e.i) \in Names /\ ToolCall(0) \in BlockName
  BY <1>1, NamesAre DEF Kinds, Opening
<1>4. CASE protocol = "completion"
  <2>1. OnCall(s, e) = s /\ OfDelta[e] = <<>>
    BY <1>1, <1>4 DEF OnCall
  <2>2. QED BY <2>1, QuietFields
<1>5. CASE protocol = "messages"
  <2>1. PICK t, o : t = SawTool(s) /\ o = Opened(t, ToolCall(e.i))
    OBVIOUS
  <2>2. Passes(o, t, <<>>)
    BY <1>2, <1>3, <1>5, <2>1, OpenedPasses DEF Passes
  <2>3. Passes(o, s, <<>>)
    BY <1>2, <2>1, <2>2, PassTwice
  <2>4. OnCall(s, e) = IF e.p = Nothing THEN o ELSE Push(o, Piece("delta", ToolCall(e.i), e.p))
    BY <1>5, <2>1 DEF OnCall, MessagesCall
  <2>5. Passes(Push(o, Piece("delta", ToolCall(e.i), e.p)), s, OnePiece(ToolCall(e.i), e.p))
    BY <1>1, <1>3, <2>3, SayOnce
  <2>6. OfDelta[e] = OnePiece(ToolCall(e.i), e.p)
    BY <1>1, <1>5
  <2>7. QED BY <1>1, <2>3, <2>4, <2>5, <2>6
<1>6. CASE protocol = "responses"
  <2>1. OnCall(s, e) = ResponsesCall(s, e) /\ OfDelta[e] = OnePiece(ToolCall(e.i), e.p)
    BY <1>1, <1>6 DEF OnCall
  <2>2. QED BY <1>1, <1>6, <2>1, ResponsesCallPasses
<1>7. CASE protocol = "legacy"
  <2>1. OnCall(s, e) = Push(SawTool(s), Piece("function", ToolCall(0), e.p)) /\ OfDelta[e] = OnePiece(ToolCall(0), e.p)
    BY <1>1, <1>7 DEF OnCall, ChatCall
  <2>2. QED BY <1>1, <1>2, <1>3, <2>1, SayOnce
<1>8. CASE protocol \notin {"completion", "messages", "responses", "legacy"}
  <2>1. OnCall(s, e) = Push(SawTool(s), Piece("call", ToolCall(e.i), e.p)) /\ OfDelta[e] = OnePiece(ToolCall(e.i), e.p)
    BY <1>1, <1>8 DEF OnCall, ChatCall
  <2>2. QED BY <1>1, <1>2, <1>3, <2>1, SayOnce
<1>9. QED BY <1>4, <1>5, <1>6, <1>7, <1>8

-----------------------------------------------------------------------------
(* The end of a stream.                                                    *)

IsClosed(es, b) == \E m \in 1..Len(es) : es[m].k \in Closing /\ es[m].b = b

\* Responses leave the text open when there were calls.
LeftOpen(b, tools) == b = Text /\ protocol = "responses" /\ tools

\* The translator t is s after it ended: it said no piece, and what was open, or
\* was opened now, is closed.
EndsWith(t, s, es) ==
    /\ t \in Translator /\ t.finished = TRUE /\ t.tools = s.tools
    /\ es \in Seq(ClientEvent) /\ IsJoin(t.pending, s.pending, es) /\ Flat(es, OfPieces) = <<>>
    /\ HasItems =>
         /\ \A b \in Items(s) : LeftOpen(b, s.tools) \/ IsClosed(es, b)
         /\ \A j \in 1..Len(es) :
               es[j].k \in Opening => LeftOpen(es[j].b, s.tools) \/ IsClosed(es, es[j].b)
Ends(t, s) == \E es : EndsWith(t, s, es)

LEMMA MutesSayNothing ==
    ASSUME NEW es \in Seq(Quiets)
    PROVE  es \in Seq(ClientEvent) /\ Flat(es, OfPieces) = <<>>
<1>1. es \in Seq(ClientEvent)
  BY SeqMonotonic DEF Quiets
<1>2. PICK n \in Nat : n = Len(es)
  OBVIOUS
<1>3. \A j \in 1..n : es[j] \in Quiets
  BY <1>2
<1>4. \A e \in Quiets : OfPieces[e] = <<>>
  BY DEF OfPieces, Quiets
<1>5. \A j \in 1..Len(es) : OfPieces[es[j]] = <<>>
  BY <1>2, <1>3, <1>4
<1>6. QED BY <1>1, <1>2, <1>5, FlatNone

LEMMA ResponsesEnds ==
    ASSUME NEW s, Sound(s), protocol = "responses", NEW storing
    PROVE  Ends(ResponsesEnd(s, storing), s)
<1>1. s \in Translator /\ IsFiniteSet(DOMAIN s.calls)
  BY DEF Sound
<1>2. PICK t, r : /\ r = ResponsesEnd(s, storing)
                  /\ Ending(t, s, LastItems(s), {"completed"})
                  /\ r = [t EXCEPT !.finished = TRUE]
  BY <1>1, ResponsesEndEnds
<1>3. PICK es \in Seq(Mutes) : SaidMore(t, s, es) /\ \A b \in LastItems(s) : Done(es, b)
  BY <1>2, Zenon DEF Ending
<1>4. t \in Translator /\ t.tools = s.tools /\ IsJoin(t.pending, s.pending, es)
  BY <1>3 DEF SaidMore
<1>5. r \in Translator /\ r.pending = t.pending /\ r.tools = t.tools /\ r.finished = TRUE
  <2>1. r \in Translator
    BY <1>2, <1>4, TranslatorFields
  <2>2. t \in Translator /\ r = [t EXCEPT !.finished = TRUE]
    BY <1>2, <1>4
  <2>3. r.pending = t.pending
    BY ONLY <2>2, MemoryFields, Zenon
  <2>4. r.tools = t.tools
    BY ONLY <2>2, MemoryFields, Zenon
  <2>5. r.finished = TRUE
    BY ONLY <2>2, MemoryFields
  <2>6. QED BY <2>1, <2>3, <2>4, <2>5
<1>6. es \in Seq(ClientEvent) /\ Flat(es, OfPieces) = <<>>
  BY MuteSeqs, MutesSayNothing
<1>7. \A b : Done(es, b) => IsClosed(es, b)
  BY DEF Done, IsClosed, Closing
<1>8. ASSUME NEW b \in Items(s) \cup {Text} PROVE LeftOpen(b, s.tools) \/ IsClosed(es, b)
  <2>1. CASE s.tools
    <3>1. b = Text \/ b \in CallNames(s.calls)
      BY <1>8 DEF Sound, Items
    <3>2. CASE b = Text
      BY <2>1, <3>2 DEF LeftOpen
    <3>3. CASE b \in CallNames(s.calls)
      BY <1>3, <1>7, <2>1, <3>3 DEF LastItems
    <3>4. QED BY <3>1, <3>2, <3>3
  <2>2. CASE ~s.tools
    <3>1. b = Text
      BY <1>8, <2>2 DEF Sound, Items, CallNames
    <3>2. QED BY <1>3, <1>7, <2>2, <3>1 DEF LastItems
  <2>3. QED BY <2>1, <2>2
<1>9. ASSUME NEW j \in 1..Len(es), es[j].k \in Opening PROVE es[j].b = Text
  <2>1. es[j] \in Mutes
    BY <1>9
  <2>2. QED BY <1>9, <2>1 DEF Mutes
<1>10. \A j \in 1..Len(es) :
          es[j].k \in Opening => LeftOpen(es[j].b, s.tools) \/ IsClosed(es, es[j].b)
  BY <1>8, <1>9, Zenon
<1>11. IsJoin(r.pending, s.pending, es) /\ r.tools = s.tools
  BY <1>4, <1>5, Zenon
<1>12. EndsWith(r, s, es)
  BY <1>5, <1>6, <1>8, <1>10, <1>11, Zenon DEF EndsWith
<1>13. QED BY <1>2, <1>12, Zenon DEF Ends

\* Two events.
IsPair(es, e, f) == es = <<e, f>>
LastTwo(t, s, e, f) == t = Ended(Push(Push(s, e), f))

LEMMA PairIs ==
    ASSUME NEW e \in ClientEvent, NEW f \in ClientEvent, NEW es, IsPair(es, e, f),
           OnePiece(e.b, e.p) = <<>>, OnePiece(f.b, f.p) = <<>>, e.k \notin Opening, f.k \notin Opening
    PROVE  /\ es \in Seq(ClientEvent) /\ Flat(es, OfPieces) = <<>>
           /\ \A j \in 1..Len(es) : es[j].k \notin Opening
           /\ \E j \in 1..Len(es) : es[j] = e
<1>1. es \in Seq(ClientEvent) /\ Len(es) = 2 /\ es[1] = e /\ es[2] = f
  BY DEF IsPair
<1>2. OfPieces[e] = <<>> /\ OfPieces[f] = <<>>
  BY DEF OfPieces, OnePiece
<1>3. \A j \in 1..2 : j = 1 \/ j = 2
  OBVIOUS
<1>4. \A j \in 1..Len(es) : OfPieces[es[j]] = <<>> /\ es[j].k \notin Opening
  BY <1>1, <1>2, <1>3
<1>5. Flat(es, OfPieces) = <<>>
  BY <1>1, <1>4, FlatNone
<1>6. QED BY <1>1, <1>4, <1>5

\* Two events and the end, in a protocol that has no items.
LEMMA PairEnds ==
    ASSUME NEW s \in Translator, NEW e \in ClientEvent, NEW f \in ClientEvent,
           NEW t, LastTwo(t, s, e, f), NEW es, IsPair(es, e, f)
    PROVE  /\ t \in Translator /\ t.finished = TRUE /\ t.tools = s.tools
           /\ IsJoin(t.pending, s.pending, es)
<1>1. PICK u, v : u = Push(s, e) /\ v = Push(u, f) /\ t = [v EXCEPT !.finished = TRUE]
  BY DEF LastTwo, Ended
<1>2. SaidMore(u, s, <<e>>)
  BY <1>1, PushSays
<1>3. u \in Translator
  BY <1>2 DEF SaidMore
<1>4. SaidMore(v, u, <<f>>)
  BY <1>1, <1>3, PushSays
<1>5. PICK a, b : a = <<e>> /\ b = <<f>>
  OBVIOUS
<1>6. SaidMore(u, s, a) /\ SaidMore(v, u, b) /\ IsJoin(es, a, b)
  <2>1. IsJoin(<<e, f>>, <<e>>, <<f>>)
    BY SmallJoins
  <2>2. es = <<e, f>>
    BY Zenon DEF IsPair
  <2>3. QED BY <1>2, <1>4, <1>5, <2>1, <2>2, Zenon
<1>7. PICK gs : IsJoin(gs, a, b) /\ SaidMore(v, s, gs)
  BY <1>6, SaidTwice
<1>8. gs = es
  BY <1>6, <1>7, Zenon DEF IsJoin
<1>9. v \in Translator /\ IsJoin(v.pending, s.pending, es) /\ v.tools = s.tools
  BY <1>7, <1>8 DEF SaidMore
<1>10. t = [v EXCEPT !.finished = TRUE]
  BY <1>1
<1>11. t \in Translator /\ t.pending = v.pending /\ t.tools = v.tools /\ t.finished = TRUE
  <2>1. t \in Translator
    BY <1>9, <1>10, TranslatorFields
  <2>2. t.pending = v.pending /\ t.tools = v.tools /\ t.finished = TRUE
    BY ONLY <1>9, <1>10, MemoryFields, Zenon
  <2>3. QED BY <2>1, <2>2
<1>12. QED BY <1>9, <1>11

LEMMA OpenAiEnds ==
    ASSUME NEW s, Sound(s), ~HasItems, NEW r \in Reasons
    PROVE  Ends(OpenAiEnd(s, r), s)
<1>1. PICK e, f : e = Reason("finish", r) /\ f = Plain("[DONE]")
  OBVIOUS
<1>2. "[DONE]" \in Kinds
  BY DEF Kinds
<1>3. e \in ClientEvent /\ f \in ClientEvent /\ e.k = "finish" /\ f.k = "[DONE]"
      /\ OnePiece(e.b, e.p) = <<>> /\ OnePiece(f.b, f.p) = <<>>
  BY ONLY <1>1, <1>2, EventIs, r \in Reasons, Zenon
<1>4. PICK es : IsPair(es, e, f)
  BY DEF IsPair
<1>5. e.k \notin Opening /\ f.k \notin Opening
  BY <1>3 DEF Opening
<1>6. es \in Seq(ClientEvent) /\ Flat(es, OfPieces) = <<>>
  BY ONLY <1>3, <1>4, <1>5, PairIs
<1>7. PICK t : t = OpenAiEnd(s, r)
  OBVIOUS
<1>8. LastTwo(t, s, e, f)
  BY <1>1, <1>7, Zenon DEF OpenAiEnd, LastTwo
<1>9. s \in Translator
  BY DEF Sound
<1>10. t \in Translator /\ t.finished = TRUE /\ t.tools = s.tools /\ IsJoin(t.pending, s.pending, es)
  <2>1. e \in ClientEvent /\ f \in ClientEvent
    BY <1>3
  <2>2. /\ t \in Translator /\ t.finished = TRUE /\ t.tools = s.tools
        /\ IsJoin(t.pending, s.pending, es)
    BY <2>1, <1>4, <1>8, <1>9, PairEnds, Zenon
  <2>3. QED BY <2>2
<1>11. EndsWith(t, s, es)
  BY <1>6, <1>10, Zenon DEF EndsWith
<1>12. QED BY <1>7, <1>11, Zenon DEF Ends

\* What is closed in one part is closed in the whole.
LEMMA JoinClosed ==
    ASSUME NEW T, NEW a \in Seq(T), NEW c \in Seq(T), NEW ac, IsJoin(ac, a, c), NEW b,
           IsClosed(a, b) \/ IsClosed(c, b)
    PROVE  IsClosed(ac, b)
<1>1. PICK n \in Nat, m \in Nat : n = Len(a) /\ m = Len(c)
  OBVIOUS
<1>2. /\ ac \in Seq(T) /\ Len(ac) = n + m
      /\ \A i \in 1..n : ac[i] = a[i]
      /\ \A i \in 1..m : ac[n + i] = c[i]
  BY <1>1, ConcatProperties DEF IsJoin
<1>3. \A i \in 1..n : i \in 1..(n + m)
  OBVIOUS
<1>4. \A i \in 1..m : n + i \in 1..(n + m)
  OBVIOUS
<1>5. IsClosed(a, b) => IsClosed(ac, b)
  BY <1>1, <1>2, <1>3, Zenon DEF IsClosed
<1>6. IsClosed(c, b) => IsClosed(ac, b)
  BY <1>1, <1>2, <1>4, Zenon DEF IsClosed
<1>7. QED BY <1>5, <1>6

\* close_open_blocks: every block is closed and none opened.
Stops == {e \in ClientEvent : OnePiece(e.b, e.p) = <<>> /\ e.k \notin Opening}

LEMMA StopsSay ==
    ASSUME NEW es \in Seq(Stops)
    PROVE  /\ es \in Seq(ClientEvent) /\ Flat(es, OfPieces) = <<>>
           /\ \A j \in 1..Len(es) : es[j].k \notin Opening
<1>1. \A j \in 1..Len(es) : es[j] \in Stops
  OBVIOUS
<1>2. Stops \subseteq ClientEvent
  BY DEF Stops
<1>3. es \in Seq(ClientEvent)
  BY <1>1, <1>2, SeqOfType
<1>4. \A j \in 1..Len(es) : OfPieces[es[j]] = <<>> /\ es[j].k \notin Opening
  BY <1>1 DEF Stops, OfPieces, OnePiece
<1>5. Flat(es, OfPieces) = <<>>
  BY <1>4, FlatNone
<1>6. QED BY <1>3, <1>4, <1>5

LEMMA StopIs ==
    ASSUME NEW b \in BlockName
    PROVE  /\ About("stop", b) \in Stops /\ About("stop", b).b = b
           /\ About("stop", b).k \in Closing
<1>1. "stop" \in Kinds /\ "stop" \notin Opening /\ "stop" \in Closing
  BY DEF Kinds, Opening, Closing
<1>2. About("stop", b) \in ClientEvent /\ About("stop", b).k = "stop" /\ About("stop", b).b = b
      /\ OnePiece(About("stop", b).b, About("stop", b).p) = <<>>
  BY <1>1, EventIs, Zenon
<1>3. QED BY <1>1, <1>2, Zenon DEF Stops

LEMMA CloseSays ==
    ASSUME NEW s, Sound(s), protocol # "responses"
    PROVE  \E es \in Seq(Stops) : /\ SaidMore(CloseBlocks(s), s, es)
                                  /\ \A b \in Items(s) : IsClosed(es, b)
<1>1. s \in Translator /\ s.blocks \subseteq Names /\ IsFiniteSet(s.blocks) /\ DOMAIN s.calls = {}
  BY DEF Sound
<1>2. Items(s) = s.blocks
  BY <1>1 DEF Items, CallNames
<1>3. PICK D : D = {b[2] : b \in s.blocks \ {Text}}
  OBVIOUS
<1>4. D \subseteq Nat
  BY <1>1, <1>3 DEF Names, ToolCall
<1>5. IsFiniteSet(D)
  <2>1. IsFiniteSet(s.blocks \ {Text})
    BY <1>1, FS_Subset
  <2>2. PICK F : F = [b \in s.blocks \ {Text} |-> b[2]]
    OBVIOUS
  <2>3. F \in Surjection(s.blocks \ {Text}, D)
    BY <1>3, <2>2 DEF Surjection
  <2>4. QED BY <2>1, <2>3, FS_Surjection
<1>6. PICK q : q = Sorted(D)
  OBVIOUS
<1>7. q \in Seq(D) /\ \A i \in D : \E j \in 1..Len(q) : q[j] = i
  BY <1>4, <1>5, <1>6, SortedHas
<1>8. PICK a : a = IF Text \in s.blocks THEN <<About("stop", Text)>> ELSE <<>>
  OBVIOUS
<1>9. PICK c : c = [j \in 1..Len(q) |-> About("stop", ToolCall(q[j]))]
  OBVIOUS
<1>10. a \in Seq(Stops)
  <2>1. About("stop", Text) \in Stops
    BY StopIs, NamesAre
  <2>2. QED BY <1>8, <2>1, SingleSeq
<1>11. \A j \in 1..Len(q) : q[j] \in Nat
  <2>1. \A j \in 1..Len(q) : q[j] \in D
    BY <1>7
  <2>2. QED BY <1>4, <2>1
<1>12. \A j \in 1..Len(q) : ToolCall(q[j]) \in BlockName
  BY <1>11, NamesAre
<1>13. \A j \in 1..Len(q) : About("stop", ToolCall(q[j])) \in Stops
  BY <1>12, StopIs
<1>14. c \in Seq(Stops) /\ Len(c) = Len(q)
  BY <1>7, <1>9, <1>13
<1>15. PICK es : IsJoin(es, a, c)
  BY DEF IsJoin
<1>16. es \in Seq(Stops)
  BY <1>10, <1>14, <1>15 DEF IsJoin
<1>17. \A b \in Items(s) : IsClosed(es, b)
  <2>1. \A b : IsClosed(a, b) \/ IsClosed(c, b) => IsClosed(es, b)
    BY <1>10, <1>14, <1>15, JoinClosed, Zenon
  <2>2. ASSUME NEW b \in s.blocks PROVE IsClosed(a, b) \/ IsClosed(c, b)
    <3>1. CASE b = Text
      <4>1. a = <<About("stop", Text)>>
        BY <1>8, <2>2, <3>1
      <4>2. About("stop", Text).b = Text /\ About("stop", Text).k \in Closing
        BY StopIs, NamesAre
      <4>3. Len(a) = 1 /\ a[1] = About("stop", Text)
        BY <4>1
      <4>4. 1 \in 1..Len(a) /\ a[1].k \in Closing /\ a[1].b = b
        BY <4>2, <4>3, <3>1
      <4>5. QED BY <4>4, Zenon DEF IsClosed
    <3>2. CASE b # Text
      <4>1. PICK i \in Nat : b = ToolCall(i)
        BY <1>1, <2>2, <3>2 DEF Names
      <4>2. i \in D
        BY <1>3, <2>2, <3>2, <4>1 DEF ToolCall
      <4>3. PICK j \in 1..Len(q) : q[j] = i
        BY <1>7, <4>2
      <4>4. c[j] = About("stop", ToolCall(i))
        BY <1>9, <4>3
      <4>5. About("stop", ToolCall(i)).b = ToolCall(i) /\ About("stop", ToolCall(i)).k \in Closing
        BY StopIs, NamesAre
      <4>6. j \in 1..Len(c) /\ c[j].k \in Closing /\ c[j].b = b
        BY <1>14, <4>1, <4>3, <4>4, <4>5
      <4>7. QED BY <4>6, Zenon DEF IsClosed
    <3>3. QED BY <3>1, <3>2
  <2>3. QED BY <1>2, <2>1, <2>2
<1>18. PICK u, t : u = [s EXCEPT !.blocks = {}] /\ t = CloseBlocks(s)
  OBVIOUS
<1>19. t = PushAll(u, es)
  <2>1. t = PushAll(u, a \o c)
    BY ONLY <1>3, <1>6, <1>8, <1>9, <1>18, Zenon DEF CloseBlocks
  <2>2. QED BY <1>15, <2>1, Zenon DEF IsJoin
<1>20. u \in Translator
  BY <1>1, <1>18, TranslatorFields
<1>21. es \in Seq(ClientEvent)
  BY <1>16, StopsSay
<1>22. SaidMore(t, u, es)
  BY <1>19, <1>20, <1>21, PushAllSays
<1>23. /\ u.pending = s.pending /\ u.text = s.text /\ u.calls = s.calls
       /\ u.tools = s.tools /\ u.finished = s.finished
  BY ONLY <1>1, <1>18, OtherFields, Zenon
<1>24. SaidMore(t, s, es)
  BY <1>22, <1>23, Zenon DEF SaidMore
<1>25. QED BY <1>16, <1>17, <1>18, <1>24

LEMMA MessagesEnds ==
    ASSUME NEW s, Sound(s), protocol = "messages", NEW r \in Reasons
    PROVE  Ends(MessagesEnd(s, r), s)
<1>1. PICK u : u = CloseBlocks(s)
  OBVIOUS
<1>2. PICK es \in Seq(Stops) : SaidMore(u, s, es) /\ \A b \in Items(s) : IsClosed(es, b)
  BY <1>1, CloseSays
<1>3. u \in Translator /\ IsJoin(u.pending, s.pending, es) /\ u.tools = s.tools
  BY <1>2 DEF SaidMore
<1>4. PICK e, f : e = Reason("finish", r) /\ f = Plain("message_stop")
  OBVIOUS
<1>5. e \in Stops /\ f \in Stops
  <2>1. "message_stop" \in Kinds
    BY DEF Kinds
  <2>2. /\ e \in ClientEvent /\ f \in ClientEvent /\ e.k = "finish" /\ f.k = "message_stop"
        /\ OnePiece(e.b, e.p) = <<>> /\ OnePiece(f.b, f.p) = <<>>
    BY ONLY <1>4, <2>1, EventIs, r \in Reasons, Zenon
  <2>3. QED BY <2>2 DEF Stops, Opening
<1>6. e \in ClientEvent /\ f \in ClientEvent
  BY <1>5 DEF Stops
<1>7. PICK pair : IsPair(pair, e, f)
  BY DEF IsPair
<1>8. pair \in Seq(Stops)
  BY <1>5, <1>7 DEF IsPair
<1>9. PICK t : t = MessagesEnd(s, r)
  OBVIOUS
<1>10. LastTwo(t, u, e, f)
  BY <1>1, <1>4, <1>9, Zenon DEF MessagesEnd, LastTwo
<1>11. t \in Translator /\ t.finished = TRUE /\ t.tools = u.tools /\ IsJoin(t.pending, u.pending, pair)
  BY <1>3, <1>6, <1>7, <1>10, PairEnds, Zenon
<1>12. s.pending \in Seq(ClientEvent)
  BY FieldTypes DEF Sound
<1>13. es \in Seq(ClientEvent) /\ pair \in Seq(ClientEvent)
  BY <1>2, <1>8, StopsSay
<1>14. PICK all : IsJoin(all, es, pair) /\ IsJoin(t.pending, s.pending, all)
  BY <1>3, <1>11, <1>12, <1>13, JoinTwice
<1>15. all \in Seq(Stops)
  BY <1>2, <1>8, <1>14 DEF IsJoin
<1>16. /\ all \in Seq(ClientEvent) /\ Flat(all, OfPieces) = <<>>
       /\ \A j \in 1..Len(all) : all[j].k \notin Opening
  BY <1>15, StopsSay
<1>17. \A b \in Items(s) : IsClosed(all, b)
  BY <1>2, <1>8, <1>14, JoinClosed
<1>18. EndsWith(t, s, all)
  BY <1>3, <1>11, <1>14, <1>16, <1>17, Zenon DEF EndsWith
<1>19. QED BY <1>9, <1>18, Zenon DEF Ends

\* The reason of each protocol.
LEMMA ReasonsAre ==
    ASSUME NEW s, NEW r \in DeltaReasons \ {"none"}
    PROVE  /\ ChatReason(s, r) \in Reasons /\ CompletionReason(r) \in Reasons
           /\ MessagesReason(s, r) \in Reasons
BY DEF DeltaReasons, Reasons, ChatReason, CompletionReason, MessagesReason

\* The translator ends with a reason to stop, or when the provider stream ends.
LEMMA FinishEnds ==
    ASSUME NEW s, Sound(s), protocol \in Live, NEW r \in DeltaReasons \ {"none"}, NEW storing
    PROVE  Ends(OnFinish(s, r, storing), s)
<1>1. /\ ChatReason(s, r) \in Reasons /\ CompletionReason(r) \in Reasons
      /\ MessagesReason(s, r) \in Reasons
  BY ReasonsAre
<1>2. CASE protocol = "messages"
  <2>1. OnFinish(s, r, storing) = MessagesEnd(s, MessagesReason(s, r))
    BY <1>2 DEF OnFinish
  <2>2. QED BY <1>1, <1>2, <2>1, MessagesEnds
<1>3. CASE protocol = "responses"
  <2>1. OnFinish(s, r, storing) = ResponsesEnd(s, storing)
    BY <1>3 DEF OnFinish
  <2>2. QED BY <1>3, <2>1, ResponsesEnds
<1>4. CASE protocol \notin {"messages", "responses"}
  <2>1. ~HasItems
    BY <1>4 DEF HasItems, Live
  <2>2. \/ OnFinish(s, r, storing) = OpenAiEnd(s, CompletionReason(r))
        \/ OnFinish(s, r, storing) = OpenAiEnd(s, ChatReason(s, r))
    BY <1>4 DEF OnFinish
  <2>3. QED BY <1>1, <2>1, <2>2, OpenAiEnds
<1>5. QED BY <1>2, <1>3, <1>4

LEMMA OnEndEnds ==
    ASSUME NEW s, Sound(s), protocol \in Live, NEW storing
    PROVE  Ends(OnEnd(s, storing), s)
<1>1. "end_turn" \in Reasons /\ "stop" \in Reasons
  BY DEF Reasons
<1>2. CASE protocol = "messages"
  <2>1. OnEnd(s, storing) = MessagesEnd(s, "end_turn")
    BY <1>2 DEF OnEnd
  <2>2. QED BY <1>1, <1>2, <2>1, MessagesEnds
<1>3. CASE protocol = "responses"
  <2>1. OnEnd(s, storing) = ResponsesEnd(s, storing)
    BY <1>3 DEF OnEnd
  <2>2. QED BY <1>3, <2>1, ResponsesEnds
<1>4. CASE protocol \notin {"messages", "responses"}
  <2>1. ~HasItems
    BY <1>4 DEF HasItems, Live
  <2>2. OnEnd(s, storing) = OpenAiEnd(s, "stop")
    BY <1>4 DEF OnEnd
  <2>3. QED BY <1>1, <2>1, <2>2, OpenAiEnds
<1>5. QED BY <1>2, <1>3, <1>4

\* The translator t is s after it failed: it said so.
Fails(t, s) ==
    /\ t \in Translator /\ t.finished = TRUE
    /\ \E es \in Seq(ClientEvent) : IsJoin(t.pending, s.pending, es) /\ Has(es, "error")

LEMMA ErrorFails ==
    ASSUME NEW s \in Translator, NEW u, NEW es, SaidMore(u, s, es), NEW f \in ClientEvent, NEW t,
           LastTwo(t, u, Plain("error"), f)
    PROVE  Fails(t, s)
<1>1. PICK e : e = Plain("error")
  OBVIOUS
<1>2. "error" \in Kinds
  BY DEF Kinds
<1>3. e \in ClientEvent /\ e.k = "error"
  BY <1>1, <1>2, EventIs, Zenon
<1>4. PICK pair : IsPair(pair, e, f)
  BY DEF IsPair
<1>5. pair \in Seq(ClientEvent) /\ Has(pair, "error")
  BY <1>3, <1>4 DEF IsPair, Has
<1>6. u \in Translator /\ es \in Seq(ClientEvent) /\ IsJoin(u.pending, s.pending, es)
  BY DEF SaidMore
<1>7. LastTwo(t, u, e, f)
  BY <1>1
<1>8. t \in Translator /\ t.finished = TRUE /\ IsJoin(t.pending, u.pending, pair)
  BY <1>3, <1>4, <1>6, <1>7, PairEnds, Zenon
<1>9. s.pending \in Seq(ClientEvent)
  BY FieldTypes
<1>10. PICK all \in Seq(ClientEvent) : IsJoin(all, es, pair) /\ IsJoin(t.pending, s.pending, all)
  BY <1>5, <1>6, <1>8, <1>9, JoinTwice
<1>11. Has(all, "error")
  BY <1>5, <1>6, <1>10, JoinHas
<1>12. QED BY <1>8, <1>10, <1>11, Zenon DEF Fails

LEMMA FailureIsTold ==
    ASSUME NEW s, Sound(s)
    PROVE  Fails(OnError(s), s)
<1>1. "failed" \in Kinds /\ "[DONE]" \in Kinds /\ "message_stop" \in Kinds
  BY DEF Kinds
<1>2. Plain("failed") \in ClientEvent /\ Plain("[DONE]") \in ClientEvent /\ Plain("message_stop") \in ClientEvent
  BY <1>1, EventIs, Zenon
<1>3. s \in Translator
  BY DEF Sound
<1>4. PICK t : t = OnError(s)
  OBVIOUS
<1>5. CASE protocol = "messages"
  <2>1. PICK u : u = CloseBlocks(s)
    OBVIOUS
  <2>2. PICK es : SaidMore(u, s, es)
    BY <1>5, <2>1, CloseSays
  <2>3. LastTwo(t, u, Plain("error"), Plain("message_stop"))
    BY <1>4, <1>5, <2>1 DEF OnError, MessagesError, LastTwo
  <2>4. QED BY <1>2, <1>3, <1>4, <2>2, <2>3, ErrorFails
<1>6. CASE protocol = "responses"
  <2>1. PICK u : u = Say(s, Plain("failed"))
    OBVIOUS
  <2>2. PICK es : SaidMore(u, s, es)
    BY <1>2, <1>3, <2>1, SaySays
  <2>3. LastTwo(t, u, Plain("error"), Plain("[DONE]"))
    BY <1>4, <1>6, <2>1 DEF OnError, ResponsesError, LastTwo
  <2>4. QED BY <1>2, <1>3, <1>4, <2>2, <2>3, ErrorFails
<1>7. CASE protocol \notin {"messages", "responses"}
  <2>1. PICK es : SaidMore(s, s, es)
    BY <1>3, SilentMutely DEF Mutely
  <2>2. LastTwo(t, s, Plain("error"), Plain("[DONE]"))
    BY <1>4, <1>7 DEF OnError, OpenAiError, LastTwo
  <2>3. QED BY <1>2, <1>3, <1>4, <2>1, <2>2, ErrorFails
<1>8. QED BY <1>5, <1>6, <1>7

-----------------------------------------------------------------------------
(* What is on its way: frames and provider events.                         *)

OfPromise == [x \in BlockName \X Nat |-> Shown(x)]

LEMMA PromiseMap ==
    /\ OfPromise \in [BlockName \X Nat -> Seq(BlockName \X Nat)]
    /\ OfDelta \in [Delta -> Seq(BlockName \X Nat)]
<1>1. ASSUME NEW x \in BlockName \X Nat PROVE Shown(x) \in Seq(BlockName \X Nat)
  <2>1. PICK y : y = <<ToolCall(0), x[2]>>
    OBVIOUS
  <2>2. ToolCall(0) \in BlockName
    BY NamesAre
  <2>3. y \in BlockName \X Nat
    BY <2>1, <2>2
  <2>4. PICK S : S = BlockName \X Nat
    OBVIOUS
  <2>5. <<x>> \in Seq(S) /\ <<y>> \in Seq(S) /\ <<>> \in Seq(S)
    BY <2>3, <2>4, SingleSeq
  <2>6. Shown(x) = <<x>> \/ Shown(x) = <<y>> \/ Shown(x) = <<>>
    BY <2>1 DEF Shown
  <2>7. QED BY <2>4, <2>5, <2>6
<1>2. OfPromise \in [BlockName \X Nat -> Seq(BlockName \X Nat)]
  BY <1>1 DEF OfPromise
<1>3. ASSUME NEW d \in Delta PROVE OfDelta[d] \in Seq(BlockName \X Nat)
  <2>1. d.i \in Nat /\ d.p \in Payload
    BY DeltaTells
  <2>2. d.p[1] \in Nat
    BY <2>1 DEF Payload
  <2>3. ToolCall(d.i) \in BlockName /\ Text \in BlockName
    BY <2>1, NamesAre
  <2>4. PICK x, y : x = <<Text, d.p[1]>> /\ y = <<ToolCall(d.i), d.p[1]>>
    OBVIOUS
  <2>5. x \in BlockName \X Nat /\ y \in BlockName \X Nat
    BY <2>2, <2>3, <2>4
  <2>6. OfDelta[d] = Shown(x) \/ OfDelta[d] = Shown(y) \/ OfDelta[d] = <<>>
    BY <2>4 DEF OfDelta
  <2>7. <<>> \in Seq(BlockName \X Nat)
    OBVIOUS
  <2>8. QED BY <1>1, <2>5, <2>6, <2>7, Zenon
<1>4. OfDelta \in [Delta -> Seq(BlockName \X Nat)]
  <2>1. OfDelta = [d \in Delta |-> OfDelta[d]]
    BY Zenon DEF OfDelta
  <2>2. QED BY <1>3, <2>1
<1>5. QED BY <1>2, <1>4

LEMMA PromisedIs ==
    ASSUME NEW ps \in Seq(BlockName \X Nat)
    PROVE  Promised(ps) = Flat(ps, OfPromise)
<1>1. \A j \in 1..Len(ps) : ps[j] \in BlockName \X Nat
  OBVIOUS
<1>2. \A j \in 1..Len(ps) : OfPromise[ps[j]] = Shown(ps[j])
  BY <1>1, Zenon DEF OfPromise
<1>3. [j \in 1..Len(ps) |-> OfPromise[ps[j]]] = [j \in 1..Len(ps) |-> Shown(ps[j])]
  BY <1>2, Zenon
<1>4. QED BY <1>3, Zenon DEF Promised, Flat

\* An upstream finishes once: it said a reason then, and no piece follows.
Orderly(w, reason) ==
    \A j \in 1..Len(w) :
        w[j].k = "finish" =>
            /\ reason # "none" /\ w[j].r # "none"
            /\ \A m \in 1..Len(w) : j < m => OfDelta[w[m]] = <<>>

\* The provider events w tell the pieces ps.
Makes(w, ps, reason) ==
    /\ w \in Seq(Delta) /\ ps \in Seq(BlockName \X Nat)
    /\ Flat(w, OfDelta) = Flat(ps, OfPromise) /\ Orderly(w, reason)

\* What comes after the end tells nothing.
LEMMA OrderlyJoined ==
    ASSUME NEW u \in Seq(Delta), NEW v \in Seq(Delta), NEW w, IsJoin(w, u, v), NEW before, NEW reason,
           Orderly(u, before), Orderly(v, reason), before # "none" => reason # "none" /\ Quiet(OfDelta, v)
    PROVE  Orderly(w, reason)
<1>1. PICK n \in Nat, m \in Nat : n = Len(u) /\ m = Len(v)
  OBVIOUS
<1>2. /\ Len(w) = n + m
      /\ \A i \in 1..n : w[i] = u[i]
      /\ \A i \in 1..m : w[n + i] = v[i]
  BY <1>1, ConcatProperties DEF IsJoin
<1>3. \A i \in 1..(n + m) : i \in 1..n \/ (i - n \in 1..m /\ i = n + (i - n))
  OBVIOUS
<1>4. ASSUME NEW j \in 1..(n + m), w[j].k = "finish"
       PROVE  /\ reason # "none" /\ w[j].r # "none"
              /\ \A i \in 1..(n + m) : j < i => OfDelta[w[i]] = <<>>
  <2>1. CASE j \in 1..n
    <3>1. u[j].k = "finish" /\ w[j] = u[j]
      BY <1>2, <1>4, <2>1
    <3>2. before # "none" /\ u[j].r # "none" /\ \A i \in 1..n : j < i => OfDelta[u[i]] = <<>>
      BY <1>1, <2>1, <3>1 DEF Orderly
    <3>3. reason # "none" /\ \A i \in 1..m : OfDelta[v[i]] = <<>>
      BY <1>1, <3>2 DEF Quiet
    <3>4. ASSUME NEW i \in 1..(n + m), j < i PROVE OfDelta[w[i]] = <<>>
      <4>1. CASE i \in 1..n
        <5>1. w[i] = u[i]
          BY <1>2, <4>1
        <5>2. OfDelta[u[i]] = <<>>
          BY <3>2, <3>4, <4>1
        <5>3. QED BY <5>1, <5>2
      <4>2. CASE i - n \in 1..m /\ i = n + (i - n)
        <5>1. PICK h \in 1..m : h = i - n /\ i = n + h
          BY <4>2
        <5>2. w[i] = v[h] /\ OfDelta[v[h]] = <<>>
          BY <1>2, <3>3, <5>1
        <5>3. QED BY <5>2, Zenon
      <4>3. QED BY <1>3, <4>1, <4>2
    <3>5. QED BY <3>1, <3>2, <3>3, <3>4
  <2>2. CASE j - n \in 1..m /\ j = n + (j - n)
    <3>1. w[j] = v[j - n]
      BY <1>2, <2>2
    <3>2. /\ reason # "none" /\ v[j - n].r # "none"
          /\ \A i \in 1..m : j - n < i => OfDelta[v[i]] = <<>>
      BY <1>1, <1>4, <2>2, <3>1 DEF Orderly
    <3>3. ASSUME NEW i \in 1..(n + m), j < i PROVE OfDelta[w[i]] = <<>>
      <4>1. i - n \in 1..m /\ j - n < i - n /\ i = n + (i - n)
        BY <1>3, <2>2, <3>3
      <4>2. w[i] = v[i - n]
        BY <1>2, <4>1
      <4>3. QED BY <3>2, <4>1, <4>2
    <3>4. QED BY <3>1, <3>2, <3>3
  <2>3. QED BY <1>3, <2>1, <2>2
<1>5. QED
  BY <1>2, <1>4, Zenon DEF Orderly

LEMMA MakesJoined ==
    ASSUME NEW u, NEW v, NEW w, NEW ps, NEW qs, NEW rs, NEW before, NEW reason,
           Makes(u, ps, before), Makes(v, qs, reason), IsJoin(w, u, v), IsJoin(rs, ps, qs),
           before # "none" => reason # "none" /\ Quiet(OfDelta, v)
    PROVE  Makes(w, rs, reason)
<1>1. PICK S : S = BlockName \X Nat
  OBVIOUS
<1>2. /\ u \in Seq(Delta) /\ v \in Seq(Delta) /\ ps \in Seq(S) /\ qs \in Seq(S)
      /\ Flat(u, OfDelta) = Flat(ps, OfPromise) /\ Flat(v, OfDelta) = Flat(qs, OfPromise)
      /\ Orderly(u, before) /\ Orderly(v, reason)
  BY <1>1 DEF Makes
<1>3. w \in Seq(Delta) /\ rs \in Seq(S)
  BY <1>2, ConcatProperties DEF IsJoin
<1>4. IsJoin(Flat(w, OfDelta), Flat(u, OfDelta), Flat(v, OfDelta))
  BY <1>1, <1>2, PromiseMap, FlatMapJoined
<1>5. IsJoin(Flat(rs, OfPromise), Flat(ps, OfPromise), Flat(qs, OfPromise))
  BY <1>1, <1>2, PromiseMap, FlatMapJoined
<1>6. Flat(w, OfDelta) = Flat(rs, OfPromise)
  BY <1>2, <1>4, <1>5, Zenon DEF IsJoin
<1>7. Orderly(w, reason)
  BY <1>2, OrderlyJoined
<1>8. QED BY <1>1, <1>3, <1>6, <1>7, Zenon DEF Makes

\* One provider event.
LEMMA OneMakes ==
    ASSUME NEW d \in Delta, NEW ps \in Seq(BlockName \X Nat), Flat(ps, OfPromise) = OfDelta[d],
           NEW reason, d.k = "finish" => d.r # "none" /\ reason # "none"
    PROVE  Makes(<<d>>, ps, reason)
<1>1. PICK w : w = <<d>>
  OBVIOUS
<1>2. w \in Seq(Delta) /\ Len(w) = 1 /\ w[1] = d
  BY <1>1
<1>3. Flat(w, OfDelta) = OfDelta[d]
  BY <1>1, FlatMapOne, Zenon
<1>4. \A j, m \in 1..1 : ~(j < m) /\ j = 1
  OBVIOUS
<1>5. Orderly(w, reason)
  BY <1>2, <1>4 DEF Orderly
<1>6. QED BY <1>1, <1>2, <1>3, <1>5, Zenon DEF Makes

LEMMA NoneMakes == ASSUME NEW reason PROVE Makes(<<>>, <<>>, reason)
<1>1. <<>> \in Seq(Delta) /\ <<>> \in Seq(BlockName \X Nat)
  OBVIOUS
<1>2. Flat(<<>>, OfDelta) = <<>> /\ Flat(<<>>, OfPromise) = <<>>
  BY FlatMapOne
<1>3. Orderly(<<>>, reason)
  BY DEF Orderly
<1>4. QED BY <1>1, <1>2, <1>3, Zenon DEF Makes

\* A provider event that tells nothing.
LEMMA MuteMakes ==
    ASSUME NEW d \in Delta, d.k \notin {"text", "call"} \/ d.p = Nothing,
           NEW reason, d.k = "finish" => d.r # "none" /\ reason # "none"
    PROVE  Makes(<<d>>, <<>>, reason) /\ OfDelta[d] = <<>>
<1>1. OfDelta[d] = <<>>
  BY DeltaTells
<1>2. Flat(<<>>, OfPromise) = <<>>
  BY FlatMapOne, Zenon
<1>3. <<>> \in Seq(BlockName \X Nat)
  OBVIOUS
<1>4. QED BY <1>1, <1>2, <1>3, OneMakes

\* A piece of text or of a call.
LEMMA PieceMakes ==
    ASSUME NEW n \in Nat \ {0}, NEW form \in Forms, NEW reason
    PROVE  /\ Makes(<<TextDelta(<<n, form>>)>>, <<<<Text, n>>>>, reason)
           /\ \A i \in Nat : Makes(<<ToolCallDelta(i, <<n, form>>)>>, <<<<ToolCall(i), n>>>>, reason)
<1>1. PICK p : p = <<n, form>>
  OBVIOUS
<1>2. p \in GoodPayload /\ p[1] = n
  BY <1>1, DeltaTypes
<1>3. PICK d : d = TextDelta(p)
  OBVIOUS
<1>4. d \in Delta /\ d.k = "text" /\ d.p = p
  <2>1. d \in Delta
    BY <1>2, <1>3, DeltaTypes, Zenon
  <2>2. QED BY <2>1, <1>3 DEF TextDelta, ProviderEvent
<1>5. PICK x : x = <<Text, n>>
  OBVIOUS
<1>6. x \in BlockName \X Nat
  <2>1. Text \in BlockName
    BY NamesAre
  <2>2. QED BY <1>5, <2>1
<1>7. \A y \in BlockName \X Nat : Flat(<<y>>, OfPromise) = Shown(y) /\ <<y>> \in Seq(BlockName \X Nat)
  <2>1. ASSUME NEW y \in BlockName \X Nat PROVE Flat(<<y>>, OfPromise) = Shown(y)
    <3>1. Flat(<<y>>, OfPromise) = OfPromise[y]
      BY FlatMapOne, Zenon
    <3>2. QED BY <3>1, Zenon DEF OfPromise
  <2>2. ASSUME NEW y \in BlockName \X Nat PROVE <<y>> \in Seq(BlockName \X Nat)
    BY SingleSeq
  <2>3. QED BY <2>1, <2>2, Zenon
<1>8. OfDelta[d] = Shown(x)
  BY <1>2, <1>4, <1>5 DEF OfDelta
<1>9. Makes(<<d>>, <<x>>, reason)
  BY <1>4, <1>6, <1>7, <1>8, OneMakes
<1>10. ASSUME NEW i \in Nat
       PROVE  Makes(<<ToolCallDelta(i, <<n, form>>)>>, <<<<ToolCall(i), n>>>>, reason)
  <2>1. PICK e, y : e = ToolCallDelta(i, p) /\ y = <<ToolCall(i), n>>
    OBVIOUS
  <2>2. e \in Delta /\ e.k = "call" /\ e.p = p /\ e.i = i
    <3>1. e \in Delta
      BY <1>2, <2>1, DeltaTypes, Zenon
    <3>2. QED BY <3>1, <2>1 DEF ToolCallDelta, ProviderEvent
  <2>3. y \in BlockName \X Nat
    <3>1. ToolCall(i) \in BlockName
      BY NamesAre
    <3>2. QED BY <2>1, <3>1
  <2>4. OfDelta[e] = Shown(y)
    BY <1>2, <2>1, <2>2 DEF OfDelta
  <2>5. Makes(<<e>>, <<y>>, reason)
    BY <1>7, <2>2, <2>3, <2>4, OneMakes
  <2>6. QED BY <1>1, <2>1, <2>5
<1>11. QED BY <1>1, <1>3, <1>5, <1>9, <1>10

\* The frames that may follow the last piece.
Late == {"usage", "other", "error"}

LEMMA FrameFacts ==
    ASSUME NEW f \in Frames
    PROVE  /\ f.i \in Nat /\ f.text \in {"none", "word", "spaced", "space"} /\ f.args \in BOOLEAN
           /\ upstream.kind = "openai" =>
                /\ f.text # "none" \/ f.finish # "none" => f.type \notin Late
                /\ f.args => f.type = "call" \/ (f.type = "function" /\ f.i = 0)
           /\ upstream.kind # "openai" =>
                /\ f.text \in {"none", "word"}
                /\ f.text # "none" \/ f.args => f.type = "delta"
                /\ f.type = "delta" => (f.text = "none" <=> f.args)
BY FramesAssumption DEF Frames, Late

\* One of the parts of a chunk.
LEMMA TextMakes ==
    ASSUME NEW f, f.text \in {"none", "word", "spaced", "space"}, NEW n \in Nat \ {0},
           NEW form \in Marks, NEW reason,
           NEW w, w = (IF f.text # "none" THEN <<OpenAiText(f, n, form)>> ELSE <<>>),
           NEW ps, ps = (IF f.text \in {"word", "spaced"} THEN <<<<Text, n>>>> ELSE <<>>)
    PROVE  Makes(w, ps, reason) /\ (f.text = "none" => w = <<>>)
<1>1. form \in Forms /\ "trimmed" \in Forms
  BY DEF Marks, Forms
<1>2. CASE f.text = "none"
  BY <1>2, NoneMakes
<1>3. CASE f.text = "word"
  <2>1. w = <<TextDelta(<<n, form>>)>> /\ ps = <<<<Text, n>>>>
    BY <1>3 DEF OpenAiText
  <2>2. QED BY <1>1, <1>3, <2>1, PieceMakes
<1>4. CASE f.text = "spaced"
  <2>1. w = <<TextDelta(<<n, "trimmed">>)>> /\ ps = <<<<Text, n>>>>
    BY <1>4 DEF OpenAiText
  <2>2. QED BY <1>1, <1>4, <2>1, PieceMakes
<1>5. CASE f.text = "space"
  <2>1. w = <<TextDelta(Nothing)>> /\ ps = <<>>
    BY <1>5, Zenon DEF OpenAiText
  <2>2. PICK d : d = TextDelta(Nothing)
    OBVIOUS
  <2>3. d \in Delta /\ d.k = "text" /\ d.p = Nothing
    <3>1. d \in Delta
      BY <2>2, DeltaTypes
    <3>2. QED BY <2>2, <3>1 DEF TextDelta, ProviderEvent
  <2>4. Makes(<<d>>, <<>>, reason)
    BY <2>3, MuteMakes
  <2>5. QED BY <1>5, <2>1, <2>2, <2>4
<1>6. QED BY <1>2, <1>3, <1>4, <1>5

LEMMA NoCallMakes ==
    ASSUME NEW i \in Nat, NEW reason
    PROVE  Makes(<<ToolCallDelta(i, Nothing)>>, <<>>, reason)
<1>1. PICK d : d = ToolCallDelta(i, Nothing)
  OBVIOUS
<1>2. d \in Delta /\ d.k = "call" /\ d.p = Nothing
  <2>1. d \in Delta
    BY <1>1, DeltaTypes
  <2>2. QED BY <1>1, <2>1 DEF ToolCallDelta, ProviderEvent
<1>3. QED BY <1>1, <1>2, MuteMakes

OfCallFrame(f, n, form) ==
    CASE f.type = "call" -> <<ToolCallDelta(f.i, IF f.args THEN <<n, form>> ELSE Nothing)>>
      [] f.type = "function" -> <<ToolCallDelta(0, IF f.args THEN <<n, form>> ELSE Nothing)>>
      [] f.type = "null" -> <<ToolCallDelta(0, Nothing)>>
      [] OTHER -> <<>>

LEMMA CallMakes ==
    ASSUME NEW f, f.i \in Nat, f.args \in BOOLEAN,
           f.args => f.type = "call" \/ (f.type = "function" /\ f.i = 0),
           NEW n \in Nat \ {0}, NEW form \in Marks, NEW reason,
           NEW w, w = OfCallFrame(f, n, form),
           NEW ps, ps = (IF f.args THEN <<<<ToolCall(f.i), n>>>> ELSE <<>>)
    PROVE  Makes(w, ps, reason) /\ (f.type \in Late => w = <<>>)
<1>1. form \in Forms
  BY DEF Marks, Forms
<1>2. f.type \in Late => f.type \notin {"call", "function", "null"}
  BY DEF Late
<1>3. CASE f.args
  <2>1. w = <<ToolCallDelta(f.i, <<n, form>>)>> /\ ps = <<<<ToolCall(f.i), n>>>>
    BY <1>3 DEF OfCallFrame
  <2>2. f.type \notin Late
    BY <1>2, <1>3
  <2>3. QED BY <1>1, <2>1, <2>2, PieceMakes
<1>4. CASE ~f.args
  <2>1. \/ w = <<ToolCallDelta(f.i, Nothing)>> /\ f.type \notin Late
        \/ w = <<ToolCallDelta(0, Nothing)>> /\ f.type \notin Late
        \/ w = <<>>
    BY <1>2, <1>4, Zenon DEF OfCallFrame
  <2>2. ps = <<>>
    BY <1>4
  <2>3. QED BY <2>1, <2>2, NoCallMakes, NoneMakes
<1>5. QED BY <1>3, <1>4

LEMMA QuietJoined ==
    ASSUME NEW F, NEW T, NEW u \in Seq(T), NEW v \in Seq(T), NEW w, IsJoin(w, u, v),
           Quiet(F, u), Quiet(F, v)
    PROVE  Quiet(F, w)
<1>1. PICK n \in Nat, m \in Nat : n = Len(u) /\ m = Len(v)
  OBVIOUS
<1>2. /\ Len(w) = n + m
      /\ \A i \in 1..n : w[i] = u[i]
      /\ \A i \in 1..m : w[n + i] = v[i]
  BY <1>1, ConcatProperties DEF IsJoin
<1>3. \A i \in 1..(n + m) : i \in 1..n \/ (i - n \in 1..m /\ i = n + (i - n))
  OBVIOUS
<1>4. \A i \in 1..(n + m) : (i \in 1..n /\ w[i] = u[i]) \/ (i - n \in 1..m /\ w[i] = v[i - n])
  BY <1>2, <1>3
<1>5. \A i \in 1..n : F[u[i]] = <<>>
  BY <1>1 DEF Quiet
<1>6. \A i \in 1..m : F[v[i]] = <<>>
  BY <1>1 DEF Quiet
<1>7. \A i \in 1..(n + m) : F[w[i]] = <<>>
  BY <1>4, <1>5, <1>6, Zenon
<1>8. QED BY <1>2, <1>7 DEF Quiet

\* The end of a chunk, or its usage.
LEMMA EndMakes ==
    ASSUME NEW r \in DeltaReasons \ {"none"}, NEW reason, reason # "none"
    PROVE  Makes(<<Finish(r)>>, <<>>, reason)
<1>1. PICK d : d = Finish(r)
  OBVIOUS
<1>2. d \in Delta /\ d.k = "finish" /\ d.r = r
  <2>1. d \in Delta
    BY <1>1, DeltaTypes
  <2>2. QED BY <1>1, <2>1 DEF Finish, ProviderEvent
<1>3. r # "none"
  OBVIOUS
<1>4. QED BY <1>1, <1>2, <1>3, MuteMakes

LEMMA UsageMakes ==
    ASSUME NEW reason
    PROVE  /\ Makes(<<Usage>>, <<>>, reason) /\ Quiet(OfDelta, <<Usage>>)
           /\ Makes(<<Rejected>>, <<>>, reason) /\ Quiet(OfDelta, <<Rejected>>)
           /\ Quiet(OfDelta, <<>>)
<1>1. PICK d, e : d = Usage /\ e = Rejected
  OBVIOUS
<1>2. d \in Delta /\ d.k = "usage" /\ e \in Delta /\ e.k = "error"
  <2>1. d \in Delta /\ e \in Delta
    BY <1>1, DeltaTypes
  <2>2. QED BY <1>1, <2>1 DEF Usage, Rejected, ProviderEvent
<1>3. /\ Makes(<<d>>, <<>>, reason) /\ OfDelta[d] = <<>>
      /\ Makes(<<e>>, <<>>, reason) /\ OfDelta[e] = <<>>
  BY <1>2, MuteMakes
<1>4. Quiet(OfDelta, <<d>>) /\ Quiet(OfDelta, <<e>>) /\ Quiet(OfDelta, <<>>)
  BY <1>3 DEF Quiet
<1>5. QED BY <1>1, <1>3, <1>4

LEMMA JoinNone ==
    ASSUME NEW S, NEW s \in Seq(S)
    PROVE  IsJoin(s, <<>>, s) /\ IsJoin(s, s, <<>>)
BY DEF IsJoin

LEMMA MakesMore ==
    ASSUME NEW u, NEW v, NEW w, NEW ps, NEW qs, NEW rs, NEW reason,
           Makes(u, ps, "none"), Makes(v, qs, reason), IsJoin(w, u, v), IsJoin(rs, ps, qs)
    PROVE  Makes(w, rs, reason)
<1>1. PICK before : before = "none"
  OBVIOUS
<1>2. Makes(u, ps, before) /\ ~(before # "none")
  BY <1>1
<1>3. QED BY <1>2, MakesJoined

LEMMA OpenAiMakes ==
    ASSUME NEW f \in Frames, upstream.kind = "openai", NEW n \in Nat \ {0}, NEW form \in Marks,
           NEW reason, f.finish # "none" => reason # "none"
    PROVE  /\ Makes(OpenAiEvents(f, n, form), Pieces(f, n), reason)
           /\ f.type \in Late => Quiet(OfDelta, OpenAiEvents(f, n, form))
<1>1. /\ f.i \in Nat /\ f.text \in {"none", "word", "spaced", "space"} /\ f.args \in BOOLEAN
      /\ f.text # "none" \/ f.finish # "none" => f.type \notin Late
      /\ f.args => f.type = "call" \/ (f.type = "function" /\ f.i = 0)
  BY FrameFacts
<1>2. PICK ps, qs :
         /\ ps = (IF f.text \in {"word", "spaced"} THEN <<<<Text, n>>>> ELSE <<>>)
         /\ qs = (IF f.args THEN <<<<ToolCall(f.i), n>>>> ELSE <<>>)
  OBVIOUS
<1>3. IsJoin(Pieces(f, n), ps, qs)
  BY <1>2, Zenon DEF IsJoin, Pieces
<1>4. CASE f.type = "error"
  <2>1. OpenAiEvents(f, n, form) = <<Rejected>>
    BY <1>4, Zenon DEF OpenAiEvents
  <2>2. ps = <<>> /\ qs = <<>>
    <3>1. "error" \in Late /\ "error" \notin {"call", "function"}
      BY DEF Late
    <3>2. f.text = "none" /\ ~f.args
      BY <1>1, <1>4, <3>1
    <3>3. QED BY <1>2, <3>2
  <2>3. Pieces(f, n) = <<>>
    BY <1>3, <2>2 DEF IsJoin
  <2>4. QED BY <2>1, <2>3, UsageMakes
<1>5. CASE f.type # "error"
  <2>1. PICK a, b, c, d :
         /\ a = (IF f.usage THEN <<Usage>> ELSE <<>>)
         /\ b = (IF f.text # "none" THEN <<OpenAiText(f, n, form)>> ELSE <<>>)
         /\ c = OfCallFrame(f, n, form)
         /\ d = (IF f.finish # "none" THEN <<Finish(OpenAiReason(f.finish))>> ELSE <<>>)
    OBVIOUS
  <2>2. PICK ab, abc, w : IsJoin(ab, a, b) /\ IsJoin(abc, ab, c) /\ IsJoin(w, abc, d)
    BY DEF IsJoin
  <2>3. OpenAiEvents(f, n, form) = w
    BY <1>5, <2>1, <2>2, Zenon DEF OpenAiEvents, OfCallFrame, IsJoin
  <2>4. \A r : Makes(a, <<>>, r) /\ Quiet(OfDelta, a)
    <3>1. CASE f.usage
      BY <2>1, <3>1, UsageMakes
    <3>2. CASE ~f.usage
      BY <2>1, <3>2, UsageMakes, NoneMakes
    <3>3. QED BY <3>1, <3>2
  <2>5. \A r : Makes(b, ps, r) /\ (f.text = "none" => b = <<>>)
    BY <1>1, <1>2, <2>1, TextMakes
  <2>6. \A r : Makes(c, qs, r) /\ (f.type \in Late => c = <<>>)
    <3>1. f.i \in Nat /\ f.args \in BOOLEAN /\ (f.args => f.type = "call" \/ (f.type = "function" /\ f.i = 0))
      BY <1>1
    <3>2. ASSUME NEW r PROVE Makes(c, qs, r) /\ (f.type \in Late => c = <<>>)
      BY <1>2, <2>1, <3>1, CallMakes
    <3>3. QED BY <3>2
  <2>7. Makes(d, <<>>, reason) /\ (f.finish = "none" => d = <<>>)
    <3>1. CASE f.finish # "none"
      <4>1. OpenAiReason(f.finish) \in DeltaReasons \ {"none"}
        BY DEF OpenAiReason, DeltaReasons
      <4>2. d = <<Finish(OpenAiReason(f.finish))>>
        BY <2>1, <3>1
      <4>3. QED BY <3>1, <4>1, <4>2, EndMakes
    <3>2. CASE f.finish = "none"
      BY <2>1, <3>2, NoneMakes
    <3>3. QED BY <3>1, <3>2
  <2>8. PICK S : S = BlockName \X Nat
    OBVIOUS
  <2>9. ps \in Seq(S) /\ qs \in Seq(S)
    BY <2>5, <2>6, <2>8 DEF Makes
  <2>10. Makes(ab, ps, "none")
    BY <2>2, <2>4, <2>5, <2>9, JoinNone, MakesMore, Zenon
  <2>11. PICK rs : IsJoin(rs, ps, qs)
    BY <1>3
  <2>12. rs \in Seq(S) /\ Pieces(f, n) = rs
    BY <1>3, <2>9, <2>11 DEF IsJoin
  <2>13. Makes(abc, rs, "none")
    BY <2>2, <2>6, <2>10, <2>11, MakesMore, Zenon
  <2>14. Makes(w, rs, reason)
    BY <2>2, <2>7, <2>12, <2>13, JoinNone, MakesMore, Zenon
  <2>15. ASSUME f.type \in Late PROVE Quiet(OfDelta, w)
    <3>1. b = <<>> /\ c = <<>> /\ d = <<>>
      BY <1>1, <2>5, <2>6, <2>7, <2>15
    <3>2. Quiet(OfDelta, b) /\ Quiet(OfDelta, c) /\ Quiet(OfDelta, d)
      BY <3>1, UsageMakes
    <3>3. /\ a \in Seq(Delta) /\ b \in Seq(Delta) /\ c \in Seq(Delta) /\ d \in Seq(Delta)
          /\ ab \in Seq(Delta) /\ abc \in Seq(Delta)
      BY <2>4, <2>5, <2>6, <2>7, <2>10, <2>13 DEF Makes
    <3>4. Quiet(OfDelta, ab)
      BY <2>2, <2>4, <3>2, <3>3, QuietJoined
    <3>5. Quiet(OfDelta, abc)
      BY <2>2, <3>2, <3>3, <3>4, QuietJoined
    <3>6. QED BY <2>2, <3>2, <3>3, <3>5, QuietJoined
  <2>16. QED BY <2>3, <2>12, <2>14, <2>15
<1>6. QED BY <1>4, <1>5

LEMMA AnthropicMakes ==
    ASSUME NEW f \in Frames, upstream.kind # "openai", NEW n \in Nat \ {0}, NEW form \in Marks,
           NEW reason, f.type = "message_delta" => reason # "none"
    PROVE  /\ Makes(AnthropicEvents(f, n, form), Pieces(f, n), reason)
           /\ f.type \in Late => Quiet(OfDelta, AnthropicEvents(f, n, form))
<1>1. /\ f.i \in Nat /\ f.args \in BOOLEAN /\ f.text \in {"none", "word"}
      /\ f.text # "none" \/ f.args => f.type = "delta"
      /\ f.type = "delta" => (f.text = "none" <=> f.args)
  BY FrameFacts
<1>2. PICK ps, qs :
         /\ ps = (IF f.text \in {"word", "spaced"} THEN <<<<Text, n>>>> ELSE <<>>)
         /\ qs = (IF f.args THEN <<<<ToolCall(f.i), n>>>> ELSE <<>>)
  OBVIOUS
<1>3. IsJoin(Pieces(f, n), ps, qs)
  BY <1>2, Zenon DEF IsJoin, Pieces
<1>4. form \in Forms
  BY DEF Marks, Forms
<1>5. PICK w : w = AnthropicEvents(f, n, form)
  OBVIOUS
<1>6. CASE f.type = "delta"
  <2>1. f.type \notin Late
    BY <1>6 DEF Late
  <2>2. w = BlockDelta(f, n, form)
    BY <1>5, <1>6 DEF AnthropicEvents
  <2>3. CASE f.text # "none"
    <3>1. PICK x, p : x = <<Text, n>> /\ p = <<x>>
      OBVIOUS
    <3>2. w = <<TextDelta(<<n, form>>)>> /\ ps = p /\ qs = <<>>
      BY <1>1, <1>2, <1>6, <2>2, <2>3, <3>1 DEF BlockDelta
    <3>3. IsJoin(p, p, <<>>)
      BY <3>1, JoinNone DEF IsJoin
    <3>4. Pieces(f, n) = p
      BY <1>3, <3>2, <3>3, Zenon DEF IsJoin
    <3>5. QED BY <1>4, <1>5, <2>1, <3>1, <3>2, <3>4, PieceMakes
  <2>4. CASE f.text = "none"
    <3>1. PICK x, p : x = <<ToolCall(f.i), n>> /\ p = <<x>>
      OBVIOUS
    <3>2. w = <<ToolCallDelta(f.i, <<n, form>>)>> /\ qs = p /\ ps = <<>>
      BY <1>1, <1>2, <1>6, <2>2, <2>4, <3>1 DEF BlockDelta
    <3>3. IsJoin(p, <<>>, p)
      BY <3>1, JoinNone DEF IsJoin
    <3>4. Pieces(f, n) = p
      BY <1>3, <3>2, <3>3, Zenon DEF IsJoin
    <3>5. QED BY <1>1, <1>4, <1>5, <2>1, <3>1, <3>2, <3>4, PieceMakes
  <2>5. QED BY <2>3, <2>4
<1>7. CASE f.type # "delta"
  <2>1. ps = <<>> /\ qs = <<>>
    BY <1>1, <1>2, <1>7
  <2>2. Pieces(f, n) = <<>>
    BY <1>3, <2>1 DEF IsJoin
  <2>3. CASE f.type = "error"
    <3>1. w = <<Rejected>>
      BY <1>5, <2>3 DEF AnthropicEvents
    <3>2. QED BY <1>5, <2>2, <3>1, UsageMakes
  <2>4. CASE f.type = "tool_use"
    <3>1. f.type \notin Late
      BY <2>4 DEF Late
    <3>2. w = <<ToolCallDelta(f.i, Nothing)>>
      BY <1>5, <2>4 DEF AnthropicEvents, BlockStart
    <3>3. QED BY <1>1, <1>5, <2>2, <3>1, <3>2, NoCallMakes
  <2>5. CASE f.type = "message_delta"
    <3>1. f.type \notin Late
      BY <2>5 DEF Late
    <3>2. PICK a, b : a = (IF f.usage THEN <<Usage>> ELSE <<>>) /\ b = <<Finish(AnthropicReason(f.finish))>>
      OBVIOUS
    <3>3. IsJoin(w, a, b)
      BY <1>5, <2>5, <3>2, Zenon DEF AnthropicEvents, MessageDelta, IsJoin
    <3>4. Makes(a, <<>>, "none")
      BY <3>2, UsageMakes, NoneMakes
    <3>5. AnthropicReason(f.finish) \in DeltaReasons \ {"none"}
      BY DEF AnthropicReason, DeltaReasons
    <3>6. Makes(b, <<>>, reason)
      BY <2>5, <3>2, <3>5, EndMakes
    <3>7. IsJoin(<<>>, <<>>, <<>>)
      BY DEF IsJoin
    <3>8. Makes(w, <<>>, reason)
      BY <3>3, <3>4, <3>6, <3>7, MakesMore, Zenon
    <3>9. QED BY <1>5, <2>2, <3>1, <3>8
  <2>6. CASE f.type \notin {"error", "tool_use", "message_delta"}
    <3>1. w = <<>>
      BY <1>5, <1>7, <2>6 DEF AnthropicEvents
    <3>2. QED BY <1>5, <2>2, <3>1, NoneMakes, UsageMakes
  <2>7. QED BY <2>3, <2>4, <2>5, <2>6
<1>8. QED BY <1>6, <1>7

-----------------------------------------------------------------------------
(* What a stream has told, and what it is still to tell.                   *)

\* What was sent and waits to be sent, and what is on its way, is what the upstream
\* sent; every item that was opened is remembered.
RunningWith(all, sent, s, way, ps) ==
    /\ all \in Seq(ClientEvent) /\ IsJoin(all, sent, s.pending)
    /\ IsJoin(Flat(ps, OfPromise), Flat(all, OfPieces), Flat(way, OfDelta))
    /\ OpensIn(all, Items(s))
Running(sent, s, way, ps) == Sound(s) /\ \E all : RunningWith(all, sent, s, way, ps)

\* The events tell all that the upstream sent and leave no item open.
TellsAll(all, ps, tools) ==
    /\ Flat(all, OfPieces) = Flat(ps, OfPromise)
    /\ HasItems => \A j \in 1..Len(all) :
                      all[j].k \in Opening => LeftOpen(all[j].b, tools) \/ IsClosed(all, all[j].b)

\* An ended stream told all of it, or that it failed.
ToldWith(all, sent, s, ps) ==
    /\ all \in Seq(ClientEvent) /\ IsJoin(all, sent, s.pending)
    /\ Has(all, "error") \/ TellsAll(all, ps, s.tools)
Told(sent, s, ps) == \E all : ToldWith(all, sent, s, ps)

LEMMA JoinBack ==
    ASSUME NEW T, NEW a \in Seq(T), NEW b \in Seq(T), NEW c \in Seq(T), NEW bc, NEW abc, NEW ab,
           IsJoin(bc, b, c), IsJoin(abc, a, bc), IsJoin(ab, a, b)
    PROVE  IsJoin(abc, ab, c)
<1>1. (a \o b) \o c = a \o (b \o c)
  BY ConcatAssociative
<1>2. QED BY <1>1, Zenon DEF IsJoin

\* What is sent and said is what was sent, what waited and what is said now.
LEMMA LongerIs ==
    ASSUME NEW sent \in Seq(ClientEvent), NEW s \in Translator, NEW all, IsJoin(all, sent, s.pending),
           NEW t, NEW es \in Seq(ClientEvent), IsJoin(t.pending, s.pending, es)
    PROVE  \E longer \in Seq(ClientEvent) : IsJoin(longer, all, es) /\ IsJoin(longer, sent, t.pending)
<1>1. s.pending \in Seq(ClientEvent)
  BY FieldTypes
<1>2. PICK longer : IsJoin(longer, all, es)
  BY DEF IsJoin
<1>3. PICK bc \in Seq(ClientEvent) : IsJoin(bc, s.pending, es) /\ IsJoin(longer, sent, bc)
  BY <1>1, <1>2, JoinTwice
<1>4. bc = t.pending
  BY <1>3, Zenon DEF IsJoin
<1>5. longer \in Seq(ClientEvent)
  BY <1>3, ConcatProperties DEF IsJoin
<1>6. QED BY <1>2, <1>3, <1>4, <1>5

\* An event is sent.
IsSent(more, t, sent, s) ==
    /\ s.pending # <<>> /\ more = Append(sent, Head(s.pending))
    /\ t = [s EXCEPT !.pending = Tail(s.pending)]

LEMMA EventMoves ==
    ASSUME NEW sent \in Seq(ClientEvent), NEW s \in Translator, NEW more, NEW t, IsSent(more, t, sent, s)
    PROVE  /\ t \in Translator /\ more \in Seq(ClientEvent) /\ t.finished = s.finished
           /\ \A way, ps : Running(sent, s, way, ps) => Running(more, t, way, ps)
           /\ \A ps : Told(sent, s, ps) => Told(more, t, ps)
<1>1. s.pending \in Seq(ClientEvent)
  BY FieldTypes
<1>2. PICK p, rest : p = s.pending /\ rest = Tail(p)
  OBVIOUS
<1>3. p \in Seq(ClientEvent) /\ p # <<>> /\ more = Append(sent, Head(p))
  BY <1>1, <1>2 DEF IsSent
<1>4. <<>> \in Seq(ClientEvent) /\ IsJoin(sent, <<>>, sent)
  BY JoinNone
<1>5. ASSUME NEW all, IsJoin(all, sent, p) PROVE IsJoin(all, more, rest)
  BY ONLY <1>2, <1>3, <1>4, <1>5, sent \in Seq(ClientEvent), Moved, Zenon
<1>6. more \in Seq(ClientEvent) /\ rest \in Seq(ClientEvent)
  <2>1. Head(p) \in ClientEvent /\ Tail(p) \in Seq(ClientEvent)
    BY <1>3, HeadTailProperties
  <2>2. QED BY <1>2, <1>3, <2>1, AppendProperties
<1>7. t = [s EXCEPT !.pending = rest]
  BY <1>2 DEF IsSent
<1>8. t \in Translator
  BY <1>6, <1>7, TranslatorFields
<1>9. /\ t.pending = rest /\ t.blocks = s.blocks /\ t.calls = s.calls
      /\ t.tools = s.tools /\ t.finished = s.finished
  BY ONLY <1>7, s \in Translator, OtherFields, Zenon
<1>10. ASSUME NEW way, NEW ps, Running(sent, s, way, ps) PROVE Running(more, t, way, ps)
  <2>1. PICK all : RunningWith(all, sent, s, way, ps)
    BY <1>10 DEF Running
  <2>2. Sound(t) /\ Items(t) = Items(s)
    BY <1>8, <1>9, <1>10, SoundSame DEF Running
  <2>3. IsJoin(all, more, t.pending)
    BY <1>2, <1>5, <1>9, <2>1 DEF RunningWith
  <2>4. RunningWith(all, more, t, way, ps)
    BY <2>1, <2>2, <2>3, Zenon DEF RunningWith
  <2>5. QED BY <2>2, <2>4, Zenon DEF Running
<1>11. ASSUME NEW ps, Told(sent, s, ps) PROVE Told(more, t, ps)
  <2>1. PICK all : ToldWith(all, sent, s, ps)
    BY <1>11 DEF Told
  <2>2. IsJoin(all, more, t.pending)
    BY <1>2, <1>5, <1>9, <2>1 DEF ToldWith
  <2>3. ToldWith(all, more, t, ps)
    BY <1>9, <2>1, <2>2, Zenon DEF ToldWith
  <2>4. QED BY <2>3, Zenon DEF Told
<1>12. QED BY <1>6, <1>8, <1>9, <1>10, <1>11

\* The translator takes a provider event and passes it on.
LEMMA DeltaMoves ==
    ASSUME NEW sent \in Seq(ClientEvent), NEW s, NEW way \in Seq(Delta), NEW ps \in Seq(BlockName \X Nat),
           Running(sent, s, way, ps), way # <<>>, NEW t, Passes(t, s, OfDelta[Head(way)])
    PROVE  Running(sent, t, Tail(way), ps)
<1>1. PICK e, rest : e = Head(way) /\ rest = Tail(way)
  OBVIOUS
<1>2. e \in Delta /\ rest \in Seq(Delta)
  BY <1>1, HeadTailProperties
<1>3. PICK all : RunningWith(all, sent, s, way, ps)
  BY DEF Running
<1>4. PICK es \in Seq(ClientEvent) :
         IsJoin(t.pending, s.pending, es) /\ Flat(es, OfPieces) = OfDelta[e] /\ OpensIn(es, Items(t))
  BY <1>1, Zenon DEF Passes, SaysPieces
<1>5. Sound(s) /\ Sound(t) /\ Items(s) \subseteq Items(t)
  BY DEF Passes, Running
<1>6. s \in Translator /\ t \in Translator
  BY <1>5 DEF Sound
<1>7. /\ all \in Seq(ClientEvent) /\ IsJoin(all, sent, s.pending) /\ OpensIn(all, Items(s))
      /\ IsJoin(Flat(ps, OfPromise), Flat(all, OfPieces), Flat(way, OfDelta))
  BY <1>3 DEF RunningWith
<1>8. PICK longer \in Seq(ClientEvent) : IsJoin(longer, all, es) /\ IsJoin(longer, sent, t.pending)
  BY <1>4, <1>6, <1>7, LongerIs
<1>9. OpensIn(longer, Items(t))
  BY <1>4, <1>5, <1>7, <1>8, OpensJoined
<1>10. PICK S : S = BlockName \X Nat
  OBVIOUS
<1>11. IsJoin(Flat(way, OfDelta), OfDelta[e], Flat(rest, OfDelta))
  BY <1>1, PromiseMap, FlatHead
<1>12. IsJoin(Flat(longer, OfPieces), Flat(all, OfPieces), OfDelta[e])
  <2>1. IsJoin(Flat(longer, OfPieces), Flat(all, OfPieces), Flat(es, OfPieces))
    BY <1>7, <1>8, PieceMap, FlatMapJoined
  <2>2. QED BY <1>4, <2>1
<1>13. Flat(all, OfPieces) \in Seq(S) /\ OfDelta[e] \in Seq(S) /\ Flat(rest, OfDelta) \in Seq(S)
  <2>1. OfDelta[e] \in Seq(S)
    BY <1>2, <1>10, PromiseMap
  <2>2. Flat(all, OfPieces) \in Seq(S)
    BY <1>7, <1>8, <1>10, PieceMap, FlatMapJoined
  <2>3. PICK two : IsJoin(two, rest, rest)
    BY DEF IsJoin
  <2>4. Flat(rest, OfDelta) \in Seq(S)
    BY <1>2, <1>10, <2>3, PromiseMap, FlatMapJoined
  <2>5. QED BY <2>1, <2>2, <2>4
<1>14. IsJoin(Flat(ps, OfPromise), Flat(longer, OfPieces), Flat(rest, OfDelta))
  BY <1>7, <1>11, <1>12, <1>13, JoinBack
<1>15. RunningWith(longer, sent, t, rest, ps)
  BY <1>8, <1>9, <1>14, Zenon DEF RunningWith
<1>16. QED BY <1>1, <1>5, <1>15, Zenon DEF Running

\* More comes from the upstream.
LEMMA MoreComes ==
    ASSUME NEW sent, NEW s, NEW way, NEW ps, Running(sent, s, way, ps),
           way \in Seq(Delta), ps \in Seq(BlockName \X Nat),
           NEW v, NEW qs, NEW reason, Makes(v, qs, reason),
           NEW longer, IsJoin(longer, way, v), NEW more, IsJoin(more, ps, qs)
    PROVE  Running(sent, s, longer, more)
<1>1. PICK all : RunningWith(all, sent, s, way, ps)
  BY DEF Running
<1>2. /\ v \in Seq(Delta) /\ qs \in Seq(BlockName \X Nat) /\ Flat(v, OfDelta) = Flat(qs, OfPromise)
  BY DEF Makes
<1>3. IsJoin(Flat(longer, OfDelta), Flat(way, OfDelta), Flat(v, OfDelta))
      /\ Flat(way, OfDelta) \in Seq(BlockName \X Nat) /\ Flat(v, OfDelta) \in Seq(BlockName \X Nat)
  BY <1>2, PromiseMap, FlatMapJoined
<1>4. IsJoin(Flat(more, OfPromise), Flat(ps, OfPromise), Flat(v, OfDelta))
  <2>1. IsJoin(Flat(more, OfPromise), Flat(ps, OfPromise), Flat(qs, OfPromise))
    BY <1>2, PromiseMap, FlatMapJoined
  <2>2. QED BY <1>2, <2>1
<1>5. IsJoin(Flat(ps, OfPromise), Flat(all, OfPieces), Flat(way, OfDelta)) /\ all \in Seq(ClientEvent)
  BY <1>1 DEF RunningWith
<1>6. Flat(all, OfPieces) \in Seq(BlockName \X Nat)
  <2>1. PICK two : IsJoin(two, all, all)
    BY DEF IsJoin
  <2>2. QED BY <1>5, <2>1, PieceMap, FlatMapJoined
<1>7. IsJoin(Flat(more, OfPromise), Flat(all, OfPieces), Flat(longer, OfDelta))
  <2>1. PICK bc \in Seq(BlockName \X Nat) :
           /\ IsJoin(bc, Flat(way, OfDelta), Flat(v, OfDelta))
           /\ IsJoin(Flat(more, OfPromise), Flat(all, OfPieces), bc)
    BY <1>3, <1>4, <1>5, <1>6, JoinTwice
  <2>2. bc = Flat(longer, OfDelta)
    BY <1>3, <2>1, Zenon DEF IsJoin
  <2>3. QED BY <2>1, <2>2
<1>8. RunningWith(all, sent, s, longer, more)
  BY <1>1, <1>7, Zenon DEF RunningWith
<1>9. QED BY <1>8, Zenon DEF Running

\* The stream ends when nothing is on its way.
LEMMA EndIsTold ==
    ASSUME NEW sent \in Seq(ClientEvent), NEW s, NEW way, NEW ps, Running(sent, s, way, ps),
           Flat(way, OfDelta) = <<>>, NEW t, Ends(t, s)
    PROVE  t \in Translator /\ t.finished = TRUE /\ Told(sent, t, ps)
<1>1. PICK all : RunningWith(all, sent, s, way, ps)
  BY DEF Running
<1>2. PICK es : EndsWith(t, s, es)
  BY DEF Ends
<1>3. /\ t \in Translator /\ t.finished = TRUE /\ t.tools = s.tools
      /\ es \in Seq(ClientEvent) /\ IsJoin(t.pending, s.pending, es) /\ Flat(es, OfPieces) = <<>>
  BY <1>2 DEF EndsWith
<1>4. s \in Translator
  BY DEF Running, Sound
<1>5. /\ all \in Seq(ClientEvent) /\ IsJoin(all, sent, s.pending) /\ OpensIn(all, Items(s))
      /\ IsJoin(Flat(ps, OfPromise), Flat(all, OfPieces), <<>>)
  BY <1>1 DEF RunningWith
<1>6. PICK longer \in Seq(ClientEvent) : IsJoin(longer, all, es) /\ IsJoin(longer, sent, t.pending)
  BY <1>3, <1>4, <1>5, LongerIs
<1>7. Flat(longer, OfPieces) = Flat(ps, OfPromise)
  <2>1. IsJoin(Flat(longer, OfPieces), Flat(all, OfPieces), Flat(es, OfPieces))
    BY <1>3, <1>5, <1>6, PieceMap, FlatMapJoined
  <2>2. IsJoin(Flat(longer, OfPieces), Flat(all, OfPieces), <<>>)
    BY <1>3, <2>1
  <2>3. QED BY <1>5, <2>2, Zenon DEF IsJoin
<1>8. ASSUME HasItems, NEW j \in 1..Len(longer), longer[j].k \in Opening
      PROVE  LeftOpen(longer[j].b, t.tools) \/ IsClosed(longer, longer[j].b)
  <2>1. PICK n \in Nat, m \in Nat : n = Len(all) /\ m = Len(es)
    BY <1>3, <1>5
  <2>2. /\ Len(longer) = n + m
        /\ \A i \in 1..n : longer[i] = all[i]
        /\ \A i \in 1..m : longer[n + i] = es[i]
    <3>1. all \in Seq(ClientEvent) /\ es \in Seq(ClientEvent) /\ IsJoin(longer, all, es)
      BY <1>3, <1>5, <1>6
    <3>2. QED BY ONLY <2>1, <3>1, n \in Nat, m \in Nat, ConcatProperties DEF IsJoin
  <2>3. \A i \in 1..(n + m) : i \in 1..n \/ (i - n \in 1..m /\ i = n + (i - n))
    OBVIOUS
  <2>4. \A b : IsClosed(es, b) => IsClosed(longer, b)
    BY <1>3, <1>5, <1>6, JoinClosed
  <2>5. /\ \A b \in Items(s) : LeftOpen(b, s.tools) \/ IsClosed(es, b)
        /\ \A i \in 1..m : es[i].k \in Opening => LeftOpen(es[i].b, s.tools) \/ IsClosed(es, es[i].b)
    BY <1>2, <1>8, <2>1 DEF EndsWith
  <2>6. CASE j \in 1..n
    <3>1. longer[j] = all[j]
      BY <2>2, <2>6
    <3>2. longer[j].b \in Items(s)
      BY <1>5, <1>8, <2>1, <2>6, <3>1 DEF OpensIn
    <3>3. QED BY <1>3, <2>4, <2>5, <3>2
  <2>7. CASE j - n \in 1..m /\ j = n + (j - n)
    <3>1. longer[j] = es[j - n]
      BY <2>2, <2>7
    <3>2. LeftOpen(longer[j].b, s.tools) \/ IsClosed(es, longer[j].b)
      BY <1>8, <2>5, <2>7, <3>1
    <3>3. QED BY <1>3, <2>4, <3>2
  <2>8. QED BY <2>2, <2>3, <2>6, <2>7
<1>9. TellsAll(longer, ps, t.tools)
  BY <1>7, <1>8, Zenon DEF TellsAll
<1>10. ToldWith(longer, sent, t, ps)
  BY <1>6, <1>9, Zenon DEF ToldWith
<1>11. QED BY <1>3, <1>10, Zenon DEF Told

\* Or it fails and says so.
LEMMA FailIsTold ==
    ASSUME NEW sent \in Seq(ClientEvent), NEW s \in Translator, NEW ps, NEW t, Fails(t, s)
    PROVE  t \in Translator /\ t.finished = TRUE /\ Told(sent, t, ps)
<1>1. PICK es \in Seq(ClientEvent) : IsJoin(t.pending, s.pending, es) /\ Has(es, "error")
  BY Zenon DEF Fails
<1>2. PICK all : IsJoin(all, sent, s.pending)
  BY DEF IsJoin
<1>3. s.pending \in Seq(ClientEvent)
  BY FieldTypes
<1>4. all \in Seq(ClientEvent)
  BY <1>2, <1>3, ConcatProperties DEF IsJoin
<1>5. PICK longer \in Seq(ClientEvent) : IsJoin(longer, all, es) /\ IsJoin(longer, sent, t.pending)
  BY <1>1, <1>2, LongerIs
<1>6. Has(longer, "error")
  BY <1>1, <1>4, <1>5, JoinHas
<1>7. ToldWith(longer, sent, t, ps)
  BY <1>5, <1>6, Zenon DEF ToldWith
<1>8. t \in Translator /\ t.finished = TRUE
  BY DEF Fails
<1>9. QED BY <1>7, <1>8, Zenon DEF Told

-----------------------------------------------------------------------------
(* The invariant of a live stream.                                         *)

ParseAll == [x \in Framed(Frames) |-> Parse(x.f, x.n, x.form)]

\* A frame that came in part after the end of the answer is one of the last.
LastPart(part, reason) == part # NoPart /\ reason # "none" => part.f.type \in Late

OnItsWay(way, rdy, whole, up, sent, s) ==
    /\ IsJoin(way, rdy, Flat(whole, ParseAll)) /\ Orderly(way, up.reason)
    /\ Running(sent, s, way, up.pieces)

\* What the upstream sent was told, waits to be sent or is on its way, until the
\* stream is finished; then it was told, or the stream failed and says so.
LossOf(up, buf, rdy, s, sent, state) ==
    /\ s \in Translator /\ sent \in Seq(ClientEvent) /\ up.pieces \in Seq(BlockName \X Nat)
    /\ up.state = "open" => up.kind \in {"openai", "anthropic"}
    /\ state = "ended" => s.pending = <<>> /\ s.finished = TRUE
    /\ s.finished = FALSE => /\ LastPart(buf.part, up.reason)
                             /\ \E way : OnItsWay(way, rdy, buf.whole, up, sent, s)
    /\ s.finished = TRUE => Told(sent, s, up.pieces)
LossInv == protocol \in Live /\ LossOf(upstream, buffer, ready, stream, out, client)

\* Only the protocol and the kind of the upstream tell how events are told.
LEMMA SameTelling ==
    ASSUME protocol' = protocol, upstream'.kind = upstream.kind
    PROVE  /\ OfDelta' = OfDelta /\ OfPromise' = OfPromise /\ ParseAll' = ParseAll
           /\ HasItems' = HasItems
<1>1. \A x : Shown(x)' = Shown(x)
  BY DEF Shown
<1>2. OfDelta' = OfDelta
  BY <1>1 DEF OfDelta
<1>3. OfPromise' = OfPromise
  BY <1>1 DEF OfPromise
<1>4. Frames' = Frames
  BY DEF Frames
<1>5. \A f, n, form : Parse(f, n, form)' = Parse(f, n, form)
  BY DEF Parse
<1>6. ParseAll' = ParseAll
  BY <1>4, <1>5 DEF ParseAll
<1>7. HasItems' = HasItems
  BY DEF HasItems
<1>8. QED BY <1>2, <1>3, <1>6, <1>7

LEMMA SameLoss ==
    ASSUME protocol' = protocol, upstream'.kind = upstream.kind, protocol \in Live,
           LossOf(upstream', buffer', ready', stream', out', client')
    PROVE  LossInv'
<1>1. PICK od, op, pa, hi : od = OfDelta /\ op = OfPromise /\ pa = ParseAll /\ hi = HasItems
  OBVIOUS
<1>2. OfDelta' = od /\ OfPromise' = op /\ ParseAll' = pa /\ HasItems' = hi
  BY <1>1, SameTelling
<1>3. \A way : Orderly(way, upstream.reason)' <=> Orderly(way, upstream'.reason)
  BY <1>1, <1>2 DEF Orderly
<1>4. Sound(stream)' <=> Sound(stream')
  BY DEF Sound
<1>5. \A way : Running(out, stream, way, upstream.pieces)' <=> Running(out', stream', way, upstream'.pieces)
  BY <1>1, <1>2, <1>4 DEF Running, RunningWith
<1>6. \A way : OnItsWay(way, ready, buffer.whole, upstream, out, stream)'
               <=> OnItsWay(way, ready', buffer'.whole, upstream', out', stream')
  BY <1>1, <1>2, <1>3, <1>5 DEF OnItsWay
<1>7. \A b, t : LeftOpen(b, t)' <=> LeftOpen(b, t)
  BY DEF LeftOpen
<1>8. Told(out, stream, upstream.pieces)' <=> Told(out', stream', upstream'.pieces)
  BY <1>1, <1>2, <1>7 DEF Told, ToldWith, TellsAll
<1>9. LossOf(upstream, buffer, ready, stream, out, client)'
  BY <1>6, <1>8 DEF LossOf
<1>10. QED BY <1>9 DEF LossInv

\* One provider event for each piece.
Each(w, ps) ==
    /\ Len(w) = Len(ps) /\ w \in Seq(Delta) /\ ps \in Seq(BlockName \X Nat)
    /\ \A j \in 1..Len(w) : w[j].k # "finish" /\ OfDelta[w[j]] = OfPromise[ps[j]]

LEMMA EachMakes ==
    ASSUME NEW w, NEW ps, Each(w, ps), NEW reason
    PROVE  Makes(w, ps, reason)
<1>1. [j \in 1..Len(w) |-> OfDelta[w[j]]] = [j \in 1..Len(ps) |-> OfPromise[ps[j]]]
  BY DEF Each
<1>2. Flat(w, OfDelta) = Flat(ps, OfPromise)
  BY <1>1, Zenon DEF Flat
<1>3. Orderly(w, reason)
  BY DEF Each, Orderly
<1>4. QED BY <1>2, <1>3, Zenon DEF Makes, Each

\* An answer that comes whole tells its texts, or its calls.
LEMMA WholeMakes ==
    ASSUME NEW texts \in Nat, NEW calls \in Nat, NEW usage, NEW up, up = Whole(texts, calls, usage)
    PROVE  Makes(EventsOfWhole(texts, calls, usage), up.pieces, up.reason) /\ up.state = "closed"
<1>1. PICK a, b, c, r, ps :
         /\ a = (IF calls = 0 THEN [n \in 1..texts |-> TextDelta(<<n, "exact">>)]
                 ELSE [n \in 1..calls |-> ToolCallDelta(n - 1, <<n, "exact">>)])
         /\ b = (IF usage THEN <<Usage>> ELSE <<>>)
         /\ c = <<Finish(r)>> /\ r = (IF calls = 0 THEN "stop" ELSE "tool_calls")
         /\ ps = (IF calls = 0 THEN [n \in 1..texts |-> <<Text, n>>]
                  ELSE [n \in 1..calls |-> <<ToolCall(n - 1), n>>])
  OBVIOUS
<1>2. up.pieces = ps /\ up.reason = r /\ up.state = "closed"
  BY <1>1 DEF Whole
<1>3. r # "none" /\ r \in DeltaReasons \ {"none"}
  BY <1>1 DEF DeltaReasons
<1>4. "exact" \in Forms
  BY DEF Forms
<1>5. PICK k : k = IF calls = 0 THEN texts ELSE calls
  OBVIOUS
<1>6. ASSUME NEW n \in 1..k
      PROVE  /\ a[n] \in Delta /\ ps[n] \in BlockName \X Nat
             /\ a[n].k # "finish" /\ OfDelta[a[n]] = OfPromise[ps[n]]
  <2>1. n \in Nat \ {0} /\ n - 1 \in Nat
    BY <1>5, <1>6
  <2>2. PICK p, d, x : /\ p = <<n, "exact">>
                       /\ d = (IF calls = 0 THEN TextDelta(p) ELSE ToolCallDelta(n - 1, p))
                       /\ x = (IF calls = 0 THEN <<Text, n>> ELSE <<ToolCall(n - 1), n>>)
    OBVIOUS
  <2>3. a[n] = d
    BY <1>1, <1>5, <2>2
  <2>4. ps[n] = x
    BY <1>1, <1>5, <2>2
  <2>5. p \in GoodPayload /\ p[1] = n
    BY <1>4, <2>1, <2>2, DeltaTypes
  <2>6. d \in Delta
    BY <2>1, <2>2, <2>5, DeltaTypes, Zenon
  <2>7. d.p = p /\ d.k = (IF calls = 0 THEN "text" ELSE "call") /\ (calls # 0 => d.i = n - 1)
    BY <2>2 DEF TextDelta, ToolCallDelta, ProviderEvent
  <2>8. x \in BlockName \X Nat
    <3>1. Text \in BlockName /\ ToolCall(n - 1) \in BlockName
      BY <2>1, NamesAre
    <3>2. QED BY <2>1, <2>2, <3>1
  <2>9. OfPromise[x] = Shown(x)
    BY <2>8, Zenon DEF OfPromise
  <2>10. OfDelta[d] = Shown(x)
    BY <2>1, <2>2, <2>5, <2>6, <2>7 DEF OfDelta
  <2>11. d.k # "finish"
    BY <2>7
  <2>12. QED BY <2>3, <2>4, <2>6, <2>8, <2>9, <2>10, <2>11, Zenon
<1>7. Each(a, ps)
  <2>1. k \in Nat
    BY <1>5
  <2>2. a = [n \in 1..k |-> a[n]]
    BY <1>1, <1>5
  <2>3. ps = [n \in 1..k |-> ps[n]]
    BY <1>1, <1>5
  <2>4. PICK D, S : D = Delta /\ S = BlockName \X Nat
    OBVIOUS
  <2>5. a \in Seq(D) /\ Len(a) = k
    BY <1>6, <2>1, <2>2, <2>4, IsASeq
  <2>6. ps \in Seq(S) /\ Len(ps) = k
    BY <1>6, <2>1, <2>3, <2>4, IsASeq
  <2>7. QED BY <1>6, <2>4, <2>5, <2>6, Zenon DEF Each
<1>8. Makes(a, ps, "none")
  BY <1>7, EachMakes
<1>9. Makes(b, <<>>, "none")
  BY <1>1, UsageMakes, NoneMakes
<1>10. Makes(c, <<>>, r)
  BY <1>1, <1>3, EndMakes
<1>11. PICK ab, w : IsJoin(ab, a, b) /\ IsJoin(w, ab, c)
  BY DEF IsJoin
<1>12. ps \in Seq(BlockName \X Nat)
  BY <1>8 DEF Makes
<1>13. IsJoin(ps, ps, <<>>)
  BY <1>12, JoinNone
<1>14. Makes(ab, ps, "none")
  BY <1>8, <1>9, <1>11, <1>13, MakesMore, Zenon
<1>15. Makes(w, ps, r)
  BY <1>10, <1>11, <1>13, <1>14, MakesMore, Zenon
<1>16. EventsOfWhole(texts, calls, usage) = w
  BY <1>1, <1>11, Zenon DEF EventsOfWhole, IsJoin
<1>17. QED BY <1>2, <1>15, <1>16

\* A new stream has told nothing.
LEMMA BeginSound ==
    ASSUME protocol \in Live, NEW s, s = Begin(protocol)
    PROVE  Sound(s) /\ Flat(s.pending, OfPieces) = <<>> /\ OpensIn(s.pending, Items(s))
<1>1. PICK e, p : e = <<>> /\ s = Fresh(p) /\ (p = e \/ p = <<Plain("role")>> \/ p = <<Plain("start")>>)
  BY DEF Begin
<1>2. e \in Seq(ClientEvent) /\ e \in Seq(Payload) /\ DOMAIN e = {}
  BY <1>1
<1>3. e \in CallTables /\ IsFiniteSet(DOMAIN e)
  <2>1. e \in [{} -> Seq(Payload)]
    BY <1>1
  <2>2. QED BY <1>2, <2>1, FS_EmptySet DEF CallTables
<1>4. /\ p \in Seq(ClientEvent) /\ \A j \in 1..Len(p) : p[j].k \notin Opening /\ OfPieces[p[j]] = <<>>
  <2>1. "role" \in Kinds /\ "start" \in Kinds /\ "role" \notin Opening /\ "start" \notin Opening
    BY DEF Kinds, Opening
  <2>2. ASSUME NEW k \in Kinds \ Opening
        PROVE  Plain(k) \in ClientEvent /\ Plain(k).k \notin Opening /\ OfPieces[Plain(k)] = <<>>
    <3>1. PICK f : f = Plain(k)
      OBVIOUS
    <3>2. f \in ClientEvent /\ f.k = k /\ OnePiece(f.b, f.p) = <<>>
      BY <3>1, EventIs, Zenon
    <3>3. OfPieces[f] = <<>>
      BY <3>2 DEF OfPieces, OnePiece
    <3>4. QED BY <3>1, <3>2, <3>3
  <2>3. PICK f, g : f = Plain("role") /\ g = Plain("start")
    OBVIOUS
  <2>4. /\ f \in ClientEvent /\ f.k \notin Opening /\ OfPieces[f] = <<>>
        /\ g \in ClientEvent /\ g.k \notin Opening /\ OfPieces[g] = <<>>
    BY <2>1, <2>2, <2>3
  <2>5. p = <<>> \/ p = <<f>> \/ p = <<g>>
    BY <1>1, <2>3
  <2>6. CASE p = <<>>
    BY <2>6
  <2>7. CASE p = <<f>>
    BY <2>4, <2>7
  <2>8. CASE p = <<g>>
    BY <2>4, <2>8
  <2>9. QED BY <2>5, <2>6, <2>7, <2>8
<1>5. s = [pending |-> p, usage |-> FALSE, text |-> e, calls |-> e, blocks |-> {},
           seq |-> 0, started |-> FALSE, tools |-> FALSE, finished |-> FALSE]
  BY <1>1, Zenon DEF Fresh
<1>6. s \in Translator
  <2>1. PICK P, T, C, B : P = Seq(ClientEvent) /\ T = Seq(Payload) /\ C = CallTables /\ B = SUBSET BlockName
    OBVIOUS
  <2>2. p \in P /\ e \in T /\ e \in C /\ {} \in B
    BY <1>2, <1>3, <1>4, <2>1
  <2>3. s \in [pending : P, usage : BOOLEAN, text : T, calls : C,
               blocks : B, seq : Nat, started : BOOLEAN, tools : BOOLEAN, finished : BOOLEAN]
    BY <1>5, <2>2
  <2>4. QED BY <2>1, <2>3, Zenon DEF Translator
<1>7. s.pending = p /\ s.calls = e /\ s.blocks = {} /\ s.finished = FALSE
  BY <1>5
<1>8. Sound(s)
  BY <1>2, <1>3, <1>6, <1>7, FS_EmptySet DEF Sound
<1>9. Flat(p, OfPieces) = <<>>
  BY <1>4, FlatNone
<1>10. OpensIn(p, Items(s))
  BY <1>4, Zenon DEF OpensIn
<1>11. QED BY <1>7, <1>8, <1>9, <1>10

LEMMA LossStart ==
    ASSUME StreamsInit, WasLive
    PROVE  LossInv
<1>1. PICK e : e = <<>>
  OBVIOUS
<1>2. upstream # NoUpstream
  BY DEF WasLive, NoUpstream
<1>3. /\ protocol \in Live /\ stream = Begin(protocol)
      /\ \/ \E kind \in {"openai", "anthropic"} :
               upstream = [NoUpstream EXCEPT !.kind = kind, !.state = "open"] /\ ready = e
         \/ \E texts, calls \in 0..MaxWhole, usage \in BOOLEAN :
               upstream = Whole(texts, calls, usage) /\ ready = EventsOfWhole(texts, calls, usage)
  BY <1>1, <1>2, Zenon DEF StreamsInit
<1>4. buffer.whole = e /\ buffer.part = NoPart /\ out = e /\ client = "reads"
  BY <1>1 DEF StreamsInit
<1>5. /\ Makes(ready, upstream.pieces, upstream.reason)
      /\ upstream.state = "open" => upstream.kind \in {"openai", "anthropic"}
  <2>1. ASSUME NEW kind \in {"openai", "anthropic"},
               upstream = [NoUpstream EXCEPT !.kind = kind, !.state = "open"], ready = e
        PROVE  Makes(ready, upstream.pieces, upstream.reason) /\ upstream.kind = kind
    <3>1. upstream.pieces = <<>> /\ upstream.kind = kind
      BY <2>1 DEF NoUpstream
    <3>2. QED BY <1>1, <2>1, <3>1, NoneMakes
  <2>2. ASSUME NEW texts \in 0..MaxWhole, NEW calls \in 0..MaxWhole, NEW usage,
               upstream = Whole(texts, calls, usage), ready = EventsOfWhole(texts, calls, usage)
        PROVE  Makes(ready, upstream.pieces, upstream.reason) /\ upstream.state = "closed"
    <3>1. texts \in Nat /\ calls \in Nat
      BY BoundsAssumption
    <3>2. QED BY <2>2, <3>1, WholeMakes
  <2>3. "closed" # "open"
    OBVIOUS
  <2>4. QED BY <1>3, <2>1, <2>2, <2>3
<1>6. PICK p : p = stream.pending
  OBVIOUS
<1>7. Sound(stream) /\ Flat(p, OfPieces) = <<>> /\ OpensIn(p, Items(stream))
  BY <1>3, <1>6, BeginSound
<1>8. stream \in Translator /\ stream.finished = FALSE
  BY <1>7 DEF Sound
<1>9. p \in Seq(ClientEvent) /\ IsJoin(p, e, p)
  <2>1. p \in Seq(ClientEvent)
    BY <1>6, <1>8, FieldTypes
  <2>2. QED BY <1>1, <2>1, JoinNone
<1>10. /\ ready \in Seq(Delta) /\ upstream.pieces \in Seq(BlockName \X Nat)
       /\ Flat(ready, OfDelta) = Flat(upstream.pieces, OfPromise) /\ Orderly(ready, upstream.reason)
  BY <1>5 DEF Makes
<1>11. IsJoin(Flat(upstream.pieces, OfPromise), Flat(p, OfPieces), Flat(ready, OfDelta))
  <2>1. PICK two : IsJoin(two, ready, ready)
    BY DEF IsJoin
  <2>2. Flat(ready, OfDelta) \in Seq(BlockName \X Nat)
    BY <1>10, <2>1, PromiseMap, FlatMapJoined
  <2>3. QED BY <1>7, <1>10, <2>2, JoinNone
<1>12. Running(out, stream, ready, upstream.pieces)
  BY <1>4, <1>6, <1>7, <1>9, <1>11, Zenon DEF Running, RunningWith
<1>13. IsJoin(ready, ready, Flat(buffer.whole, ParseAll))
  <2>1. Flat(buffer.whole, ParseAll) = <<>>
    BY <1>1, <1>4, FlatMapOne
  <2>2. QED BY <1>10, <2>1, JoinNone
<1>14. OnItsWay(ready, ready, buffer.whole, upstream, out, stream)
  BY <1>10, <1>12, <1>13, Zenon DEF OnItsWay
<1>15. LastPart(buffer.part, upstream.reason)
  BY <1>4 DEF LastPart
<1>16. out \in Seq(ClientEvent) /\ client # "ended" /\ stream.finished # TRUE
  <2>1. out = <<>> /\ client # "ended"
    BY <1>1, <1>4
  <2>2. out \in Seq(ClientEvent)
    BY <2>1
  <2>3. stream.finished # TRUE
    BY ONLY <1>8
  <2>4. QED BY <2>1, <2>2, <2>3
<1>17. LossOf(upstream, buffer, ready, stream, out, client)
  BY <1>5, <1>8, <1>10, <1>14, <1>15, <1>16, Zenon DEF LossOf
<1>18. QED BY <1>3, <1>17 DEF LossInv


\* What a frame adds, when it is whole.
LEMMA CountedIs ==
    ASSUME LiveInv, upstream.kind \in {"openai", "anthropic"}, upstream.pieces \in Seq(BlockName \X Nat),
           NEW f \in Frames, upstream.reason # "none" => f.type \in Late,
           NEW n \in Nat \ {0}, NEW form \in Marks,
           NEW up, up = Counted(f, n), NEW w, w = Parse(f, n, form)
    PROVE  /\ up.kind = upstream.kind /\ up.state = upstream.state
           /\ Makes(w, Pieces(f, n), up.reason)
           /\ IsJoin(up.pieces, upstream.pieces, Pieces(f, n)) /\ up.pieces \in Seq(BlockName \X Nat)
           /\ upstream.reason # "none" => up.reason # "none" /\ Quiet(OfDelta, w)
<1>1. {"kind", "sent", "cuts", "state", "reason", "pieces", "usage"} \subseteq DOMAIN upstream
  BY DEF LiveInv, WayInv
<1>2. PICK r, ps : /\ ps = upstream.pieces \o Pieces(f, n)
                   /\ r = CASE upstream.kind = "openai" /\ f.finish # "none" -> OpenAiReason(f.finish)
                            [] upstream.kind = "anthropic" /\ f.type = "message_delta" ->
                                  AnthropicReason(f.finish)
                            [] OTHER -> upstream.reason
  OBVIOUS
<1>3. up = [upstream EXCEPT !.sent = n, !.reason = r, !.usage = @ \/ f.usage, !.pieces = ps]
  BY <1>2, Zenon DEF Counted
<1>4. up.kind = upstream.kind /\ up.state = upstream.state /\ up.reason = r /\ up.pieces = ps
  BY <1>1, <1>3
<1>5. IsJoin(up.pieces, upstream.pieces, Pieces(f, n))
  BY <1>2, <1>4, Zenon DEF IsJoin
<1>6. \A x : OpenAiReason(x) # "none" /\ AnthropicReason(x) # "none"
  BY DEF OpenAiReason, AnthropicReason
<1>7. upstream.reason # "none" => r # "none"
  BY <1>2, <1>6
<1>8. Makes(w, Pieces(f, n), r) /\ (f.type \in Late => Quiet(OfDelta, w))
  <2>1. CASE upstream.kind = "openai"
    <3>1. f.finish # "none" => r # "none"
      BY <1>2, <1>6, <2>1
    <3>2. w = OpenAiEvents(f, n, form)
      BY <2>1 DEF Parse
    <3>3. QED BY <2>1, <3>1, <3>2, OpenAiMakes
  <2>2. CASE upstream.kind = "anthropic"
    <3>1. f.type = "message_delta" => r # "none"
      BY <1>2, <1>6, <2>2
    <3>2. w = AnthropicEvents(f, n, form)
      BY <2>2 DEF Parse
    <3>3. upstream.kind # "openai"
      BY <2>2
    <3>4. QED BY <3>1, <3>2, <3>3, AnthropicMakes
  <2>3. QED BY <2>1, <2>2
<1>9. up.pieces \in Seq(BlockName \X Nat)
  <2>1. Pieces(f, n) \in Seq(BlockName \X Nat)
    BY <1>8 DEF Makes
  <2>2. QED BY <1>2, <1>4, <2>1, ConcatProperties
<1>10. QED BY <1>4, <1>5, <1>7, <1>8, <1>9

\* More frames: what is on its way is longer.
LEMMA FrameComes ==
    ASSUME LiveInv, upstream.kind \in {"openai", "anthropic"}, upstream.pieces \in Seq(BlockName \X Nat),
           NEW f \in Frames, upstream.reason # "none" => f.type \in Late,
           NEW n \in Nat \ {0}, NEW form \in Marks,
           NEW up, up = Counted(f, n), NEW w, w = Parse(f, n, form),
           NEW way \in Seq(Delta), NEW sent, NEW s, Running(sent, s, way, upstream.pieces),
           Orderly(way, upstream.reason), NEW longer, IsJoin(longer, way, w)
    PROVE  Running(sent, s, longer, up.pieces) /\ Orderly(longer, up.reason) /\ longer \in Seq(Delta)
<1>1. /\ Makes(w, Pieces(f, n), up.reason)
      /\ IsJoin(up.pieces, upstream.pieces, Pieces(f, n))
      /\ upstream.reason # "none" => up.reason # "none" /\ Quiet(OfDelta, w)
  BY CountedIs
<1>2. w \in Seq(Delta) /\ Orderly(w, up.reason)
  BY <1>1 DEF Makes
<1>3. Running(sent, s, longer, up.pieces)
  BY <1>1, MoreComes
<1>4. Orderly(longer, up.reason)
  BY <1>1, <1>2, OrderlyJoined
<1>5. longer \in Seq(Delta)
  BY <1>2, ConcatProperties DEF IsJoin
<1>6. QED BY <1>3, <1>4, <1>5

LEMMA ParseMap ==
    ParseAll \in [Framed(Frames) -> Seq(Delta)]
    /\ \A f \in Frames, n \in Nat \ {0}, form \in Marks :
          LET x == [f |-> f, n |-> n, form |-> form]
          IN  x \in Framed(Frames) /\ ParseAll[x] = Parse(f, n, form)
<1>1. ASSUME NEW x \in Framed(Frames) PROVE Parse(x.f, x.n, x.form) \in Seq(Delta)
  <2>1. x.f \in Frames /\ x.n \in Nat \ {0} /\ x.form \in Marks
    BY FrameIs
  <2>2. QED BY <2>1, ParseTypes
<1>2. ParseAll \in [Framed(Frames) -> Seq(Delta)]
  BY <1>1 DEF ParseAll
<1>3. ASSUME NEW f \in Frames, NEW n \in Nat \ {0}, NEW form \in Marks, NEW x,
             x = [f |-> f, n |-> n, form |-> form]
      PROVE  x \in Framed(Frames) /\ ParseAll[x] = Parse(f, n, form)
  <2>1. x \in Framed(Frames)
    BY <1>3, FrameIs
  <2>2. x.f = f /\ x.n = n /\ x.form = form
    BY <1>3
  <2>3. QED BY <2>1, <2>2, Zenon DEF ParseAll
<1>4. QED BY <1>2, <1>3

\* A step of the upstream or the parser keeps what the translator and the client have.
LEMMA WayMoves ==
    ASSUME LossInv, client = "reads", stream.finished = FALSE, NEW up, NEW buf, NEW rdy,
           up.pieces \in Seq(BlockName \X Nat),
           up.state = "open" => up.kind \in {"openai", "anthropic"},
           LastPart(buf.part, up.reason), NEW way, OnItsWay(way, rdy, buf.whole, up, out, stream)
    PROVE  LossOf(up, buf, rdy, stream, out, client)
<1>1. stream.finished # TRUE /\ client # "ended"
  <2>1. stream.finished # TRUE
    BY ONLY stream.finished = FALSE
  <2>2. QED BY <2>1
<1>2. stream \in Translator /\ out \in Seq(ClientEvent)
  BY Zenon DEF LossInv, LossOf
<1>3. QED BY <1>1, <1>2, Zenon DEF LossOf

LEMMA Gone ==
    ASSUME LossInv, Pulled
    PROVE  /\ client = "reads" /\ stream.finished = FALSE /\ stream.pending = <<>>
           /\ LastPart(buffer.part, upstream.reason)
           /\ \E way : OnItsWay(way, ready, buffer.whole, upstream, out, stream)
<1>1. client = "reads" /\ ~stream.finished /\ stream.pending = <<>>
  BY DEF Pulled
<1>2. stream \in Translator
  BY DEF LossInv, LossOf
<1>3. stream.finished = FALSE
  BY <1>1, <1>2, FieldTypes
<1>4. QED BY <1>1, <1>3, Zenon DEF LossInv, LossOf

\* What is on its way, of what is ready and of the whole frames in the buffer.
LEMMA OnTheWay ==
    ASSUME LiveInv, LossInv, Pulled
    PROVE  /\ buffer.whole \in Seq(Framed(Frames)) /\ buffer.part \in Parted(Frames)
           /\ Flat(buffer.whole, ParseAll) \in Seq(Delta) /\ ready \in Seq(Delta)
           /\ \E way \in Seq(Delta) :
                 /\ IsJoin(way, ready, Flat(buffer.whole, ParseAll))
                 /\ ready = <<>> => way = Flat(buffer.whole, ParseAll)
                 /\ Orderly(way, upstream.reason) /\ Running(out, stream, way, upstream.pieces)
<1>1. buffer \in Buffers(Frames) /\ ready \in Seq(Delta)
  BY DEF LiveInv, WayInv
<1>2. buffer.whole \in Seq(Framed(Frames)) /\ buffer.part \in Parted(Frames)
  BY <1>1, BufferFields
<1>3. PICK w : w = Flat(buffer.whole, ParseAll)
  OBVIOUS
<1>4. w \in Seq(Delta)
  <2>1. PICK whole : whole = buffer.whole
    OBVIOUS
  <2>2. PICK two : IsJoin(two, whole, whole)
    BY DEF IsJoin
  <2>3. whole \in Seq(Framed(Frames)) /\ w = Flat(whole, ParseAll)
    BY <1>2, <1>3, <2>1
  <2>4. ParseAll \in [Framed(Frames) -> Seq(Delta)]
    BY ParseMap
  <2>5. Flat(whole, ParseAll) \in Seq(Delta)
    BY <2>2, <2>3, <2>4, FlatMapJoined
  <2>6. QED BY <2>3, <2>5, Zenon
<1>5. PICK way : OnItsWay(way, ready, buffer.whole, upstream, out, stream)
  BY Gone
<1>6. /\ IsJoin(way, ready, w) /\ Orderly(way, upstream.reason)
      /\ Running(out, stream, way, upstream.pieces)
  BY <1>3, <1>5, Zenon DEF OnItsWay
<1>7. way \in Seq(Delta) /\ (ready = <<>> => way = w)
  BY <1>1, <1>4, <1>6, ConcatProperties DEF IsJoin
<1>8. QED BY <1>1, <1>2, <1>3, <1>4, <1>6, <1>7

\* What the upstream is while it sends.
LEMMA WhileOpen ==
    ASSUME LiveInv, LossInv, upstream.state = "open", NEW n, n = upstream.sent + 1
    PROVE  /\ upstream.kind \in {"openai", "anthropic"} /\ n \in Nat \ {0}
           /\ upstream.pieces \in Seq(BlockName \X Nat)
           /\ {"kind", "sent", "cuts", "state", "reason", "pieces", "usage"} \subseteq DOMAIN upstream
BY DEF LiveInv, WayInv, LossInv, LossOf

LEMMA BufferIs ==
    ASSUME buffer \in Buffers(Frames), NEW x
    PROVE  /\ [buffer EXCEPT !.whole = x].whole = x /\ [buffer EXCEPT !.whole = x].part = buffer.part
           /\ [buffer EXCEPT !.part = x].part = x /\ [buffer EXCEPT !.part = x].whole = buffer.whole
BY DEF Buffers

\* A whole frame.
LEMMA SendFrameKeeps ==
    ASSUME LiveInv, LossInv, NEW f \in Frames, SendFrame(f)
    PROVE  LossOf(upstream', buffer', ready', stream, out, client)
<1>1. PICK n, old, x, whole : /\ n = upstream.sent + 1 /\ old = buffer.whole
                              /\ x = [f |-> f, n |-> n, form |-> "exact"] /\ whole = Append(old, x)
  OBVIOUS
<1>2. /\ Pulled /\ ready = <<>> /\ upstream.state = "open" /\ buffer.part = NoPart
      /\ upstream.reason # "none" => f.type \in Late
  BY DEF SendFrame, MaySend, Late
<1>3. upstream' = Counted(f, n) /\ buffer' = [buffer EXCEPT !.whole = whole] /\ ready' = ready
  BY <1>1, Zenon DEF SendFrame
<1>4. upstream.kind \in {"openai", "anthropic"} /\ n \in Nat \ {0} /\ upstream.pieces \in Seq(BlockName \X Nat)
  BY <1>1, <1>2, WhileOpen
<1>5. "exact" \in Marks
  BY DEF Marks
<1>6. buffer'.whole = whole /\ buffer'.part = NoPart
  BY <1>2, <1>3, BufferIs DEF LiveInv, WayInv
<1>7. PICK way \in Seq(Delta) :
         /\ way = Flat(old, ParseAll) /\ old \in Seq(Framed(Frames))
         /\ Orderly(way, upstream.reason) /\ Running(out, stream, way, upstream.pieces)
  BY <1>1, <1>2, OnTheWay
<1>8. x \in Framed(Frames) /\ ParseAll[x] = Parse(f, n, "exact")
  BY <1>1, <1>4, <1>5, ParseMap
<1>9. PICK longer : longer = Flat(whole, ParseAll)
  OBVIOUS
<1>10. IsJoin(longer, way, Parse(f, n, "exact"))
  BY <1>1, <1>7, <1>8, <1>9, ParseMap, FlatAppend
<1>11. /\ Running(out, stream, longer, upstream'.pieces) /\ Orderly(longer, upstream'.reason)
       /\ longer \in Seq(Delta)
  BY <1>2, <1>3, <1>4, <1>5, <1>7, <1>10, FrameComes
<1>12. IsJoin(longer, ready', Flat(whole, ParseAll))
  BY <1>2, <1>3, <1>9, <1>11, JoinNone
<1>13. OnItsWay(longer, ready', buffer'.whole, upstream', out, stream)
  BY <1>6, <1>11, <1>12, Zenon DEF OnItsWay
<1>14. upstream'.kind = upstream.kind /\ upstream'.pieces \in Seq(BlockName \X Nat)
  BY <1>2, <1>3, <1>4, <1>5, CountedIs
<1>15. LastPart(buffer'.part, upstream'.reason)
  BY <1>6 DEF LastPart
<1>16. QED BY <1>2, <1>4, <1>13, <1>14, <1>15, Gone, WayMoves

\* A part of one.
LEMMA SendHeadKeeps ==
    ASSUME LiveInv, LossInv, NEW f \in Frames, SendHead(f)
    PROVE  LossOf(upstream', buffer', ready', stream, out, client)
<1>1. PICK n, cuts : n = upstream.sent + 1 /\ cuts = upstream.cuts + 1
  OBVIOUS
<1>2. /\ Pulled /\ ready = <<>> /\ upstream.state = "open" /\ ready' = ready
      /\ upstream.reason # "none" => f.type \in Late
  BY DEF SendHead, MaySend, Late, Polled
<1>3. PICK part : part.f = f /\ buffer' = [buffer EXCEPT !.part = part]
  <2>1. PICK form : buffer' = [buffer EXCEPT !.part = [f |-> f, form |-> form]]
    BY Zenon DEF SendHead
  <2>2. PICK x : x = [f |-> f, form |-> form]
    OBVIOUS
  <2>3. x.f = f
    BY <2>2
  <2>4. QED BY <2>1, <2>2, <2>3
<1>4. upstream' = [upstream EXCEPT !.cuts = cuts]
  BY <1>1, Zenon DEF SendHead
<1>5. /\ upstream'.kind = upstream.kind /\ upstream'.reason = upstream.reason
      /\ upstream'.pieces = upstream.pieces
  BY <1>1, <1>2, <1>4, WhileOpen
<1>6. buffer'.whole = buffer.whole /\ buffer'.part = part
  BY <1>3, BufferIs DEF LiveInv, WayInv
<1>7. PICK way : OnItsWay(way, ready, buffer.whole, upstream, out, stream)
  BY <1>2, Gone
<1>8. OnItsWay(way, ready', buffer'.whole, upstream', out, stream)
  BY <1>2, <1>5, <1>6, <1>7, Zenon DEF OnItsWay
<1>9. LastPart(buffer'.part, upstream'.reason)
  BY <1>2, <1>3, <1>5, <1>6 DEF LastPart
<1>10. upstream.kind \in {"openai", "anthropic"} /\ upstream.pieces \in Seq(BlockName \X Nat)
  BY <1>1, <1>2, WhileOpen
<1>11. QED BY <1>2, <1>5, <1>8, <1>9, <1>10, Gone, WayMoves

\* What is left in the buffer is whole now, or no more comes of it.
LEMMA PartIsWhole ==
    ASSUME LiveInv, LossInv, Polled, upstream.state = "open", NEW g, g = buffer.part, g # NoPart,
           NEW n, n = upstream.sent + 1, NEW up, up = Counted(g.f, n), NEW w, w = Parse(g.f, n, g.form)
    PROVE  /\ w \in Seq(Delta) /\ Orderly(w, up.reason) /\ Running(out, stream, w, up.pieces)
           /\ up.pieces \in Seq(BlockName \X Nat) /\ up.kind = upstream.kind
           /\ n \in Nat \ {0} /\ g.f \in Frames /\ g.form \in Marks
<1>1. Pulled /\ ready = <<>> /\ buffer.whole = <<>>
  BY DEF Polled
<1>2. upstream.kind \in {"openai", "anthropic"} /\ n \in Nat \ {0} /\ upstream.pieces \in Seq(BlockName \X Nat)
  BY WhileOpen
<1>3. g.f \in Frames /\ g.form \in Marks
  BY <1>1, OnTheWay, PartIs
<1>4. upstream.reason # "none" => g.f.type \in Late
  BY <1>1, Gone DEF LastPart
<1>5. PICK way \in Seq(Delta) : /\ way = Flat(buffer.whole, ParseAll) /\ Orderly(way, upstream.reason)
                                /\ Running(out, stream, way, upstream.pieces)
  BY <1>1, OnTheWay
<1>6. way = <<>>
  BY <1>1, <1>5, FlatMapOne
<1>7. w \in Seq(Delta)
  BY <1>2, <1>3, ParseTypes
<1>8. IsJoin(w, way, w)
  BY <1>6, <1>7, JoinNone
<1>9. /\ Running(out, stream, w, up.pieces) /\ Orderly(w, up.reason)
  BY <1>2, <1>3, <1>4, <1>5, <1>8, FrameComes
<1>10. up.pieces \in Seq(BlockName \X Nat) /\ up.kind = upstream.kind
  BY <1>2, <1>3, <1>4, CountedIs
<1>11. QED BY <1>2, <1>3, <1>7, <1>9, <1>10

\* The rest of a frame.
LEMMA SendTailKeeps ==
    ASSUME LiveInv, LossInv, SendTail
    PROVE  LossOf(upstream', buffer', ready', stream, out, client)
<1>1. PICK g, n, x, whole : /\ g = buffer.part /\ n = upstream.sent + 1
                            /\ x = [f |-> g.f, n |-> n, form |-> g.form] /\ whole = <<x>>
  OBVIOUS
<1>2. Polled /\ Pulled /\ upstream.state = "open" /\ g # NoPart /\ ready = <<>> /\ ready' = ready
  BY <1>1, Zenon DEF SendTail, Polled
<1>3. upstream' = Counted(g.f, n) /\ buffer' = [whole |-> whole, part |-> NoPart]
  BY <1>1, Zenon DEF SendTail
<1>4. buffer'.whole = whole /\ buffer'.part = NoPart
  BY <1>3
<1>5. PICK w : w = Parse(g.f, n, g.form)
  OBVIOUS
<1>6. /\ w \in Seq(Delta) /\ Orderly(w, upstream'.reason) /\ Running(out, stream, w, upstream'.pieces)
      /\ upstream'.pieces \in Seq(BlockName \X Nat) /\ upstream'.kind = upstream.kind
      /\ n \in Nat \ {0} /\ g.f \in Frames /\ g.form \in Marks
  BY <1>1, <1>2, <1>3, <1>5, PartIsWhole
<1>7. Flat(whole, ParseAll) = w
  <2>1. ParseAll[x] = w
    BY <1>1, <1>5, <1>6, ParseMap
  <2>2. QED BY <1>1, <2>1, FlatMapOne
<1>8. IsJoin(w, ready', Flat(whole, ParseAll))
  BY <1>2, <1>6, <1>7, JoinNone
<1>9. OnItsWay(w, ready', buffer'.whole, upstream', out, stream)
  BY <1>4, <1>6, <1>8, Zenon DEF OnItsWay
<1>10. LastPart(buffer'.part, upstream'.reason)
  BY <1>4 DEF LastPart
<1>11. upstream.kind \in {"openai", "anthropic"}
  BY <1>1, <1>2, WhileOpen
<1>12. QED BY <1>2, <1>6, <1>9, <1>10, <1>11, Gone, WayMoves

\* The parser takes a frame.
LEMMA ParseKeeps ==
    ASSUME LiveInv, LossInv, ParseFrame
    PROVE  LossOf(upstream', buffer', ready', stream, out, client)
<1>1. PICK w, x, t : w = buffer.whole /\ x = Head(w) /\ t = Tail(w)
  OBVIOUS
<1>2. /\ w # <<>> /\ ready' = Parse(x.f, x.n, x.form) /\ buffer' = [buffer EXCEPT !.whole = t]
      /\ upstream' = upstream /\ Pulled /\ ready = <<>>
  BY <1>1, Zenon DEF ParseFrame
<1>3. PICK way \in Seq(Delta) : /\ way = Flat(w, ParseAll) /\ w \in Seq(Framed(Frames))
                                /\ Orderly(way, upstream.reason) /\ Running(out, stream, way, upstream.pieces)
  BY <1>1, <1>2, OnTheWay
<1>4. IsJoin(way, ParseAll[x], Flat(t, ParseAll))
  <2>1. PICK h : h = Head(w)
    OBVIOUS
  <2>2. IsJoin(Flat(w, ParseAll), ParseAll[h], Flat(t, ParseAll))
    BY <1>1, <1>2, <1>3, <2>1, ParseMap, FlatHead
  <2>3. QED BY <1>1, <1>3, <2>1, <2>2, Zenon
<1>5. ParseAll[x] = Parse(x.f, x.n, x.form)
  <2>1. x \in Framed(Frames)
    BY <1>1, <1>2, <1>3, HeadTailProperties
  <2>2. QED BY <2>1, Zenon DEF ParseAll
<1>6. buffer'.whole = t /\ buffer'.part = buffer.part
  BY <1>2, BufferIs DEF LiveInv, WayInv
<1>7. OnItsWay(way, ready', buffer'.whole, upstream', out, stream)
  BY <1>2, <1>3, <1>4, <1>5, <1>6, Zenon DEF OnItsWay
<1>8. LastPart(buffer'.part, upstream'.reason)
  BY <1>2, <1>6, Gone
<1>9. upstream'.pieces \in Seq(BlockName \X Nat) /\ (upstream'.state = "open" => upstream'.kind \in {"openai", "anthropic"})
  BY <1>2, Zenon DEF LossInv, LossOf
<1>10. QED BY <1>2, <1>7, <1>8, <1>9, Gone, WayMoves

\* The upstream closes or breaks without a piece more.
LEMMA NoMoreKeeps ==
    ASSUME LiveInv, LossInv, Polled, upstream.state = "open", NEW up, up.state # "open",
           up.reason = upstream.reason, up.pieces = upstream.pieces,
           NEW rdy \in {<<>>, <<Rejected>>}, NEW buf, buf.whole = <<>>, buf.part \in {NoPart, buffer.part}
    PROVE  LossOf(up, buf, rdy, stream, out, client)
<1>1. Pulled /\ ready = <<>> /\ buffer.whole = <<>>
  BY DEF Polled
<1>2. upstream.pieces \in Seq(BlockName \X Nat)
  BY DEF LossInv, LossOf
<1>3. PICK way \in Seq(Delta) : /\ way = Flat(buffer.whole, ParseAll)
                                /\ Running(out, stream, way, upstream.pieces)
  BY <1>1, OnTheWay
<1>4. PICK e : e = <<>>
  OBVIOUS
<1>5. way = e
  BY <1>1, <1>3, <1>4, FlatMapOne
<1>6. Makes(rdy, e, up.reason)
  BY <1>4, NoneMakes, UsageMakes
<1>7. rdy \in Seq(Delta) /\ Orderly(rdy, up.reason)
  BY <1>6 DEF Makes
<1>8. IsJoin(rdy, way, rdy) /\ IsJoin(rdy, rdy, e)
  BY <1>4, <1>5, <1>7, JoinNone
<1>9. IsJoin(up.pieces, upstream.pieces, e)
  BY <1>2, <1>4, JoinNone
<1>10. Running(out, stream, rdy, up.pieces)
  BY <1>2, <1>3, <1>6, <1>8, <1>9, MoreComes
<1>11. Flat(buf.whole, ParseAll) = e
  BY <1>4, FlatMapOne
<1>12. OnItsWay(rdy, rdy, buf.whole, up, out, stream)
  BY <1>7, <1>8, <1>10, <1>11, Zenon DEF OnItsWay
<1>13. LastPart(buf.part, up.reason)
  BY <1>1, Gone DEF LastPart
<1>14. QED BY <1>1, <1>2, <1>12, <1>13, Gone, WayMoves

LEMMA CloseKeeps ==
    ASSUME LiveInv, LossInv, Close
    PROVE  LossOf(upstream', buffer', ready', stream, out, client)
<1>1. PICK g, n, up : g = buffer.part /\ n = upstream.sent + 1 /\ up = Counted(g.f, n)
  OBVIOUS
<1>2. /\ Polled /\ Pulled /\ upstream.state = "open" /\ ready = <<>> /\ buffer.whole = <<>>
      /\ buffer' = [buffer EXCEPT !.part = NoPart]
  BY DEF Close, Polled
<1>3. buffer'.whole = <<>> /\ buffer'.part = NoPart
  BY <1>2, BufferIs DEF LiveInv, WayInv
<1>4. CASE upstream' = [upstream EXCEPT !.state = "closed"] /\ ready' \in {<<>>, <<Rejected>>}
  <2>1. /\ upstream'.state # "open" /\ upstream'.reason = upstream.reason
        /\ upstream'.pieces = upstream.pieces
    BY <1>1, <1>2, <1>4, WhileOpen
  <2>2. QED BY <1>2, <1>3, <1>4, <2>1, NoMoreKeeps
<1>5. CASE /\ g # NoPart /\ upstream' = [up EXCEPT !.state = "closed"]
           /\ ready' = Parse(g.f, n, g.form)
  <2>1. PICK w : w = Parse(g.f, n, g.form)
    OBVIOUS
  <2>2. /\ w \in Seq(Delta) /\ Orderly(w, up.reason) /\ Running(out, stream, w, up.pieces)
        /\ up.pieces \in Seq(BlockName \X Nat)
    BY <1>1, <1>2, <1>5, <2>1, PartIsWhole
  <2>3. DOMAIN up = DOMAIN upstream
    BY <1>1 DEF Counted
  <2>4. /\ upstream'.state = "closed" /\ upstream'.reason = up.reason /\ upstream'.pieces = up.pieces
    BY <1>1, <1>2, <1>5, <2>3, WhileOpen
  <2>5. Flat(buffer'.whole, ParseAll) = <<>>
    BY <1>3, FlatMapOne
  <2>6. IsJoin(w, ready', Flat(buffer'.whole, ParseAll))
    BY <1>5, <2>1, <2>2, <2>5, JoinNone
  <2>7. OnItsWay(w, ready', buffer'.whole, upstream', out, stream)
    BY <2>2, <2>4, <2>6, Zenon DEF OnItsWay
  <2>8. LastPart(buffer'.part, upstream'.reason)
    BY <1>3 DEF LastPart
  <2>9. upstream'.pieces \in Seq(BlockName \X Nat) /\ upstream'.state # "open"
    BY <2>2, <2>4
  <2>10. QED BY <1>2, <2>7, <2>8, <2>9, Gone, WayMoves
<1>6. QED BY <1>1, <1>2, <1>4, <1>5 DEF Close

LEMMA BreakKeeps ==
    ASSUME LiveInv, LossInv, Break
    PROVE  LossOf(upstream', buffer', ready', stream, out, client)
<1>1. PICK n : n = upstream.sent + 1
  OBVIOUS
<1>2. /\ Polled /\ upstream.state = "open" /\ upstream' = [upstream EXCEPT !.state = "broken"]
      /\ ready' = <<Rejected>> /\ buffer' = buffer /\ buffer.whole = <<>>
  BY DEF Break, Polled
<1>3. upstream'.state # "open" /\ upstream'.reason = upstream.reason /\ upstream'.pieces = upstream.pieces
  BY <1>1, <1>2, WhileOpen
<1>4. QED BY <1>2, <1>3, NoMoreKeeps

\* A step of the translator or the client keeps what the upstream has.
LEMMA TranslatorMoves ==
    ASSUME LossInv, NEW s \in Translator, NEW sent \in Seq(ClientEvent), NEW rdy, NEW way,
           NEW state, state # "ended",
           s.finished = FALSE => LastPart(buffer.part, upstream.reason)
                                 /\ OnItsWay(way, rdy, buffer.whole, upstream, sent, s),
           s.finished = TRUE => Told(sent, s, upstream.pieces)
    PROVE  LossOf(upstream, buffer, rdy, s, sent, state)
BY Zenon DEF LossInv, LossOf

\* The translator takes a provider event.
LEMMA TakeEventKeeps ==
    ASSUME LiveInv, LossInv, TakeEvent
    PROVE  LossOf(upstream, buffer, ready', stream', out, client)
<1>1. PICK r, e, t, w : r = ready /\ e = Head(r) /\ t = Tail(r) /\ w = Flat(buffer.whole, ParseAll)
  OBVIOUS
<1>2. Pulled /\ r # <<>> /\ ready' = t
  BY <1>1, Zenon DEF TakeEvent
<1>3. PICK ps : ps = upstream.pieces
  OBVIOUS
<1>4. PICK way \in Seq(Delta) : /\ IsJoin(way, r, w) /\ Orderly(way, upstream.reason)
                                /\ Running(out, stream, way, ps) /\ r \in Seq(Delta) /\ w \in Seq(Delta)
  BY <1>1, <1>2, <1>3, OnTheWay
<1>5. PICK rest : rest = Tail(way)
  OBVIOUS
<1>6. way # <<>> /\ Head(way) = e /\ IsJoin(rest, t, w) /\ rest \in Seq(Delta) /\ e \in Delta
  <2>1. way = r \o w
    BY <1>4 DEF IsJoin
  <2>2. r = <<e>> \o t /\ t \in Seq(Delta) /\ e \in Delta
    BY <1>1, <1>2, <1>4
  <2>3. way # <<>> /\ Head(way) = e
    BY <1>1, <1>2, <1>4, <2>1
  <2>4. rest = t \o w
    BY <1>1, <1>2, <1>4, <1>5, <2>1
  <2>5. rest \in Seq(Delta)
    BY <1>4, <2>2, <2>4, ConcatProperties
  <2>6. QED BY <2>2, <2>3, <2>4, <2>5 DEF IsJoin
<1>7. /\ \A j \in 1..Len(rest) : j + 1 \in 1..Len(way) /\ rest[j] = way[j + 1]
      /\ 1 \in 1..Len(way) /\ way[1] = e /\ Len(rest) = Len(way) - 1
  BY <1>4, <1>5, <1>6
<1>8. Orderly(rest, upstream.reason)
  <2>1. ASSUME NEW j \in 1..Len(rest), rest[j].k = "finish"
        PROVE  /\ upstream.reason # "none" /\ rest[j].r # "none"
               /\ \A m \in 1..Len(rest) : j < m => OfDelta[rest[m]] = <<>>
    <3>1. PICK h \in 1..Len(way) : h = j + 1 /\ rest[j] = way[h] /\ way[h].k = "finish"
      BY <1>7, <2>1
    <3>2. /\ upstream.reason # "none" /\ way[h].r # "none"
          /\ \A m \in 1..Len(way) : h < m => OfDelta[way[m]] = <<>>
      BY <1>4, <3>1 DEF Orderly
    <3>3. ASSUME NEW m \in 1..Len(rest), j < m PROVE OfDelta[rest[m]] = <<>>
      <4>1. PICK i \in 1..Len(way) : i = m + 1 /\ rest[m] = way[i]
        BY <1>7
      <4>2. h < i
        BY <3>1, <3>3, <4>1
      <4>3. QED BY <3>2, <4>1, <4>2
    <3>4. QED BY <3>1, <3>2, <3>3
  <2>2. QED BY <2>1, Zenon DEF Orderly
<1>9. /\ client = "reads" /\ LastPart(buffer.part, upstream.reason) /\ Sound(stream)
      /\ out \in Seq(ClientEvent) /\ ps \in Seq(BlockName \X Nat) /\ stream \in Translator
  <2>1. Sound(stream)
    BY <1>4, Zenon DEF Running
  <2>2. QED BY <1>2, <1>3, <2>1, Gone DEF LossInv, LossOf
<1>10. ASSUME Passes(stream', stream, OfDelta[e])
       PROVE  LossOf(upstream, buffer, ready', stream', out, client)
  <2>1. Running(out, stream', rest, ps)
    BY <1>4, <1>5, <1>6, <1>9, <1>10, DeltaMoves
  <2>2. OnItsWay(rest, ready', buffer.whole, upstream, out, stream')
    BY <1>1, <1>2, <1>3, <1>6, <1>8, <2>1, Zenon DEF OnItsWay
  <2>3. Sound(stream')
    BY <1>10, Zenon DEF Passes
  <2>4. stream' \in Translator /\ stream'.finished # TRUE
    <3>1. stream' \in Translator /\ stream'.finished = FALSE
      BY ONLY <2>3 DEF Sound
    <3>2. stream'.finished # TRUE
      BY ONLY <3>1
    <3>3. QED BY <3>1, <3>2
  <2>5. client # "ended"
    BY <1>9
  <2>6. QED BY <1>9, <2>2, <2>4, <2>5, TranslatorMoves
<1>11. ASSUME stream' \in Translator, stream'.finished = TRUE, Told(out, stream', ps)
       PROVE  LossOf(upstream, buffer, ready', stream', out, client)
  <2>1. client # "ended" /\ stream'.finished # FALSE
    <3>1. stream'.finished # FALSE
      BY ONLY <1>11
    <3>2. QED BY <1>9, <3>1
  <2>2. QED BY <1>3, <1>9, <1>11, <2>1, TranslatorMoves
<1>12. CASE e.k = "text" /\ stream' = OnText(stream, e)
  BY <1>6, <1>9, <1>10, <1>12, TextPasses
<1>13. CASE e.k = "call" /\ stream' = OnCall(stream, e)
  BY <1>6, <1>9, <1>10, <1>13, CallPasses
<1>14. CASE e.k = "usage" /\ stream' = [stream EXCEPT !.usage = TRUE]
  <2>1. OfDelta[e] = <<>>
    BY <1>6, <1>14, DeltaTells
  <2>2. Passes([stream EXCEPT !.usage = TRUE], stream, <<>>)
    BY <1>9, QuietFields
  <2>3. QED BY <1>10, <1>14, <2>1, <2>2
<1>15. CASE e.k = "error" /\ stream' = OnError(stream)
  <2>1. Fails(stream', stream)
    BY <1>9, <1>15, FailureIsTold
  <2>2. QED BY <1>9, <1>11, <2>1, FailIsTold
<1>16. ASSUME NEW storing, e.k = "finish", stream' = OnFinish(stream, e.r, storing)
       PROVE  LossOf(upstream, buffer, ready', stream', out, client)
  <2>1. e.r # "none" /\ \A m \in 1..Len(way) : 1 < m => OfDelta[way[m]] = <<>>
    BY <1>4, <1>7, <1>16 DEF Orderly
  <2>2. OfDelta[way[1]] = <<>>
    BY <1>6, <1>7, <1>16, DeltaTells
  <2>3. Flat(way, OfDelta) = <<>>
    <3>1. ASSUME NEW m \in 1..Len(way) PROVE OfDelta[way[m]] = <<>>
      <4>1. m = 1 \/ 1 < m
        OBVIOUS
      <4>2. QED BY <2>1, <2>2, <4>1
    <3>2. Len(way) \in Nat
      BY <1>4
    <3>3. QED BY <3>1, <3>2, FlatNone
  <2>4. e.r \in DeltaReasons \ {"none"}
    BY <1>6, <2>1 DEF Delta
  <2>5. Ends(stream', stream)
    BY <1>9, <1>16, <2>4, FinishEnds DEF LossInv
  <2>6. QED BY <1>4, <1>9, <1>11, <2>3, <2>5, EndIsTold
<1>17. QED BY <1>1, <1>12, <1>13, <1>14, <1>15, <1>16, Zenon DEF TakeEvent

\* The provider stream ends.
LEMMA TakeEndKeeps ==
    ASSUME LiveInv, LossInv, TakeEnd
    PROVE  LossOf(upstream, buffer, ready, stream', out, client)
<1>1. Pulled /\ ready = <<>> /\ buffer.whole = <<>>
  BY DEF TakeEnd, Polled
<1>2. PICK ps : ps = upstream.pieces
  OBVIOUS
<1>3. PICK way \in Seq(Delta) : way = Flat(buffer.whole, ParseAll) /\ Running(out, stream, way, ps)
  BY <1>1, <1>2, OnTheWay
<1>4. Flat(way, OfDelta) = <<>>
  BY <1>1, <1>3, FlatMapOne
<1>5. Sound(stream) /\ out \in Seq(ClientEvent) /\ client = "reads"
  <2>1. Sound(stream)
    BY <1>3, Zenon DEF Running
  <2>2. QED BY <1>1, <2>1, Gone DEF LossInv, LossOf
<1>6. PICK storing : stream' = OnEnd(stream, storing)
  BY Zenon DEF TakeEnd
<1>7. Ends(stream', stream)
  BY <1>5, <1>6, OnEndEnds DEF LossInv
<1>8. stream' \in Translator /\ stream'.finished = TRUE /\ Told(out, stream', ps)
  BY <1>3, <1>4, <1>5, <1>7, EndIsTold
<1>9. stream'.finished # FALSE /\ client # "ended"
  <2>1. stream'.finished # FALSE
    BY ONLY <1>8
  <2>2. QED BY <1>5, <2>1
<1>10. QED BY <1>2, <1>5, <1>8, <1>9, TranslatorMoves

\* An event is sent.
LEMMA SendKeeps ==
    ASSUME LiveInv, LossInv, Send
    PROVE  LossOf(upstream, buffer, ready, stream', out', client)
<1>1. PICK p, more, ps : p = stream.pending /\ more = Append(out, Head(p)) /\ ps = upstream.pieces
  OBVIOUS
<1>2. /\ client = "reads" /\ p # <<>> /\ out' = more /\ stream' = [stream EXCEPT !.pending = Tail(p)]
  BY <1>1, Zenon DEF Send
<1>3. stream \in Translator /\ out \in Seq(ClientEvent) /\ client # "ended"
  BY <1>2 DEF LossInv, LossOf
<1>4. /\ stream' \in Translator /\ more \in Seq(ClientEvent) /\ stream'.finished = stream.finished
      /\ \A w, qs : Running(out, stream, w, qs) => Running(more, stream', w, qs)
      /\ \A qs : Told(out, stream, qs) => Told(more, stream', qs)
  <2>1. PICK t : t = stream'
    OBVIOUS
  <2>2. IsSent(more, t, out, stream)
    BY <1>1, <1>2, <2>1, Zenon DEF IsSent
  <2>3. /\ t \in Translator /\ more \in Seq(ClientEvent) /\ t.finished = stream.finished
        /\ \A w, qs : Running(out, stream, w, qs) => Running(more, t, w, qs)
        /\ \A qs : Told(out, stream, qs) => Told(more, t, qs)
    BY <1>3, <2>2, EventMoves
  <2>4. QED BY <2>1, <2>3, Zenon
<1>5. stream'.finished \in BOOLEAN
  BY <1>4, FieldTypes
<1>6. CASE stream'.finished = FALSE
  <2>1. PICK way : OnItsWay(way, ready, buffer.whole, upstream, out, stream)
    BY <1>4, <1>6, Zenon DEF LossInv, LossOf
  <2>2. OnItsWay(way, ready, buffer.whole, upstream, more, stream')
    BY <1>4, <2>1, Zenon DEF OnItsWay
  <2>3. LastPart(buffer.part, upstream.reason)
    BY <1>4, <1>6, Zenon DEF LossInv, LossOf
  <2>4. stream'.finished # TRUE
    BY ONLY <1>6
  <2>5. QED BY <1>2, <1>3, <1>4, <2>2, <2>3, <2>4, TranslatorMoves
<1>7. CASE stream'.finished = TRUE
  <2>1. Told(out, stream, ps)
    BY <1>1, <1>4, <1>7, Zenon DEF LossInv, LossOf
  <2>2. stream'.finished # FALSE
    BY ONLY <1>7
  <2>3. QED BY <1>1, <1>2, <1>3, <1>4, <2>1, <2>2, TranslatorMoves
<1>8. QED BY <1>5, <1>6, <1>7

\* The client ends or leaves.
LEMMA ClientKeeps ==
    ASSUME LiveInv, LossInv, End \/ Leave
    PROVE  LossOf(upstream, buffer, ready, stream, out, client')
<1>1. CASE End
  <2>1. client' = "ended" /\ stream.pending = <<>> /\ stream.finished
    BY <1>1 DEF End
  <2>2. stream.finished = TRUE
    <3>1. stream.finished \in BOOLEAN
      BY FieldTypes DEF LossInv, LossOf
    <3>2. QED BY <2>1, <3>1
  <2>3. QED BY <2>1, <2>2, Zenon DEF LossInv, LossOf
<1>2. CASE Leave
  <2>1. client' # "ended"
    BY <1>2 DEF Leave
  <2>2. QED BY <2>1, Zenon DEF LossInv, LossOf
<1>3. QED BY <1>1, <1>2

LEMMA LossSteps ==
    ASSUME LiveInv, LossInv, [StreamsNext]_streamVars
    PROVE  LossInv'
<1>1. upstream'.kind = upstream.kind
  BY LiveSteps
<1>2. protocol \in Live
  BY DEF LossInv
<1>3. ASSUME protocol' = protocol, LossOf(upstream', buffer', ready', stream', out', client') PROVE LossInv'
  BY <1>1, <1>2, <1>3, SameLoss
<1>4. ASSUME UNCHANGED <<protocol, stream, out, client>>,
             LossOf(upstream', buffer', ready', stream, out, client)
      PROVE  LossInv'
  BY <1>3, <1>4
<1>5. ASSUME NEW f \in Frames, SendFrame(f) PROVE LossInv'
  <2>1. UNCHANGED <<protocol, stream, out, client>>
    BY <1>5, Zenon DEF SendFrame
  <2>2. QED BY <1>4, <1>5, <2>1, SendFrameKeeps
<1>6. ASSUME NEW f \in Frames, SendHead(f) PROVE LossInv'
  <2>1. UNCHANGED <<protocol, stream, out, client>>
    BY <1>6, Zenon DEF SendHead
  <2>2. QED BY <1>4, <1>6, <2>1, SendHeadKeeps
<1>7. CASE SendTail
  <2>1. UNCHANGED <<protocol, stream, out, client>>
    BY <1>7, Zenon DEF SendTail
  <2>2. QED BY <1>4, <1>7, <2>1, SendTailKeeps
<1>8. CASE ParseFrame
  <2>1. UNCHANGED <<protocol, stream, out, client>>
    BY <1>8, Zenon DEF ParseFrame
  <2>2. QED BY <1>4, <1>8, <2>1, ParseKeeps
<1>9. CASE Close
  <2>1. UNCHANGED <<protocol, stream, out, client>>
    BY <1>9, Zenon DEF Close
  <2>2. QED BY <1>4, <1>9, <2>1, CloseKeeps
<1>10. CASE Break
  <2>1. UNCHANGED <<protocol, stream, out, client>>
    BY <1>10, Zenon DEF Break
  <2>2. QED BY <1>4, <1>10, <2>1, BreakKeeps
<1>11. CASE TakeEvent
  <2>1. UNCHANGED <<protocol, upstream, buffer, out, client>>
    BY <1>11, Zenon DEF TakeEvent
  <2>2. LossOf(upstream, buffer, ready', stream', out, client)
    BY <1>11, TakeEventKeeps
  <2>3. QED BY <1>3, <2>1, <2>2
<1>12. CASE TakeEnd
  <2>1. UNCHANGED <<protocol, upstream, buffer, ready, out, client>>
    BY <1>12, Zenon DEF TakeEnd
  <2>2. LossOf(upstream, buffer, ready, stream', out, client)
    BY <1>12, TakeEndKeeps
  <2>3. QED BY <1>3, <2>1, <2>2
<1>13. CASE Send
  <2>1. UNCHANGED <<protocol, upstream, buffer, ready, client>>
    BY <1>13, Zenon DEF Send
  <2>2. LossOf(upstream, buffer, ready, stream', out', client)
    BY <1>13, SendKeeps
  <2>3. QED BY <1>3, <2>1, <2>2
<1>14. CASE End \/ Leave
  <2>1. UNCHANGED <<protocol, upstream, buffer, ready, stream, out>>
    BY <1>14, Zenon DEF End, Leave
  <2>2. LossOf(upstream, buffer, ready, stream, out, client')
    BY <1>14, ClientKeeps
  <2>3. QED BY <1>3, <2>1, <2>2
\* (A WebSocket replays a complete answer: it is never a live stream.)
<1>15. ~KeepAlive
  BY <1>2 DEF KeepAlive, Live
<1>16. CASE UNCHANGED streamVars
  <2>1. UNCHANGED <<protocol, upstream, buffer, ready, stream, out, client>>
    BY <1>16 DEF streamVars
  <2>2. LossOf(upstream, buffer, ready, stream, out, client)
    BY DEF LossInv
  <2>3. QED BY <1>3, <2>1, <2>2
<1>17. QED
  BY <1>5, <1>6, <1>7, <1>8, <1>9, <1>10, <1>11, <1>12, <1>13, <1>14, <1>15, <1>16, Zenon
     DEF StreamsNext, Gateway, Upstream

\* What has ended was told.
LEMMA LossHolds == LossInv => NothingLost
<1> SUFFICES ASSUME LossInv, client = "ended", ~Failed PROVE
      /\ Heard(out) = Promised(upstream.pieces)
      /\ HasItems =>
           \A j \in 1..Len(out) :
              out[j].k \in Opening /\ ~(out[j].b = Text /\ protocol = "responses" /\ stream.tools) =>
                 \E m \in 1..Len(out) : out[m].k \in Closing /\ out[m].b = out[j].b
  BY Zenon DEF NothingLost
<1>1. PICK ps, p, e : ps = upstream.pieces /\ p = stream.pending /\ e = <<>>
  OBVIOUS
<1>2. /\ out \in Seq(ClientEvent) /\ ps \in Seq(BlockName \X Nat) /\ p = e
      /\ Told(out, stream, ps)
  BY <1>1, Zenon DEF LossInv, LossOf
<1>3. PICK all : ToldWith(all, out, stream, ps)
  BY <1>2, Zenon DEF Told
<1>4. IsJoin(all, out, e) /\ (Has(all, "error") \/ TellsAll(all, ps, stream.tools))
  BY <1>1, <1>2, <1>3, Zenon DEF ToldWith
<1>5. all = out
  BY <1>1, <1>2, <1>4 DEF IsJoin
<1>6. TellsAll(out, ps, stream.tools)
  BY <1>4, <1>5, Zenon DEF Failed
<1>7. Heard(out) = Promised(upstream.pieces)
  <2>1. Heard(out) = Flat(out, OfPieces)
    BY <1>2, EventMaps
  <2>2. Promised(ps) = Flat(ps, OfPromise)
    BY <1>2, PromisedIs
  <2>3. QED BY <1>1, <1>6, <2>1, <2>2, Zenon DEF TellsAll
<1>8. ASSUME HasItems, NEW j \in 1..Len(out), out[j].k \in Opening,
             ~(out[j].b = Text /\ protocol = "responses" /\ stream.tools)
      PROVE  \E m \in 1..Len(out) : out[m].k \in Closing /\ out[m].b = out[j].b
  <2>1. ~LeftOpen(out[j].b, stream.tools)
    BY <1>8, Zenon DEF LeftOpen
  <2>2. IsClosed(out, out[j].b)
    BY <1>6, <1>8, <2>1, Zenon DEF TellsAll
  <2>3. QED BY <2>2, Zenon DEF IsClosed
<1>9. QED BY <1>7, <1>8, Zenon

LostInv == (LiveInv /\ LossInv) \/ CompleteInv

\* A stream that ended without an error told everything its upstream sent.  Every
\* piece of text and of the arguments of each call reached the client in its order,
\* and what it saw open was closed: in each protocol, for every sequence of frames
\* that the upstream may send, cut anywhere, and whichever way the connection ends
\* (TakeEvent, ParseFrame, close_open_blocks, format_*_provider_stream_response).
THEOREM NothingIsLost == StreamsSpec => []NothingLost
<1>1. StreamsInit => LostInv
  <2>1. CASE WasLive
    BY <2>1, LiveStart, LossStart DEF LostInv
  <2>2. CASE ~WasLive
    BY <2>2, SameStart DEF LostInv, SameInv
  <2>3. QED BY <2>1, <2>2
<1>2. LostInv /\ [StreamsNext]_streamVars => LostInv'
  <2> SUFFICES ASSUME LostInv, [StreamsNext]_streamVars PROVE LostInv'
    OBVIOUS
  <2>1. CASE LiveInv /\ LossInv
    <3>1. LiveInv'
      BY <2>1, LiveSteps
    <3>2. LossInv'
      BY <2>1, LossSteps
    <3>3. QED BY <3>1, <3>2 DEF LostInv
  <2>2. CASE CompleteInv
    BY <2>2, CompleteSteps DEF LostInv
  <2>3. QED BY <2>1, <2>2 DEF LostInv
<1>3. LostInv => NothingLost
  <2>1. CompleteInv => ~WasLive
    BY DEF CompleteInv, WasLive, NoUpstream
  <2>2. ~WasLive => NothingLost
    BY DEF NothingLost
  <2>3. QED BY <2>1, <2>2, LossHolds DEF LostInv
<1>4. QED BY <1>1, <1>2, <1>3, PTL DEF StreamsSpec

=============================================================================
