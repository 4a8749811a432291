-------------------------- MODULE AgentKernelProofs --------------------------
(***************************************************************************)
(* Proofs about one request: its way through the agent kernel              *)
(* (AgentKernel, first part), and the parameters of its calls              *)
(* (RequestOptions, second part).  The two have no state in common.        *)
(*                                                                         *)
(* The first part holds for every set of task ids and tool calls and for   *)
(* every limit: the crew that runs is the crew of the effort, a success    *)
(* has the work of the whole crew, and the report of a success is true.    *)
(* The promises speak of the end of a run or of the time of the crew.      *)
(* What makes them inductive is what holds at each step on the way there:  *)
(* which states the children can be in, what is already recorded, and how  *)
(* the version of the text counts the repairs.                             *)
(*                                                                         *)
(* The second part holds for every set of requests: any declared tools,    *)
(* any options, whatever their names.  Its invariant says that a body is   *)
(* one that an adapter makes of the request; the properties are facts      *)
(* about the operators that make it, and have lemmas for the forms in      *)
(* between: the choice and the options of the normal form, what a role     *)
(* adds, what an adapter adapts.                                           *)
(***************************************************************************)
EXTENDS AgentKernel, RequestOptions, FiniteSetTheorems, TLAPS

Early == {"root", "plan", "reconcile", "spawn"}
Late == {"continue", "summary", "synthesize", "verify", "repair", "finish"}

\* What a planner or the reconciliation may leave in the plan.
Entries == [id : Ids \cup {Root}, linked : BOOLEAN]

PlanTyped == plan \in [seen : BOOLEAN, children : Seq(Entries)]

\* The graph is empty until the plan is spawned, and the plan that is spawned
\* has the agents of the effort.
PlanIsFull ==
    /\ pc \in {"plan", "reconcile", "spawn"} => \A t \in Ids : graph[t] = "none"
    /\ pc = "spawn" => Len(plan.children) = Target

\* Only a plan that is not clean can leave the root alone.
RootIsAlone ==
    pc = "root" => /\ LinkedTasks = {}
                   /\ CleanPlan => plan.children = <<>>

CrewIsBounded == IsFiniteSet(Crew) /\ CrewWithinLimits

\* How far the children are, by the step of the run.
ChildrenInStep ==
    \A t \in Ids :
        /\ pc \in Early => child[t] = "none"
        /\ pc = "children" => child[t] # "applied"
        /\ pc = "apply" => child[t] \in {"none", "answered", "applied"}
        /\ pc \in Late => child[t] \in {"none", "applied"}

\* Which text there is, by the step of the run: none before the synthesis, then
\* one version more than the repairs.
TextInStep ==
    /\ pc \in Early \cup {"children", "apply", "continue", "summary", "synthesize"} =>
           text = 0 /\ fixes = 0
    /\ pc = "verify" => text = fixes + 1
    /\ pc = "repair" => text = fixes /\ text > 0
    /\ text <= fixes + 1
    /\ verified \in {0, text}
    /\ pc \notin {"finish", "done"} => verified = 0

\* The root has calls to wait for or a text, never both.
CallsInStep ==
    /\ pc \in Early => \A t \in ToolCalls : ledger[t] = "none"
    /\ pc \in {"continue", "summary", "synthesize", "verify", "repair"} => RootCalls = {}
    /\ RootCalls # {} => text = 0

\* An answered request with a crew has a text, or the root's own blank one.
AnswerAtTheEnd ==
    pc = "finish" /\ Crew # {} /\ RootCalls = {} /\ text = 0 => rootText = "blank"

\* The report is made once, of the state that it reports.
ReportAtTheEnd ==
    /\ pc # "done" => report = NoReport
    /\ report.outcome = "ok" =>
           /\ report.calls = RootCalls
           /\ report.passed => RootCalls = {} /\ (Verifiable => verified > 0)

IInv ==
    /\ TypeOK /\ PlanTyped /\ PlanIsFull /\ RootIsAlone
    /\ CrewIsBounded /\ FullCrew /\ ChildrenInStep
    /\ TextInStep /\ CallsInStep /\ AnswerAtTheEnd /\ ReportAtTheEnd
    /\ NoPartialCrew /\ EmptyOnlyFromRoot

-----------------------------------------------------------------------------
(* The operators: cutting a plan, and what it leaves in the task graph     *)

\* A plan is cut to the agents that are left.
LEMMA TruncatedIsShort ==
    ASSUME NEW S, NEW children \in Seq(S), NEW n \in Nat
    PROVE  Truncated(children, n) \in Seq(S) /\ Len(Truncated(children, n)) <= n
BY DEF Truncated

\* Every plan of a model is a sequence of entries.
LEMMA PlansAreEntries ==
    ASSUME NEW children \in Plans
    PROVE  children \in Seq(Entries)
<1>1. PICK n \in 0..(Target + 1) : children \in [1..n -> Entry]
  BY DEF Plans
<1>2. n \in Nat
  BY <1>1
<1>3. Entry \subseteq Entries
  BY DEF Entry, Entries, Ids
<1>4. children \in [1..n -> Entries]
  BY ONLY <1>1, <1>3
<1>5. QED BY ONLY <1>2, <1>4

\* A graph stays a graph.
LEMMA InsertedIsGraph ==
    ASSUME graph \in [Ids -> {"none", "linked", "unlinked"}], NEW children
    PROVE  Inserted(children) \in [Ids -> {"none", "linked", "unlinked"}]
BY DEF Inserted

\* Only the ids of a plan become tasks.
LEMMA OnlyPlannedIsInserted ==
    ASSUME NEW children, NEW t \in Ids, Inserted(children)[t] # graph[t]
    PROVE  \E i \in 1..Len(children) : children[i].id = t
BY DEF Inserted

\* There are at most as many ids as children.
LEMMA CrewAtMostPlan ==
    ASSUME NEW S, NEW children \in Seq(S), NEW T,
           \A t \in T : \E i \in 1..Len(children) : children[i].id = t
    PROVE  IsFiniteSet(T) /\ Cardinality(T) <= Len(children)
<1> DEFINE all == {children[i].id : i \in 1..Len(children)}
           f == [i \in 1..Len(children) |-> children[i].id]
<1>1. Len(children) \in Nat
  OBVIOUS
<1>2. f \in Surjection(1..Len(children), all)
  BY DEF Surjection
<1>3. IsFiniteSet(1..Len(children)) /\ Cardinality(1..Len(children)) = Len(children)
  BY <1>1, FS_Interval
<1>4. IsFiniteSet(all) /\ Cardinality(all) <= Len(children)
  BY <1>2, <1>3, FS_Surjection
<1>5. T \in SUBSET all
  OBVIOUS
<1>6. IsFiniteSet(T) /\ Cardinality(T) <= Cardinality(all)
  BY <1>4, <1>5, FS_Subset
<1>7. Cardinality(T) \in Nat /\ Cardinality(all) \in Nat
  BY <1>4, <1>6, FS_CardinalityType
<1>8. QED BY ONLY <1>1, <1>4, <1>6, <1>7

\* Without a repetition there are exactly as many.
LEMMA CrewIsPlan ==
    ASSUME NEW S, NEW children \in Seq(S),
           \A i, j \in DOMAIN children : children[i].id = children[j].id => i = j
    PROVE  Cardinality({children[i].id : i \in 1..Len(children)}) = Len(children)
<1> DEFINE all == {children[i].id : i \in 1..Len(children)}
           f == [i \in 1..Len(children) |-> children[i].id]
<1>1. Len(children) \in Nat /\ DOMAIN children = 1..Len(children)
  OBVIOUS
<1>2. f \in Bijection(1..Len(children), all)
  BY <1>1 DEF Bijection, Injection, Surjection, IsInjective
<1>3. IsFiniteSet(1..Len(children)) /\ Cardinality(1..Len(children)) = Len(children)
  BY <1>1, FS_Interval
<1>4. QED BY <1>2, <1>3, FS_Bijection DEF ExistsBijection

\* A clean plan becomes the linked tasks of the graph, all of it and nothing else.
LEMMA CleanPlanIsLinked ==
    ASSUME NEW children \in Seq(Entries),
           \A i, j \in DOMAIN children : children[i].id = children[j].id => i = j,
           \A i \in DOMAIN children : children[i].linked,
           \A t \in Ids : graph[t] = "none",
           ~Duplicates(children)
    PROVE  {t \in Ids : Inserted(children)[t] = "linked"} = {children[i].id : i \in 1..Len(children)}
<1>1. DOMAIN children = 1..Len(children)
  OBVIOUS
<1>2. \A i \in 1..Len(children) : children[i].id \in Ids
  <2>1. \A i \in 1..Len(children) : children[i] \in Entries
    OBVIOUS
  <2>2. QED BY ONLY <2>1, ~Duplicates(children) DEF Duplicates, Entries
<1>3. ASSUME NEW i \in 1..Len(children)  PROVE Inserted(children)[children[i].id] = "linked"
  <2> DEFINE t == children[i].id
             at == {j \in 1..Len(children) : children[j].id = t}
  <2>1. at = {i}
    BY <1>1
  <2>2. (CHOOSE k \in at : \A j \in at : j <= k) = i
    BY <2>1
  <2>3. t \in Ids /\ children[i].linked
    BY <1>1, <1>2
  <2>4. QED BY <2>1, <2>2, <2>3 DEF Inserted
<1>4. \A t \in Ids : Inserted(children)[t] = "linked" => \E i \in 1..Len(children) : children[i].id = t
  BY OnlyPlannedIsInserted
<1>5. QED BY <1>2, <1>3, <1>4

-----------------------------------------------------------------------------
(* Types *)

\* Reconciliation fills a plan up to the agents of the effort.
LEMMA ReconcileFills ==
    ASSUME TypeOK, PlanTyped, Reconcile
    PROVE  /\ plan' \in [seen : BOOLEAN, children : Seq(Entries)]
           /\ Len(plan'.children) = Target
<1> USE LimitsAssumption DEF TypeOK, PlanTyped
<1>1. Len(plan.children) \in 0..Target
  OBVIOUS
<1>2. PICK new \in [1..(Target - Len(plan.children)) -> CrossChecks] :
          plan' = [plan EXCEPT !.children =
                     @ \o [i \in DOMAIN new |-> [id |-> new[i], linked |-> TRUE]]]
  BY DEF Reconcile
<1> DEFINE more == [i \in DOMAIN new |-> [id |-> new[i], linked |-> TRUE]]
           n == Target - Len(plan.children)
<1>3. n \in Nat
  BY <1>1
<1>4. more \in [1..n -> Entries]
  BY <1>2 DEF Entries, Ids
<1>5. more \in Seq(Entries) /\ Len(more) = n
  <2> HIDE DEF more, n
  <2>1. QED BY ONLY <1>3, <1>4
<1>6. plan.children \o more \in Seq(Entries) /\ Len(plan.children \o more) = Target
  <2>1. plan.children \in Seq(Entries)
    OBVIOUS
  <2>2. Len(plan.children \o more) = Len(plan.children) + n
    <3> HIDE DEF more, n
    <3>1. QED BY ONLY <1>5, <2>1
  <2>3. QED BY <1>1, <1>5, <2>1, <2>2
<1>7. QED
  <2>1. plan' = [plan EXCEPT !.children = plan.children \o more]
    BY <1>2
  <2> HIDE DEF more
  <2>2. QED BY <1>6, <2>1

\* Planning keeps the types.
LEMMA PlanningTypes ==
    ASSUME TypeOK, PlanTyped, Planning
    PROVE  TypeOK' /\ PlanTyped'
<1> USE LimitsAssumption DEF TypeOK, PlanTyped
<1>1. CASE PlannerAnswers
  <2>1. PICK p \in {NoPlan} \cup
                {[seen |-> TRUE, children |-> Truncated(c, Target)] : c \in Plans} : plan' = p
    BY <1>1 DEF PlannerAnswers
  <2>2. /\ p \in [seen : BOOLEAN, children : Seq(Entries)]
        /\ Len(p.children) <= Target
    <3>1. CASE p = NoPlan
      BY <3>1 DEF NoPlan
    <3>2. ASSUME NEW c \in Plans, p = [seen |-> TRUE, children |-> Truncated(c, Target)]
          PROVE  /\ p \in [seen : BOOLEAN, children : Seq(Entries)]
                 /\ Len(p.children) <= Target
      <4>1. Truncated(c, Target) \in Seq(Entries) /\ Len(Truncated(c, Target)) <= Target
        BY PlansAreEntries, TruncatedIsShort
      <4>2. QED BY <3>2, <4>1
    <3>3. QED BY <3>1, <3>2
  <2>3. repairs' \in 0..MaxPlanRepairs
    <3>1. \/ repairs < MaxPlanRepairs /\ repairs' = repairs + 1
          \/ repairs' = repairs
      BY <1>1 DEF PlannerAnswers
    <3>2. repairs \in 0..MaxPlanRepairs /\ MaxPlanRepairs \in Nat
      OBVIOUS
    <3>3. QED BY ONLY <3>1, <3>2
  <2>4. QED BY <1>1, <2>1, <2>2, <2>3 DEF PlannerAnswers
<1>2. CASE Reconcile
  <2>1. /\ plan' \in [seen : BOOLEAN, children : Seq(Entries)]
        /\ Len(plan'.children) = Target
    BY <1>2, ReconcileFills
  <2>2. pc' = "spawn" /\ UNCHANGED <<asks, repairs, graph, child, ledger, rootText, text, retries, fixes,
                                     verified, report>>
    BY <1>2 DEF Reconcile
  <2>3. QED BY <2>1, <2>2
<1>3. CASE PlanAccepted
  BY <1>3 DEF PlanAccepted
<1>4. CASE PlanRefused
  BY <1>4 DEF PlanRefused, Abort, ChildStates
<1>5. CASE SpawnPlanned
  BY <1>5, InsertedIsGraph DEF SpawnPlanned, Crewed, ChildStates
<1>6. CASE SpawnRejected
  BY <1>6 DEF SpawnRejected, Abort, ChildStates
<1>7. QED BY <1>1, <1>2, <1>3, <1>4, <1>5, <1>6 DEF Planning

\* The crew keeps the types.
LEMMA CrewTypes ==
    ASSUME TypeOK, PlanTyped, CrewStep
    PROVE  TypeOK' /\ PlanTyped'
<1> USE DEF TypeOK, PlanTyped, ChildStates
<1>1. ASSUME NEW t \in Ids, StartChild(t) \/ FinishChild(t)  PROVE TypeOK' /\ PlanTyped'
  BY <1>1 DEF StartChild, FinishChild
<1>2. ASSUME NEW t \in Ids, ApplyChild(t)  PROVE TypeOK' /\ PlanTyped'
  BY <1>2, InsertedIsGraph DEF ApplyChild, Recorded
<1>3. CASE CrewDone \/ ApplyDone
  BY <1>3 DEF CrewDone, ApplyDone, AfterCrew
<1>4. CASE CrewFailed \/ ApplyFails
  BY <1>4 DEF CrewFailed, ApplyFails, Abort
<1>5. QED BY <1>1, <1>2, <1>3, <1>4 DEF CrewStep

\* The answer keeps the types.
LEMMA AnswerTypes ==
    ASSUME TypeOK, PlanTyped, TextInStep, AnswerStep
    PROVE  TypeOK' /\ PlanTyped'
<1> USE LimitsAssumption DEF TypeOK, PlanTyped, ChildStates
<1>v. pc \notin {"finish", "done"} => verified = 0
  BY DEF TextInStep
<1>1. CASE RootAnswers
  <2>1. graph' \in [Ids -> {"none", "linked", "unlinked"}]
    BY <1>1, InsertedIsGraph DEF RootAnswers, RootResponse
  <2>2. ledger' \in [ToolCalls -> {"none", "root", "child"}]
    BY <1>1 DEF RootAnswers, RootResponse, Recorded
  <2>3. text' \in {0, 1} /\ verified' = 0 /\ pc' \in {"children", "verify", "finish"}
    BY <1>1, <1>v DEF RootAnswers
  <2>4. child' \in [Ids -> ChildStates]
    BY <1>1 DEF RootAnswers, Crewed
  <2>5. QED BY <1>1, <2>1, <2>2, <2>3, <2>4 DEF RootAnswers
<1>2. CASE Continue
  <2>1. graph' \in [Ids -> {"none", "linked", "unlinked"}]
    BY <1>2, InsertedIsGraph DEF Continue, RootResponse
  <2>2. ledger' \in [ToolCalls -> {"none", "root", "child"}]
    BY <1>2 DEF Continue, RootResponse, Recorded
  <2>3. QED BY <1>2, <2>1, <2>2 DEF Continue, AfterCrew
<1>3. CASE Summarize
  BY <1>3 DEF Summarize
<1>4. CASE TakeContinuation
  BY <1>4, <1>v DEF TakeContinuation, WithText
<1>5. CASE Synthesize
  BY <1>5, <1>v DEF Synthesize, WithText
<1>6. CASE SynthesizeEmpty
  <2>1. CASE Abort("error")
    BY <2>1 DEF Abort
  <2>2. CASE /\ retries < MaxEmptyRetries /\ retries' = retries + 1
             /\ UNCHANGED <<asks, pc, plan, repairs, graph, child, ledger, rootText, text,
                            fixes, verified, report>>
    <3>1. retries' \in 0..MaxEmptyRetries
      <4>1. retries \in 0..MaxEmptyRetries /\ MaxEmptyRetries \in Nat
        OBVIOUS
      <4>2. QED BY ONLY <2>2, <4>1
    <3>2. QED BY <2>2, <3>1
  <2>3. QED BY <1>6, <2>1, <2>2 DEF SynthesizeEmpty
<1>7. QED BY <1>1, <1>2, <1>3, <1>4, <1>5, <1>6 DEF AnswerStep

\* Verification and the end of a run keep the types.
LEMMA EndTypes ==
    ASSUME TypeOK, PlanTyped, TextInStep, VerifyStep \/ Finish \/ Failure \/ RequestTimeout
    PROVE  TypeOK' /\ PlanTyped'
<1> USE LimitsAssumption DEF TypeOK, PlanTyped, ChildStates
<1>1. CASE VerifierPasses
  BY <1>1 DEF VerifierPasses
<1>2. CASE VerifierRejects \/ VerifierGivesUp
  BY <1>2 DEF VerifierRejects, VerifierGivesUp
<1>3. CASE RepairAnswers
  BY <1>3 DEF RepairAnswers, TextInStep
<1>4. CASE RepairFails
  BY <1>4 DEF RepairFails
<1>5. CASE Finish
  <2>1. report' \in [outcome : {"running", "ok", "error", "timeout"}, passed : BOOLEAN,
                     calls : SUBSET ToolCalls]
    <3>1. RootCalls \in SUBSET ToolCalls
      BY DEF RootCalls
    <3>2. (RootCalls = {} /\ (Verifiable => verified > 0)) \in BOOLEAN
      OBVIOUS
    <3>3. QED BY <1>5, <3>1, <3>2 DEF Finish
  <2>2. QED BY <1>5, <2>1 DEF Finish
<1>6. CASE Failure \/ RequestTimeout
  BY <1>6 DEF Failure, CallFails, RequestTimeout, Abort
<1>7. QED BY <1>1, <1>2, <1>3, <1>4, <1>5, <1>6 DEF VerifyStep

\* Every step keeps the types.
LEMMA TypeStep ==
    ASSUME TypeOK, PlanTyped, TextInStep, [Next]_vars
    PROVE  TypeOK' /\ PlanTyped'
<1>1. CASE UNCHANGED vars
  BY <1>1 DEF vars, TypeOK, PlanTyped
<1>2. QED BY <1>1, PlanningTypes, CrewTypes, AnswerTypes, EndTypes DEF Next, Step, Done

-----------------------------------------------------------------------------
(* Plan, graph and crew *)

\* The run returns an error or runs into its timeout.
AbortStep ==
    /\ pc # "done" /\ pc' = "done"
    /\ child' = [t \in Ids |-> IF child[t] = "none" THEN "none" ELSE "failed"]
    /\ \E outcome \in {"error", "timeout"} : report' = [report EXCEPT !.outcome = outcome]
    /\ UNCHANGED <<asks, plan, repairs, graph, ledger, rootText, text, retries, fixes,
                   verified>>

\* A step of the kernel is one of these actions, or it gives the run up.
LEMMA StepKinds ==
    ASSUME [Next]_vars
    PROVE  \/ UNCHANGED vars \/ AbortStep
           \/ PlannerAnswers \/ Reconcile \/ PlanAccepted \/ SpawnPlanned
           \/ \E t \in Ids : StartChild(t) \/ FinishChild(t) \/ ApplyChild(t)
           \/ CrewDone \/ ApplyDone \/ RootAnswers \/ Continue \/ Summarize
           \/ TakeContinuation \/ Synthesize
           \/ SynthesizeEmpty /\ UNCHANGED <<asks, pc, plan, repairs, graph, child, ledger,
                                             rootText, text, fixes, verified, report>>
           \/ VerifierPasses \/ VerifierRejects \/ VerifierGivesUp \/ RepairAnswers \/ RepairFails
           \/ Finish
<1>1. PlanRefused \/ SpawnRejected \/ CrewFailed \/ ApplyFails \/ Failure \/ RequestTimeout => AbortStep
  BY DEF PlanRefused, SpawnRejected, CrewFailed, ApplyFails, Failure, CallFails, RequestTimeout, Abort,
         AbortStep
<1>2. SynthesizeEmpty => \/ AbortStep
                         \/ UNCHANGED <<asks, pc, plan, repairs, graph, child, ledger,
                                        rootText, text, fixes, verified, report>>
  BY DEF SynthesizeEmpty, Abort, AbortStep
<1>3. QED
  BY <1>1, <1>2 DEF Next, Step, Planning, CrewStep, AnswerStep, VerifyStep, Done

\* A root that is asked again plans no more than the agents of the effort.
LEMMA RootPlansCrew ==
    ASSUME IInv, RootAnswers
    PROVE  IsFiniteSet(LinkedTasks') /\ Cardinality(LinkedTasks') <= Target
<1> USE DEF IInv
<1>1. LinkedTasks = {}
  BY DEF RootAnswers, RootIsAlone
<1>2. Remaining \in {0, Target}
  BY <1>1, FS_EmptySet, LimitsAssumption DEF Remaining
<1>3. PICK children \in Plans : graph' = Inserted(Truncated(children, Remaining))
  BY DEF RootAnswers, RootResponse
<1> DEFINE spawned == Truncated(children, Remaining)
<1>4. Target \in Nat /\ Remaining \in Nat
  BY <1>2, LimitsAssumption
<1>5. spawned \in Seq(Entries) /\ Len(spawned) <= Remaining
  BY <1>4, PlansAreEntries, TruncatedIsShort
<1>6. \A t \in LinkedTasks' : \E i \in 1..Len(spawned) : spawned[i].id = t
  <2>1. \A t \in Ids : graph[t] # "linked"
    BY <1>1 DEF LinkedTasks
  <2>2. \A t \in LinkedTasks' : t \in Ids /\ Inserted(spawned)[t] = "linked"
    BY <1>3 DEF LinkedTasks
  <2>3. QED BY <2>1, <2>2, OnlyPlannedIsInserted
<1>7. IsFiniteSet(LinkedTasks') /\ Cardinality(LinkedTasks') <= Len(spawned)
  BY <1>5, <1>6, CrewAtMostPlan
<1>8. Len(spawned) \in Nat /\ Cardinality(LinkedTasks') \in Nat
  BY <1>5, <1>7, FS_CardinalityType
<1>9. QED BY ONLY <1>2, <1>4, <1>5, <1>7, <1>8

\* A planned crew is at most the effort, and exactly the effort when the plan is clean.
LEMMA PlanBecomesCrew ==
    ASSUME IInv, SpawnPlanned
    PROVE  /\ IsFiniteSet(LinkedTasks') /\ Cardinality(LinkedTasks') <= Target
           /\ CleanPlan => Cardinality(LinkedTasks') = Target
<1> USE DEF IInv
<1> DEFINE children == plan.children
<1>1. children \in Seq(Entries) /\ Len(children) = Target /\ \A t \in Ids : graph[t] = "none"
  BY DEF SpawnPlanned, PlanIsFull, PlanTyped
<1>2. graph' = Inserted(children) /\ ~Duplicates(children)
  BY DEF SpawnPlanned
<1>3. LinkedTasks' = {t \in Ids : Inserted(children)[t] = "linked"}
  BY <1>2 DEF LinkedTasks
<1> HIDE DEF children
<1>4. \A t \in LinkedTasks' : \E i \in 1..Len(children) : children[i].id = t
  <2>1. \A t \in LinkedTasks' : t \in Ids /\ Inserted(children)[t] # graph[t]
    BY <1>1, <1>3
  <2>2. QED BY <2>1, OnlyPlannedIsInserted
<1>5. IsFiniteSet(LinkedTasks') /\ Cardinality(LinkedTasks') <= Target
  BY <1>1, <1>4, CrewAtMostPlan
<1>6. ASSUME CleanPlan  PROVE Cardinality(LinkedTasks') = Target
  <2>1. /\ \A i, j \in DOMAIN children : children[i].id = children[j].id => i = j
        /\ \A i \in DOMAIN children : children[i].linked
    BY <1>6 DEF CleanPlan, children
  <2>2. LinkedTasks' = {children[i].id : i \in 1..Len(children)}
    BY <1>1, <1>2, <1>3, <2>1, CleanPlanIsLinked
  <2>3. QED BY <1>1, <2>1, <2>2, CrewIsPlan
<1>7. QED BY <1>5, <1>6

\* The crew is what the graph has linked when it is set up.
LEMMA CrewIsLinked ==
    ASSUME SpawnPlanned \/ RootAnswers
    PROVE  Crew' = LinkedTasks' /\ ChildrenIn("running")' = {}
BY DEF SpawnPlanned, RootAnswers, Crew, LinkedTasks, Crewed, ChildrenIn

\* Every other step keeps the crew.
LEMMA CrewStays ==
    ASSUME IInv, [Next]_vars, ~SpawnPlanned, ~RootAnswers
    PROVE  Crew' = Crew
<1> USE DEF IInv, TypeOK, Crew
<1>1. CASE UNCHANGED child
  BY <1>1
<1>2. CASE AbortStep
  BY <1>2 DEF AbortStep
<1>3. ASSUME NEW t \in Ids, StartChild(t) \/ FinishChild(t) \/ ApplyChild(t)  PROVE Crew' = Crew
  BY <1>3 DEF StartChild, FinishChild, ApplyChild
<1>4. \/ UNCHANGED child \/ AbortStep
      \/ \E t \in Ids : StartChild(t) \/ FinishChild(t) \/ ApplyChild(t)
  BY StepKinds DEF vars, PlannerAnswers, Reconcile, PlanAccepted, CrewDone, ApplyDone, Continue,
     Summarize, TakeContinuation, Synthesize, VerifierPasses, VerifierRejects, VerifierGivesUp,
     RepairAnswers, RepairFails, Finish
<1>5. QED BY <1>1, <1>2, <1>3, <1>4

\* No step makes the crew larger than the effort or the parallel limit.
LEMMA BoundStep ==
    ASSUME IInv, [Next]_vars
    PROVE  CrewIsBounded'
<1> USE DEF IInv, CrewIsBounded, CrewWithinLimits
<1>l. MaxParallel \in Nat /\ Target \in Nat
  BY LimitsAssumption
<1>1. CASE SpawnPlanned \/ RootAnswers
  BY <1>1, <1>l, CrewIsLinked, RootPlansCrew, PlanBecomesCrew, FS_EmptySet
<1>2. CASE ~SpawnPlanned /\ ~RootAnswers
  <2>1. Crew' = Crew
    BY <1>2, CrewStays
  <2>2. Cardinality(ChildrenIn("running"))' <= MaxParallel
    <3>f. IsFiniteSet(ChildrenIn("running")) /\ Cardinality(ChildrenIn("running")) \in Nat
      <4>1. ChildrenIn("running") \in SUBSET Crew
        BY DEF ChildrenIn, Crew
      <4>2. QED BY <4>1, FS_Subset, FS_CardinalityType
    <3>1. CASE ChildrenIn("running")' \subseteq ChildrenIn("running")
      <4>1. IsFiniteSet(ChildrenIn("running")') /\ Cardinality(ChildrenIn("running")') <= Cardinality(ChildrenIn("running"))
        BY <3>f, <3>1, FS_Subset
      <4>2. Cardinality(ChildrenIn("running")') \in Nat
        BY <4>1, FS_CardinalityType
      <4>3. QED BY <1>l, <3>f, <4>1, <4>2
    <3>2. ASSUME NEW t \in Ids, StartChild(t)  PROVE Cardinality(ChildrenIn("running"))' <= MaxParallel
      <4>1. ChildrenIn("running")' = ChildrenIn("running") \cup {t} /\ t \notin ChildrenIn("running")
        BY <3>2 DEF StartChild, ChildrenIn, TypeOK
      <4>2. Cardinality(ChildrenIn("running")) < MaxParallel
        BY <3>2 DEF StartChild
      <4>3. Cardinality(ChildrenIn("running") \cup {t}) = Cardinality(ChildrenIn("running")) + 1
        BY <3>f, <4>1, FS_AddElement
      <4>4. QED BY <1>l, <3>f, <4>1, <4>2, <4>3
    <3>3. \/ ChildrenIn("running")' \subseteq ChildrenIn("running") \/ \E t \in Ids : StartChild(t)
      <4> USE DEF ChildrenIn, TypeOK
      <4>1. UNCHANGED child => ChildrenIn("running")' \subseteq ChildrenIn("running")
        OBVIOUS
      <4>2. AbortStep => ChildrenIn("running")' \subseteq ChildrenIn("running")
        BY DEF AbortStep
      <4>3. ASSUME NEW t \in Ids, FinishChild(t) \/ ApplyChild(t)
            PROVE  ChildrenIn("running")' \subseteq ChildrenIn("running")
        BY <4>3 DEF FinishChild, ApplyChild
      <4>4. \/ UNCHANGED child \/ AbortStep
            \/ \E t \in Ids : StartChild(t) \/ FinishChild(t) \/ ApplyChild(t)
        BY <1>2, StepKinds DEF vars, PlannerAnswers, Reconcile, PlanAccepted, CrewDone, ApplyDone, Continue,
           Summarize, TakeContinuation, Synthesize, VerifierPasses, VerifierRejects, VerifierGivesUp,
           RepairAnswers, RepairFails, Finish
      <4>5. QED BY <4>1, <4>2, <4>3, <4>4
    <3>4. QED BY <3>1, <3>2, <3>3
  <2>3. QED BY <2>1, <2>2
<1>3. QED BY <1>1, <1>2

\* The plan is full when it is spawned, and the graph is empty until then.
LEMMA PlanStep ==
    ASSUME IInv, [Next]_vars
    PROVE  PlanIsFull'
<1> USE LimitsAssumption DEF IInv, PlanIsFull
<1>1. CASE UNCHANGED <<pc, plan, graph>>
  BY <1>1
<1>2. CASE PlannerAnswers
  BY <1>2 DEF PlannerAnswers
<1>3. CASE Reconcile
  BY <1>3, ReconcileFills DEF Reconcile
<1>4. CASE PlanAccepted
  BY <1>4 DEF PlanAccepted, Short
<1>5. CASE pc' \notin {"plan", "reconcile", "spawn"}
  BY <1>5
<1>6. \/ UNCHANGED <<pc, plan, graph>> \/ PlannerAnswers \/ Reconcile \/ PlanAccepted
      \/ pc' \notin {"plan", "reconcile", "spawn"}
  BY StepKinds DEF vars, AbortStep, SpawnPlanned, StartChild, FinishChild, ApplyChild, CrewDone, ApplyDone,
     AfterCrew, RootAnswers, Continue, Summarize, TakeContinuation, Synthesize, WithText,
     VerifierPasses, VerifierRejects, VerifierGivesUp, RepairAnswers, RepairFails, Finish
<1>7. QED BY <1>1, <1>2, <1>3, <1>4, <1>5, <1>6

\* Only a plan that leaves no task linked goes to the root.
LEMMA RootStep ==
    ASSUME IInv, [Next]_vars
    PROVE  RootIsAlone'
<1> USE DEF IInv, RootIsAlone
<1>1. CASE UNCHANGED <<pc, plan, graph>>
  BY <1>1 DEF LinkedTasks, CleanPlan
<1>2. CASE SpawnPlanned
  <2>1. plan' = plan /\ (pc' = "root" => LinkedTasks' = {})
    BY <1>2 DEF SpawnPlanned, LinkedTasks
  <2>2. pc' = "root" => ~CleanPlan
    BY <1>2, <2>1, PlanBecomesCrew, FS_EmptySet, LimitsAssumption
  <2>3. QED BY <2>1, <2>2 DEF CleanPlan
<1>3. CASE pc' # "root"
  BY <1>3
<1>4. UNCHANGED <<pc, plan, graph>> \/ SpawnPlanned \/ pc' # "root"
  BY StepKinds DEF vars, AbortStep, PlannerAnswers, Reconcile, PlanAccepted, StartChild, FinishChild,
     ApplyChild, CrewDone, ApplyDone,
     AfterCrew, RootAnswers, Continue, Summarize, TakeContinuation, Synthesize, WithText,
     VerifierPasses, VerifierRejects, VerifierGivesUp, RepairAnswers, RepairFails, Finish
<1>5. QED BY <1>1, <1>2, <1>3, <1>4

\* The crew of a clean plan stays the effort.
LEMMA FullStep ==
    ASSUME IInv, [Next]_vars
    PROVE  FullCrew'
<1> USE DEF IInv, FullCrew
<1>1. CASE SpawnPlanned
  <2>1. plan' = plan
    BY <1>1 DEF SpawnPlanned
  <2>2. QED BY <1>1, <2>1, PlanBecomesCrew, CrewIsLinked DEF CleanPlan
<1>2. CASE RootAnswers
  <2>1. plan' = plan /\ pc = "root"
    BY <1>2 DEF RootAnswers
  <2>2. QED BY <2>1 DEF RootIsAlone, CleanPlan
<1>3. CASE ~SpawnPlanned /\ ~RootAnswers
  <2>1. Crew' = Crew
    BY <1>3, CrewStays
  <2>2. pc' = "children" => pc = "children" /\ plan' = plan
    BY <1>3, StepKinds DEF vars, AbortStep, PlannerAnswers, Reconcile, PlanAccepted, StartChild, FinishChild,
       ApplyChild, CrewDone, ApplyDone, AfterCrew, Continue, Summarize, TakeContinuation, Synthesize,
       WithText, VerifierPasses, VerifierRejects, VerifierGivesUp, RepairAnswers, RepairFails, Finish
  <2>3. QED BY <2>1, <2>2 DEF CleanPlan
<1>4. QED BY <1>1, <1>2, <1>3

-----------------------------------------------------------------------------
(* Children, text and calls *)

\* The children go along with the step of the run.
LEMMA ChildrenStep ==
    ASSUME IInv, [Next]_vars
    PROVE  ChildrenInStep'
<1> USE DEF IInv, TypeOK, ChildrenInStep, Early, Late
<1>1. CASE UNCHANGED <<pc, child>>
  BY <1>1
<1>2. CASE AbortStep
  BY <1>2 DEF AbortStep
<1>3. CASE PlannerAnswers \/ Reconcile \/ PlanAccepted
  BY <1>3 DEF PlannerAnswers, Reconcile, PlanAccepted
<1>4. CASE SpawnPlanned
  BY <1>4 DEF SpawnPlanned, Crewed
<1>5. ASSUME NEW t \in Ids, StartChild(t) \/ FinishChild(t)  PROVE ChildrenInStep'
  BY <1>5 DEF StartChild, FinishChild
<1>6. ASSUME NEW t \in Ids, ApplyChild(t)  PROVE ChildrenInStep'
  <2>1. pc = "apply" /\ pc' = "apply" /\ child' = [child EXCEPT ![t] = "applied"]
    BY <1>6 DEF ApplyChild
  <2>2. QED BY <2>1
<1>7. CASE CrewDone
  BY <1>7 DEF CrewDone, ChildrenIn, ChildStates
<1>8. CASE ApplyDone
  BY <1>8 DEF ApplyDone, ChildrenIn, AfterCrew
<1>9. CASE RootAnswers
  <2>1. \A t \in Ids : child'[t] \in {"none", "waiting"} /\ (graph'[t] # "linked" => child'[t] = "none")
    BY <1>9 DEF RootAnswers, Crewed
  <2>2. \/ pc' = "children"
        \/ pc' \in {"verify", "finish"} /\ \A t \in Ids : graph'[t] # "linked"
    BY <1>9 DEF RootAnswers
  <2>3. QED BY ONLY <2>1, <2>2 DEF ChildrenInStep, Early, Late
<1>10. CASE pc \in Late /\ pc' \in Late \cup {"done"} /\ UNCHANGED child
  BY <1>10
<1>11. \/ Continue \/ Summarize \/ TakeContinuation \/ Synthesize \/ VerifierPasses \/ VerifierRejects
       \/ VerifierGivesUp \/ RepairAnswers \/ RepairFails \/ Finish
       => pc \in Late /\ pc' \in Late \cup {"done"} /\ UNCHANGED child
  BY DEF Continue, AfterCrew, Summarize, TakeContinuation, Synthesize, WithText, VerifierPasses,
     VerifierRejects, VerifierGivesUp, RepairAnswers, RepairFails, Finish
<1>12. UNCHANGED vars \/ (SynthesizeEmpty /\ UNCHANGED <<pc, child>>) => UNCHANGED <<pc, child>>
  BY DEF vars
<1>13. QED
  BY ONLY IInv, [Next]_vars, <1>1, <1>2, <1>3, <1>4, <1>5, <1>6, <1>7, <1>8, <1>9, <1>10, <1>11, <1>12, StepKinds

\* The version of the text counts the repairs, and a verdict is on the last version.
LEMMA TextStep ==
    ASSUME IInv, [Next]_vars
    PROVE  TextInStep'
<1> USE DEF TextInStep, Early
<1>t. text \in Nat /\ fixes \in Nat /\ TextInStep
  BY LimitsAssumption DEF IInv, TypeOK
<1>0. CASE /\ UNCHANGED <<text, fixes, verified>>
           /\ \/ pc' \in {"finish", "done"}
              \/ /\ pc \in Early \cup {"children", "apply", "continue", "summary", "synthesize"}
                 /\ pc' \in Early \cup {"children", "apply", "continue", "summary", "synthesize"}
              \/ pc' = pc
  BY ONLY <1>t, <1>0 DEF TextInStep, Early
<1>1. \/ UNCHANGED vars \/ AbortStep \/ PlannerAnswers \/ Reconcile \/ PlanAccepted \/ SpawnPlanned
      \/ \E t \in Ids : StartChild(t) \/ FinishChild(t) \/ ApplyChild(t)
      \/ CrewDone \/ ApplyDone \/ Continue \/ Summarize \/ VerifierGivesUp \/ RepairFails \/ Finish
      \/ SynthesizeEmpty /\ UNCHANGED <<pc, text, fixes, verified>>
      => /\ UNCHANGED <<text, fixes, verified>>
         /\ \/ pc' \in {"finish", "done"}
            \/ /\ pc \in Early \cup {"children", "apply", "continue", "summary", "synthesize"}
               /\ pc' \in Early \cup {"children", "apply", "continue", "summary", "synthesize"}
            \/ pc' = pc
  BY DEF vars, AbortStep, PlannerAnswers, Reconcile, PlanAccepted, SpawnPlanned, StartChild, FinishChild,
     ApplyChild, CrewDone, ApplyDone, AfterCrew, Continue, Summarize, VerifierGivesUp, RepairFails, Finish
<1>2. ASSUME RootAnswers \/ TakeContinuation \/ Synthesize  PROVE TextInStep'
  <2>1. /\ pc \in {"root", "synthesize"} /\ UNCHANGED <<fixes, verified>>
        /\ \/ text' \in {0, 1} /\ pc' = "finish"
           \/ text' = 0 /\ pc' = "children"
           \/ text' = 1 /\ pc' = "verify"
    <3>1. CASE RootAnswers
      <4>1. text' \in {0, 1} /\ (text' = 1 => \A t \in Ids : graph'[t] # "linked")
        BY <3>1 DEF RootAnswers, LinkedTasks
      <4>2. pc = "root" /\ UNCHANGED <<fixes, verified>>
        BY <3>1 DEF RootAnswers
      <4>3. pc' = IF \E t \in Ids : graph'[t] = "linked" THEN "children"
                  ELSE IF text' > 0 /\ asks.semantic /\ ~asks.direct THEN "verify" ELSE "finish"
        BY <3>1 DEF RootAnswers
      <4>4. QED BY ONLY <4>1, <4>2, <4>3
    <3>2. CASE TakeContinuation
      BY <3>2 DEF TakeContinuation, WithText
    <3>3. CASE Synthesize
      BY <3>3 DEF Synthesize, WithText
    <3>4. QED BY <1>2, <3>1, <3>2, <3>3
  <2>2. QED BY ONLY <1>t, <2>1 DEF TextInStep, Early
<1>3. CASE VerifierPasses
  BY ONLY <1>3, <1>t DEF VerifierPasses, TextInStep, Early
<1>4. CASE VerifierRejects
  BY ONLY <1>4, <1>t DEF VerifierRejects, TextInStep, Early
<1>5. CASE RepairAnswers
  BY ONLY <1>5, <1>t DEF RepairAnswers, TextInStep, Early
<1>6. QED
  BY ONLY IInv, [Next]_vars, <1>0, <1>1, <1>2, <1>3, <1>4, <1>5, StepKinds

\* The root waits for calls or has a text.
LEMMA CallsStep ==
    ASSUME IInv, [Next]_vars
    PROVE  CallsInStep'
<1> USE DEF IInv, TypeOK, CallsInStep, RootCalls, Early
<1>1. CASE UNCHANGED <<ledger, text>> /\ pc' \in {pc, "finish", "done"}
  BY <1>1
<1>2. CASE PlannerAnswers \/ Reconcile \/ PlanAccepted \/ SpawnPlanned
  BY <1>2 DEF PlannerAnswers, Reconcile, PlanAccepted, SpawnPlanned, TextInStep
<1>3. ASSUME NEW t \in Ids, ApplyChild(t)  PROVE CallsInStep'
  <2>1. pc = "apply" /\ pc' = "apply" /\ text' = text /\ text = 0
    BY <1>3 DEF ApplyChild, TextInStep
  <2>2. QED BY <2>1
<1>4. CASE CrewDone
  BY <1>4 DEF CrewDone, TextInStep
<1>5. CASE ApplyDone
  BY <1>5 DEF ApplyDone, AfterCrew, TextInStep
<1>6. CASE RootAnswers
  <2>1. PICK new \in SUBSET ToolCalls : /\ ledger' = Recorded(new, "root")
                                        /\ text' > 0 => new = {}
    BY <1>6 DEF RootAnswers, RootResponse
  <2>2. \A t \in ToolCalls : ledger[t] = "none"
    BY <1>6 DEF RootAnswers
  <2>3. text' \in {0, 1} /\ pc' \in {"children", "verify", "finish"} /\ (pc' = "verify" => text' > 0)
    BY <1>6 DEF RootAnswers
  <2>4. \A t \in ToolCalls : ledger'[t] = "root" => t \in new
    BY <2>1, <2>2 DEF Recorded
  <2>5. QED BY ONLY <2>1, <2>3, <2>4 DEF CallsInStep, RootCalls, Early
<1>7. CASE Continue
  <2>1. PICK new \in SUBSET ToolCalls : ledger' = Recorded(new, "root") /\ pc' = AfterCrew(new # {})
    BY <1>7 DEF Continue, RootResponse
  <2>2. \A t \in ToolCalls : ledger[t] # "root"
    BY <1>7 DEF Continue
  <2>3. text' = 0
    BY <1>7 DEF Continue, TextInStep
  <2>4. \A t \in ToolCalls : ledger'[t] = "root" => t \in new
    BY <2>1, <2>2 DEF Recorded
  <2>5. pc' \in {"finish", "summary", "synthesize"} /\ (pc' # "finish" => new = {})
    BY <2>1 DEF AfterCrew
  <2>6. QED BY ONLY <2>3, <2>4, <2>5 DEF CallsInStep, RootCalls, Early
<1>8. CASE Summarize
  BY <1>8 DEF Summarize
<1>9. CASE TakeContinuation \/ Synthesize
  <2>1. pc = "synthesize" /\ ledger' = ledger /\ pc' \in {"verify", "finish"}
    BY <1>9 DEF TakeContinuation, Synthesize, WithText
  <2>2. QED BY <2>1
<1>10. CASE VerifierRejects \/ RepairAnswers
  BY <1>10 DEF VerifierRejects, RepairAnswers
<1>11. \/ UNCHANGED vars \/ AbortStep \/ \E t \in Ids : StartChild(t) \/ FinishChild(t)
       \/ SynthesizeEmpty /\ UNCHANGED <<pc, ledger, text>>
       \/ VerifierPasses \/ VerifierGivesUp \/ RepairFails \/ Finish
       => UNCHANGED <<ledger, text>> /\ pc' \in {pc, "finish", "done"}
  BY DEF vars, AbortStep, StartChild, FinishChild, VerifierPasses, VerifierGivesUp, RepairFails, Finish
<1>12. QED
  BY ONLY IInv, [Next]_vars, <1>1, <1>2, <1>3, <1>4, <1>5, <1>6, <1>7, <1>8, <1>9, <1>10, <1>11, StepKinds

-----------------------------------------------------------------------------
(* The end of a run *)

\* A run does not reach its end with a crew, no calls and no text but by the root.
LEMMA AnswerStepKeeps ==
    ASSUME IInv, [Next]_vars
    PROVE  AnswerAtTheEnd'
<1> USE DEF IInv, TypeOK, AnswerAtTheEnd
<1>1. CASE pc' # "finish"
  BY <1>1
<1>2. CASE UNCHANGED <<pc, child, ledger, text, rootText>>
  BY <1>2 DEF Crew, RootCalls
<1>3. CASE ApplyDone
  <2>1. UNCHANGED ledger /\ (pc' = "finish" => RootCalls # {})
    BY <1>3 DEF ApplyDone, AfterCrew
  <2>2. QED BY <2>1 DEF RootCalls
<1>4. CASE RootAnswers
  <2>1. pc' = "finish" => LinkedTasks' = {}
    BY <1>4 DEF RootAnswers, LinkedTasks
  <2>2. QED BY <1>4, <2>1, CrewIsLinked
<1>5. CASE Continue
  <2>1. PICK new \in SUBSET ToolCalls : ledger' = Recorded(new, "root") /\ pc' = AfterCrew(new # {})
    BY <1>5 DEF Continue, RootResponse
  <2>2. pc' = "finish" => new # {}
    BY <2>1 DEF AfterCrew
  <2>3. \A t \in new : ledger'[t] = "root"
    BY <2>1 DEF Recorded
  <2>4. QED BY <2>2, <2>3 DEF RootCalls
<1>6. CASE TakeContinuation
  <2>1. rootText \in {"blank", "text"} /\ rootText' = rootText
    BY <1>6 DEF TakeContinuation
  <2>2. text' = IF rootText = "text" THEN 1 ELSE 0
    BY <1>6 DEF TakeContinuation, WithText
  <2>3. QED BY <2>1, <2>2
<1>7. CASE Synthesize
  BY <1>7 DEF Synthesize, WithText
<1>8. CASE VerifierPasses \/ VerifierGivesUp \/ RepairFails
  <2>1. text > 0 /\ text' = text
    BY <1>8, LimitsAssumption DEF VerifierPasses, VerifierGivesUp, RepairFails, TextInStep
  <2>2. QED BY <2>1
<1>9. \/ UNCHANGED vars
      \/ SynthesizeEmpty /\ UNCHANGED <<pc, child, ledger, text, rootText>>
      => UNCHANGED <<pc, child, ledger, text, rootText>>
  BY DEF vars
<1>10. \/ AbortStep \/ PlannerAnswers \/ Reconcile \/ PlanAccepted \/ SpawnPlanned
       \/ \E t \in Ids : StartChild(t) \/ FinishChild(t) \/ ApplyChild(t)
       \/ CrewDone \/ Summarize \/ VerifierRejects \/ RepairAnswers \/ Finish
       => pc' # "finish"
  BY DEF AbortStep, PlannerAnswers, Reconcile, PlanAccepted, SpawnPlanned, StartChild, FinishChild,
     ApplyChild, CrewDone, Summarize, VerifierRejects, RepairAnswers, Finish
<1>11. QED
  BY ONLY IInv, [Next]_vars, <1>1, <1>2, <1>3, <1>4, <1>5, <1>6, <1>7, <1>8, <1>9, <1>10, StepKinds

\* Nothing but the end of the run reports.
LEMMA NoReportOnTheWay ==
    ASSUME IInv, [Next]_vars
    PROVE  \/ Finish \/ AbortStep \/ UNCHANGED vars
           \/ pc # "done" /\ pc' # "done" /\ report = NoReport /\ report' = NoReport
<1>1. \/ Finish \/ AbortStep \/ UNCHANGED vars \/ (pc # "done" /\ pc' # "done" /\ report' = report)
  BY StepKinds DEF PlannerAnswers, Reconcile, PlanAccepted, SpawnPlanned, StartChild, FinishChild,
     ApplyChild, CrewDone, ApplyDone, AfterCrew, RootAnswers, Continue, Summarize, TakeContinuation,
     Synthesize, WithText, SynthesizeEmpty, VerifierPasses, VerifierRejects, VerifierGivesUp,
     RepairAnswers, RepairFails
<1>2. pc # "done" => report = NoReport
  BY DEF IInv, ReportAtTheEnd
<1>3. QED BY <1>1, <1>2

\* The report is made once, and what it says was so when it was made.
LEMMA ReportStep ==
    ASSUME IInv, [Next]_vars
    PROVE  ReportAtTheEnd' /\ NoPartialCrew' /\ EmptyOnlyFromRoot'
<1>1. CASE Finish
  <2>1. /\ report'.outcome = "ok" /\ report'.calls = RootCalls
        /\ report'.passed = (RootCalls = {} /\ (Verifiable => verified > 0))
        /\ pc = "finish" /\ pc' = "done"
        /\ UNCHANGED <<asks, child, ledger, rootText, text, verified>>
    BY <1>1 DEF Finish
  <2>2. Crew' = Crew /\ RootCalls' = RootCalls /\ Verifiable' = Verifiable
    BY <2>1 DEF Crew, RootCalls, Verifiable
  <2>3. ReportAtTheEnd'
    BY <2>1, <2>2 DEF ReportAtTheEnd
  <2>4. NoPartialCrew'
    BY <2>1, <2>2 DEF NoPartialCrew, Crew, IInv, ChildrenInStep, Late
  <2>5. EmptyOnlyFromRoot'
    BY <2>1, <2>2 DEF EmptyOnlyFromRoot, IInv, AnswerAtTheEnd
  <2>6. QED BY <2>3, <2>4, <2>5
<1>2. CASE AbortStep
  <2>1. report = NoReport
    BY <1>2 DEF AbortStep, IInv, ReportAtTheEnd
  <2>2. pc' = "done" /\ report'.outcome # "ok"
    BY <1>2, <2>1 DEF AbortStep, NoReport
  <2>3. QED BY <2>2 DEF ReportAtTheEnd, NoPartialCrew, EmptyOnlyFromRoot
<1>3. CASE UNCHANGED vars
  BY <1>3 DEF vars, IInv, ReportAtTheEnd, NoPartialCrew, EmptyOnlyFromRoot, Crew, RootCalls, Verifiable
<1>4. CASE pc # "done" /\ pc' # "done" /\ report = NoReport /\ report' = NoReport
  BY <1>4 DEF ReportAtTheEnd, NoPartialCrew, EmptyOnlyFromRoot, NoReport
<1>5. QED BY <1>1, <1>2, <1>3, <1>4, NoReportOnTheWay

-----------------------------------------------------------------------------
(* The invariant *)

\* It holds before the first call of a model.
LEMMA InitInv == Init => IInv
<1> SUFFICES ASSUME Init  PROVE IInv
  OBVIOUS
<1> USE LimitsAssumption DEF Init
<1>1. TypeOK /\ PlanTyped
  BY DEF TypeOK, PlanTyped, NoPlan, NoReport, ChildStates
<1>2. PlanIsFull /\ ChildrenInStep /\ TextInStep
  BY DEF PlanIsFull, ChildrenInStep, TextInStep, Early, Late
<1>3. RootIsAlone /\ FullCrew
  BY DEF RootIsAlone, FullCrew, LinkedTasks, NoPlan
<1>4. Crew = {} /\ ChildrenIn("running") = {} /\ RootCalls = {}
  BY DEF Crew, ChildrenIn, RootCalls
<1>5. CrewIsBounded
  BY <1>4, FS_EmptySet DEF CrewIsBounded, CrewWithinLimits
<1>6. CallsInStep /\ AnswerAtTheEnd /\ NoPartialCrew /\ EmptyOnlyFromRoot /\ ReportAtTheEnd
  BY <1>4 DEF CallsInStep, AnswerAtTheEnd, NoPartialCrew, EmptyOnlyFromRoot, ReportAtTheEnd, NoReport,
     Early
<1>7. QED BY <1>1, <1>2, <1>3, <1>5, <1>6 DEF IInv

\* Every step keeps it.
LEMMA InvStep == IInv /\ [Next]_vars => IInv'
<1> SUFFICES ASSUME IInv, [Next]_vars  PROVE IInv'
  OBVIOUS
<1>1. TypeOK' /\ PlanTyped'
  BY TypeStep DEF IInv
<1>2. QED
  BY <1>1, PlanStep, RootStep, BoundStep, FullStep, ChildrenStep, TextStep, CallsStep, AnswerStepKeeps,
     ReportStep DEF IInv

\* So it holds all along.
LEMMA Invariance == Spec => []IInv
BY InitInv, InvStep, PTL DEF Spec

-----------------------------------------------------------------------------
(* The theorems *)

\* The state of a run keeps its types and bounds.
THEOREM TypeCorrect == Spec => []TypeOK
<1>1. IInv => TypeOK
  BY DEF IInv
<1>2. QED BY <1>1, Invariance, PTL

\* The crew that runs is the crew of the effort: never more agents than it, exactly
\* as many for a clean plan, and no more with the provider at once than the
\* parallel limit (reconcile_planner_response, bounded_parallel_agents).
THEOREM CrewIsTheEffort == Spec => []CrewOfTheEffort
<1>1. IInv => CrewOfTheEffort
  BY DEF IInv, CrewOfTheEffort, CrewIsBounded
<1>2. QED BY <1>1, Invariance, PTL

\* A success has the work of every agent of the crew (run_child_agents and the loop
\* that applies the responses).
THEOREM NothingLeftOut == Spec => []NoPartialCrew
<1>1. IInv => NoPartialCrew
  BY DEF IInv
<1>2. QED BY <1>1, Invariance, PTL

\* A success says what happened: an empty answer is the root's own blank one, and
\* what passes as verified is the very text that is returned
\* (run_semantic_verification, RunReport).
THEOREM ReportAlwaysTrue == Spec => []ReportIsTrue
<1>1. IInv => ReportIsTrue
  <2> SUFFICES ASSUME IInv  PROVE PassedMeansVerified
    BY DEF IInv, ReportIsTrue
  <2> SUFFICES ASSUME report.outcome = "ok"
               PROVE  /\ report.calls # {} => text = 0 /\ ~report.passed
                      /\ report.passed /\ Verifiable => verified = text
    BY DEF PassedMeansVerified
  <2>1. /\ report.calls = RootCalls
        /\ report.passed => RootCalls = {} /\ (Verifiable => verified > 0)
    BY DEF IInv, ReportAtTheEnd
  <2>2. RootCalls # {} => text = 0
    BY DEF IInv, CallsInStep
  <2>3. verified \in {0, text}
    BY DEF IInv, TextInStep
  <2>4. QED BY <2>1, <2>2, <2>3
<1>2. QED BY <1>1, Invariance, PTL

-----------------------------------------------------------------------------
(* Second part: the parameters of a request.                               *)

\* The body is one that the direct path or a call of the kernel makes of the request.
Sent ==
    \/ body = NoBody
    \/ /\ stage = "direct" /\ CanBeDirect(request)
       /\ body = IF request.backend = "anthropic" THEN DirectAnthropicBody(request)
                 ELSE DirectOpenAiBody(request)
    \/ /\ stage = "kernel" /\ Accepted(request)
       /\ \E role \in Roles :
             LET options == [ProviderOptions(request) EXCEPT
                                !.extra = RoleOptions(role, @, request.ample)]
             IN  body = IF request.backend = "anthropic" THEN AnthropicBody(request, role, options)
                        ELSE OpenAiBody(request, role, options)

\* The invariant that the properties of RequestOptions follow from.
OptionsInv ==
    /\ request \in Requests
    /\ stage \in {"received", "refused", "direct", "kernel"}
    /\ stage = "kernel" => Accepted(request)
    /\ stage \in {"received", "refused"} => body = NoBody
    /\ Sent

\* Every body is made of the one request that came in, by a call of its own path,
\* and the kernel only runs for a choice that was accepted.
THEOREM OptionsInvariance == OptionsSpec => []OptionsInv
<1>1. OptionsInit => OptionsInv
  BY DEF OptionsInit, OptionsInv, Sent
<1>2. OptionsInv /\ [OptionsNext]_optionsVars => OptionsInv'
  <2> SUFFICES ASSUME OptionsInv, [OptionsNext]_optionsVars PROVE OptionsInv'
    OBVIOUS
  <2>1. CASE RefuseFields \/ RefuseDirect \/ RefuseChoice
    BY <2>1 DEF OptionsInv, Sent, RefuseFields, RefuseDirect, RefuseChoice
  <2>2. CASE SendDirect
    BY <2>2 DEF OptionsInv, Sent, SendDirect
  <2>3. CASE StartKernel
    BY <2>3 DEF OptionsInv, Sent, StartKernel
  <2>4. ASSUME NEW role \in Roles, Call(role) PROVE OptionsInv'
    BY <2>4 DEF OptionsInv, Sent, Call
  <2>5. CASE UNCHANGED optionsVars
    BY <2>5 DEF OptionsInv, Sent, optionsVars
  <2>6. QED
    BY <2>1, <2>2, <2>3, <2>4, <2>5 DEF OptionsNext
<1>3. QED
  BY <1>1, <1>2, PTL DEF OptionsSpec

\* The gateway takes thinking that the client turns off for off.
LEMMA TurnedOffIsOff ==
    ASSUME TurnedOff(request)
    PROVE  ~ThinkingEnabled(request)
BY DEF TurnedOff, Switches, ThinkingEnabled, ChatThinking, MessagesThinking, Says

\* What a setting says that is left of others, or written over them.
LEMMA OnlyKeeps ==
    ASSUME NEW settings, NEW names
    PROVE  /\ DOMAIN Only(settings, names) = DOMAIN settings \cap names
           /\ \A s \in DOMAIN settings \cap names : Only(settings, names)[s] = settings[s]
BY DEF Only

LEMMA OverKeeps ==
    ASSUME NEW written, NEW settings, NEW s \in DOMAIN Over(written, settings)
    PROVE  \/ s \in DOMAIN written /\ Over(written, settings)[s] = written[s]
           \/ s \in DOMAIN settings /\ Over(written, settings)[s] = settings[s]
BY DEF Over

LEMMA SettingSays ==
    ASSUME NEW name, NEW value
    PROVE  DOMAIN Setting(name, value) = {name} /\ Setting(name, value)[name] = value
BY DEF Setting

LEMMA NothingIsSet == DOMAIN NoOptions = {}
BY DEF NoOptions

\* What the property says of the settings in a body.
SaysOnOnlyItself(thinking, theirs) ==
    \A s \in DOMAIN thinking : thinking[s] = "on" => SaysOnItself(request, s, theirs)

\* In a call of the kernel only the client's own settings are on.
LEMMA KernelAddsNoThinking ==
    ASSUME TurnedOff(request)
    PROVE  /\ SaysOnOnlyItself(AnthropicThinking(request), OwnSettings(request))
           /\ SaysOnOnlyItself(OpenAiThinking(request), OwnSettings(request))
<1> DEFINE own == Only(request.thinking, OwnSettings(request))
<1>1. ~ThinkingEnabled(request)
  BY TurnedOffIsOff
<1>2. SaysOnOnlyItself(own, OwnSettings(request))
  <2>1. /\ DOMAIN own = DOMAIN request.thinking \cap OwnSettings(request)
        /\ \A s \in DOMAIN request.thinking \cap OwnSettings(request) : own[s] = request.thinking[s]
    BY OnlyKeeps
  <2> HIDE DEF own
  <2>2. QED BY <2>1 DEF SaysOnOnlyItself, SaysOnItself
<1>3. AnthropicThinking(request) = own
  BY <1>1 DEF AnthropicThinking
<1>4. ASSUME NEW written, OpenAiThinking(request) = Over(written, own),
             \A s \in DOMAIN written : written[s] = "off"
      PROVE  SaysOnOnlyItself(OpenAiThinking(request), OwnSettings(request))
  <2> HIDE DEF own
  <2>1. ASSUME NEW s \in DOMAIN Over(written, own), Over(written, own)[s] = "on"
        PROVE  SaysOnItself(request, s, OwnSettings(request))
    <3>1. \/ s \in DOMAIN written /\ Over(written, own)[s] = written[s]
          \/ s \in DOMAIN own /\ Over(written, own)[s] = own[s]
      BY OverKeeps
    <3>2. s \in DOMAIN own /\ own[s] = "on"
      BY <1>4, <2>1, <3>1
    <3>3. QED BY <1>2, <3>2 DEF SaysOnOnlyItself
  <2>2. QED BY <1>4, <2>1 DEF SaysOnOnlyItself
<1>5. CASE request.backend = "gemma"
  <2>1. OpenAiThinking(request) = Over(NoOptions, own)
    BY <1>1, <1>5 DEF OpenAiThinking
  <2>2. QED BY <1>2, <1>3, <1>4, <2>1, NothingIsSet
<1>6. CASE request.backend # "gemma"
  <2> DEFINE written == Setting("chat_template_kwargs.enable_thinking", "off")
  <2>1. OpenAiThinking(request) = Over(written, own)
    BY <1>1, <1>6 DEF OpenAiThinking, OnOff
  <2>2. \A s \in DOMAIN written : written[s] = "off"
    BY DEF Setting
  <2>3. QED BY <1>2, <1>3, <1>4, <2>1, <2>2
<1>7. QED BY <1>5, <1>6

\* The direct path adds nothing but the token of the Gemma models.
LEMMA DirectAddsNoThinking ==
    ASSUME NEW s \in DOMAIN DirectThinking(request), DirectThinking(request)[s] = "on"
    PROVE  \/ SaysOnItself(request, s, DOMAIN request.thinking)
           \/ request.backend = "gemma" /\ s = "token"
<1> DEFINE settings == DirectSettings(request)
           token == Setting("token", "on")
<1>1. /\ DOMAIN settings \subseteq DOMAIN request.thinking
      /\ \A t \in DOMAIN settings : settings[t] = request.thinking[t]
  BY DEF DirectSettings, Only
<1>2. DirectThinking(request) = IF request.backend = "gemma" THEN Over(token, settings) ELSE settings
  BY DEF DirectThinking
<1>3. DOMAIN token = {"token"}
  BY SettingSays
<1> HIDE DEF settings, token
<1>4. \/ request.backend = "gemma" /\ s = "token"
      \/ s \in DOMAIN settings /\ DirectThinking(request)[s] = settings[s]
  BY <1>2, <1>3, OverKeeps
<1>5. QED BY <1>1, <1>4 DEF SaysOnItself

\* Thinking that the client turns off is turned on by the gateway in no call of the
\* kernel, and on the direct path only by the token of the Gemma models; a setting
\* that says "on" is the client's own.
THEOREM ThinkingStaysOff == OptionsSpec => []ThinkingOffIsOff
<1>1. OptionsInv => ThinkingOffIsOff
  <2> SUFFICES ASSUME OptionsInv, TurnedOff(request), NEW s \in DOMAIN body.thinking,
                      body.thinking[s] = "on"
               PROVE  \/ SaysOnItself(request, s, IF body.role = "direct" THEN DOMAIN request.thinking
                                                  ELSE OwnSettings(request))
                      \/ body.role = "direct" /\ request.backend = "gemma" /\ s = "token"
    BY DEF ThinkingOffIsOff
  <2>1. CASE body = NoBody
    BY <2>1, NothingIsSet DEF NoBody, Body
  <2>2. CASE body = DirectAnthropicBody(request)
    <3>1. body.role = "direct" /\ body.thinking = DirectSettings(request)
      BY <2>2 DEF DirectAnthropicBody, Body
    <3>2. QED BY <3>1 DEF DirectSettings, Only, SaysOnItself
  <2>3. CASE body = DirectOpenAiBody(request)
    <3>1. body.role = "direct" /\ body.thinking = DirectThinking(request)
      BY <2>3 DEF DirectOpenAiBody, Body
    <3>2. QED BY <3>1, DirectAddsNoThinking
  <2>4. ASSUME NEW role \in Roles, NEW options,
               \/ body = AnthropicBody(request, role, options)
               \/ body = OpenAiBody(request, role, options)
        PROVE  SaysOnItself(request, s, OwnSettings(request)) /\ body.role # "direct"
    <3>1. /\ body.role = role
          /\ body.thinking \in {AnthropicThinking(request), OpenAiThinking(request)}
      BY <2>4 DEF AnthropicBody, OpenAiBody, Body
    <3>2. role # "direct"
      BY DEF Roles, RootRoles
    <3>3. QED BY <3>1, <3>2, KernelAddsNoThinking DEF SaysOnOnlyItself
  <2>5. QED
    BY <2>1, <2>2, <2>3, <2>4 DEF OptionsInv, Sent
<1>2. QED
  BY <1>1, OptionsInvariance, PTL

-----------------------------------------------------------------------------
\* What the normal form makes of a choice that is accepted, and of the tools.
ForcesTool(choice, tools) ==
    LET c == request.choice
    IN  /\ c.kind \in {"function", "tool", "custom"} /\ c.name \in request.tools =>
              \/ choice.kind = "named" /\ choice.name = c.name /\ c.name \in tools
              \/ choice.kind = "required" /\ tools = {c.name}
        /\ c.kind \in {"required", "any"} => choice.kind = "required" /\ tools = request.tools
        /\ c.kind = "none" => choice.kind = "none"

\* A choice that the normal form accepts forces what the client forces.
LEMMA NormalForces ==
    ASSUME Accepted(request)
    PROVE  ForcesTool(NormalChoice(request), AskedTools(request))
<1> USE DEF ForcesTool, Accepted, NormalChoice, AskedTools, Refused, Choice
<1>0. ValidChoice(NormalChoice(request), AskedTools(request)) => NormalChoice(request) # Refused
  BY DEF ValidChoice
<1>1. CASE request.api = "messages"
  BY <1>0, <1>1 DEF MessagesChoice, NamedOr
<1>2. CASE request.api # "messages" /\ request.older
  BY <1>0, <1>2 DEF EffectiveChoice, FunctionCallChoice, NamedOr, ResponsesTools
<1>3. CASE request.api # "messages" /\ ~request.older /\ request.api # "responses"
  BY <1>0, <1>3 DEF EffectiveChoice, ChatChoice, NamedOr, AskedChoice
<1>4. CASE request.api = "responses" /\ ~request.older
  BY <1>0, <1>4 DEF EffectiveChoice, ChatChoice, NamedOr, AskedChoice, ResponsesTools, ResponsesChoice
<1>5. QED BY <1>1, <1>2, <1>3, <1>4

\* The same of what is sent, as ForcedToolIsForced says it.
SentForced(choice, tools) ==
    LET c == request.choice
    IN  /\ c.kind \in {"function", "tool", "custom"} /\ c.name \in request.tools =>
              \/ choice.kind \in {"named", c.kind} /\ choice.name = c.name /\ c.name \in tools
              \/ choice.kind = "required" /\ tools = {c.name}
        /\ c.kind \in {"required", "any"} =>
              choice.kind \in {"required", c.kind} /\ tools = request.tools
        /\ c.kind = "none" => choice.kind = "none" \/ tools = {}

\* Anthropic's form of a choice forces the same while nothing thinks.
LEMMA AnthropicForces ==
    ASSUME NEW choice, NEW tools, NEW thinking, ~thinking, ForcesTool(choice, tools),
           choice.kind = "required" => tools # {}
    PROVE  SentForced(NoChoiceWithoutTools(tools, AnthropicChoice(choice, thinking)), tools)
<1> DEFINE sent == NoChoiceWithoutTools(tools, AnthropicChoice(choice, thinking))
<1> SUFFICES SentForced(sent, tools)
  OBVIOUS
<1>1. choice.kind \in {"required", "named", "none"} /\ tools # {} => sent = choice
  BY DEF NoChoiceWithoutTools, AnthropicChoice
<1> HIDE DEF sent
<1>2. QED BY <1>1 DEF SentForced, ForcesTool

\* So does OpenAI's form, by the list of tools where the server knows no names.
LEMMA OpenAiForces ==
    ASSUME NEW choice, NEW tools, ForcesTool(choice, tools),
           choice.kind = "required" => tools # {}
    PROVE  SentForced(NoChoiceWithoutTools(OpenAiTools(request, tools, choice),
                                           OpenAiChoice(request, choice)),
                      OpenAiTools(request, tools, choice))
<1> DEFINE offered == OpenAiTools(request, tools, choice)
           sent == NoChoiceWithoutTools(offered, OpenAiChoice(request, choice))
<1> SUFFICES SentForced(sent, offered)
  OBVIOUS
<1>1. CASE AdaptsChoice(request, choice)
  <2>1. choice.kind = "named" /\ offered = tools \cap {choice.name}
    BY <1>1 DEF OpenAiTools, AdaptsChoice
  <2>2. offered # {} => sent.kind = "required"
    BY <1>1 DEF NoChoiceWithoutTools, OpenAiChoice, Choice
  <2> HIDE DEF sent, offered
  <2>3. QED BY <2>1, <2>2 DEF SentForced, ForcesTool
<1>2. CASE ~AdaptsChoice(request, choice)
  <2>1. offered = tools
    BY <1>2 DEF OpenAiTools
  <2>2. tools # {} => sent = choice
    BY <1>2, <2>1 DEF NoChoiceWithoutTools, OpenAiChoice
  <2> HIDE DEF sent, offered
  <2>3. QED BY <2>1, <2>2 DEF SentForced, ForcesTool
<1>3. QED BY <1>1, <1>2

\* A call of the kernel is forced as the client asked.
LEMMA ForcedByKernel ==
    ASSUME NEW role \in Roles, NEW options, Accepted(request),
           body = IF request.backend = "anthropic" THEN AnthropicBody(request, role, options)
                  ELSE OpenAiBody(request, role, options)
    PROVE  ForcedToolIsForced
<1> DEFINE choice == NormalChoice(request)
           tools == AskedTools(request)
<1>1. body.role = role /\ role # "direct"
  BY DEF AnthropicBody, OpenAiBody, Body, Roles, RootRoles
<1>2. CASE role \notin RootRoles
  BY <1>1, <1>2 DEF ForcedToolIsForced
<1>3. CASE role \in RootRoles
  <2>1. ForcesTool(choice, tools) /\ RoleTools(request, role) = tools /\ RoleChoice(request, role) = choice
    BY <1>3, NormalForces DEF RoleTools, RoleChoice
  <2>2. choice.kind = "required" => tools # {}
    BY DEF Accepted, ValidChoice
  <2> HIDE DEF choice, tools
  <2>3. \/ request.backend = "anthropic" /\ ThinkingEnabled(request)
        \/ SentForced(body.choice, body.tools)
    <3>1. CASE request.backend = "anthropic" /\ ~ThinkingEnabled(request)
      <4>1. /\ body.tools = tools
            /\ body.choice = NoChoiceWithoutTools(tools, AnthropicChoice(choice, ThinkingEnabled(request)))
        BY <2>1, <3>1 DEF AnthropicBody, Body
      <4>2. QED BY <2>1, <2>2, <3>1, <4>1, AnthropicForces
    <3>2. CASE request.backend # "anthropic"
      <4>1. /\ body.tools = OpenAiTools(request, tools, choice)
            /\ body.choice = NoChoiceWithoutTools(OpenAiTools(request, tools, choice),
                                                  OpenAiChoice(request, choice))
        BY <2>1, <3>2 DEF OpenAiBody, Body
      <4>2. QED BY <2>1, <2>2, <4>1, OpenAiForces
    <3>3. QED BY <3>1, <3>2
  <2>4. QED BY <1>1, <2>3 DEF ForcedToolIsForced, SentForced
<1>4. QED BY <1>2, <1>3

\* So is a call of the direct path.
LEMMA ForcedDirectly ==
    ASSUME request \in Requests, CanBeDirect(request),
           body = IF request.backend = "anthropic" THEN DirectAnthropicBody(request)
                  ELSE DirectOpenAiBody(request)
    PROVE  ForcedToolIsForced
<1>1. CASE request.backend = "anthropic"
  BY <1>1 DEF ForcedToolIsForced, DirectAnthropicBody, Body
<1>2. CASE request.backend # "anthropic"
  <2>1. body.tools = DirectTools(request) /\ body.choice = DirectChoice(request)
    BY <1>2 DEF DirectOpenAiBody, Body
  <2>2. CASE request.api = "responses"
    <3>1. ~request.older
      BY <2>2, RequestsAssumption
    <3>2. QED
      BY <1>2, <2>1, <2>2, <3>1 DEF ForcedToolIsForced, DirectTools, DirectChoice, IsNamed, AskedTools,
         AskedChoice, ResponsesTools, ResponsesChoice, Choice
  <2>3. CASE request.api # "responses"
    BY <1>2, <2>1, <2>3 DEF ForcedToolIsForced, DirectTools, DirectChoice, IsNamed, AskedTools,
       AskedChoice, Choice
  <2>4. QED BY <2>2, <2>3
<1>3. QED BY <1>1, <1>2

\* A tool that the client forces is the only one that the provider may call.
THEOREM ForcedToolStaysForced == OptionsSpec => []ForcedToolIsForced
<1>1. OptionsInv => ForcedToolIsForced
  <2> SUFFICES ASSUME OptionsInv PROVE ForcedToolIsForced
    OBVIOUS
  <2>1. CASE body = NoBody
    BY <2>1 DEF ForcedToolIsForced, NoBody, Body, RootRoles
  <2>2. QED
    BY <2>1, ForcedByKernel, ForcedDirectly DEF OptionsInv, Sent
<1>2. QED
  BY <1>1, OptionsInvariance, PTL

-----------------------------------------------------------------------------
\* What the client set for the model is among the options of a body.
Arrives(options) ==
    /\ \A n \in request.extra \ (Consumed(request) \cup Core(request)) :
          /\ SentAs(request, n) \in DOMAIN options.extra
          /\ options.extra[SentAs(request, n)] = "client"
    /\ {"user_id"} \cap request.metadata \subseteq options.metadata
    /\ request.api # "messages" => request.reasoning \subseteq options.reasoning

\* What is the gateway's is not.
GatewayNames ==
    {"reasoning_effort", "include_reasoning"}
    \cup (IF request.api = "responses" THEN {"truncation", "max_output_tokens"} ELSE {})

KeepsItsOwn(options) ==
    /\ GatewayNames \cap DOMAIN options.extra = {}
    /\ "effort" \notin options.reasoning
    /\ options.metadata \cap {"tenant_id", "session_id", "request_id"} = {}

\* None of the names that an adapter, the gateway and the renaming of the Responses
\* have in store are the same.
LEMMA NamesApart ==
    /\ Core(request) \cap {"max_tokens", "response_format"} = {}
    /\ GatewayNames \cap Core(request) = {}
    /\ GatewayNames \cap {"max_tokens", "response_format"} = {}
    /\ "user_id" \notin GatewayMetadata
    /\ {"tenant_id", "session_id", "request_id"} \subseteq GatewayMetadata
    /\ {"reasoning_effort", "include_reasoning"} \subseteq GatewayExtra
BY DEF Core, AnthropicCore, OpenAiCore, GatewayNames, GatewayMetadata, GatewayExtra

\* The options as the client gave them.
LEMMA GivenIsClients ==
    ASSUME NEW names
    PROVE  DOMAIN Given(names) = names /\ \A n \in names : Given(names)[n] = "client"
BY DEF Given

\* The Responses rename two options, drop the gateway's and keep the others.
LEMMA ResponsesNames ==
    ASSUME request.api = "responses"
    PROVE  /\ \A n \in request.extra \ (Consumed(request) \cup Core(request)) :
                 SentAs(request, n) \in DOMAIN ResponsesOptions(request)
           /\ \A n \in DOMAIN ResponsesOptions(request) : ResponsesOptions(request)[n] = "client"
           /\ GatewayNames \cap DOMAIN ResponsesOptions(request) = {}
<1> DEFINE names == (Extra(request) \ (ResponsesOnly \cup GatewayExtra \cup {"max_output_tokens"}))
                    \cup (IF "max_output_tokens" \in request.extra THEN {"max_tokens"} ELSE {})
                    \cup (IF "text" \in request.extra THEN {"response_format"} ELSE {})
<1>1. /\ DOMAIN ResponsesOptions(request) = names
      /\ \A n \in names : ResponsesOptions(request)[n] = "client"
  BY GivenIsClients DEF ResponsesOptions
<1>2. ASSUME NEW n \in request.extra, n \notin Consumed(request)
      PROVE  SentAs(request, n) \in names
  <2>1. CASE n = "max_output_tokens"
    BY <2>1 DEF SentAs
  <2>2. CASE n = "text"
    BY <2>2 DEF SentAs
  <2>3. CASE n # "max_output_tokens" /\ n # "text"
    <3>1. SentAs(request, n) = n
      BY <2>3 DEF SentAs
    <3>2. n \notin GatewayExtra /\ n \notin ResponsesOnly
      BY <1>2, <2>3 DEF Consumed
    <3>3. QED BY <2>3, <3>1, <3>2 DEF Extra
  <2>4. QED BY <2>1, <2>2, <2>3
<1>3. GatewayNames \subseteq GatewayExtra \cup ResponsesOnly \cup {"max_output_tokens"}
  BY DEF GatewayNames, GatewayExtra, ResponsesOnly
<1>4. QED BY <1>1, <1>2, <1>3, NamesApart

\* The other APIs drop the gateway's and keep the others.
LEMMA OtherNames ==
    ASSUME request.api # "responses", NEW names,
           names = Extra(request) \ GatewayExtra
    PROVE  /\ \A n \in request.extra \ (Consumed(request) \cup Core(request)) :
                 SentAs(request, n) \in names
           /\ GatewayNames \cap names = {}
BY DEF Extra, Consumed, SentAs, GatewayNames, GatewayExtra

\* Either way a table of options with these parts arrives and keeps its own.
LEMMA PartsArrive ==
    ASSUME NEW options,
           options.metadata = request.metadata \ GatewayMetadata,
           \A n \in request.extra \ (Consumed(request) \cup Core(request)) :
              SentAs(request, n) \in DOMAIN options.extra,
           \A n \in DOMAIN options.extra : options.extra[n] = "client",
           GatewayNames \cap DOMAIN options.extra = {},
           "effort" \notin options.reasoning,
           request.api # "messages" => request.reasoning \subseteq options.reasoning
    PROVE  Arrives(options) /\ KeepsItsOwn(options)
BY NamesApart DEF Arrives, KeepsItsOwn

\* The options of the normal form.
LEMMA NormalArrives ==
    ASSUME request \in Requests
    PROVE  Arrives(ProviderOptions(request)) /\ KeepsItsOwn(ProviderOptions(request))
<1> DEFINE options == ProviderOptions(request)
<1>1. /\ options.metadata = request.metadata \ GatewayMetadata
      /\ options.reasoning = IF request.api = "messages" THEN {}
                             ELSE Reasoning(request) \ {"effort"}
      /\ request.api = "responses" => options.extra = ResponsesOptions(request)
      /\ request.api # "responses" => options.extra = Given(Extra(request) \ GatewayExtra)
  BY RequestsAssumption
  DEF ProviderOptions, SanitizedMetadata, SanitizedReasoning, ChatOptions, MessagesOptions
<1>2. "effort" \notin request.reasoning /\ request.reasoning \subseteq Reasoning(request)
  BY RequestsAssumption DEF Reasoning
<1> SUFFICES Arrives(options) /\ KeepsItsOwn(options)
  OBVIOUS
<1> HIDE DEF options
<1>3. /\ \A n \in request.extra \ (Consumed(request) \cup Core(request)) :
            SentAs(request, n) \in DOMAIN options.extra
      /\ \A n \in DOMAIN options.extra : options.extra[n] = "client"
      /\ GatewayNames \cap DOMAIN options.extra = {}
  <2>1. CASE request.api = "responses"
    BY <1>1, <2>1, ResponsesNames
  <2>2. CASE request.api # "responses"
    <3>1. /\ DOMAIN options.extra = Extra(request) \ GatewayExtra
          /\ \A n \in DOMAIN options.extra : options.extra[n] = "client"
      BY <1>1, <2>2, GivenIsClients
    <3>2. QED BY <2>2, <3>1, OtherNames
  <2>3. QED BY <2>1, <2>2
<1>4. /\ "effort" \notin options.reasoning
      /\ request.api # "messages" => request.reasoning \subseteq options.reasoning
  BY <1>1, <1>2
<1>5. QED BY <1>1, <1>3, <1>4, PartsArrive

\* The options of the direct path.
LEMMA DirectArrives ==
    ASSUME request \in Requests
    PROVE  Arrives(DirectOptions(request)) /\ KeepsItsOwn(DirectOptions(request))
<1> DEFINE options == DirectOptions(request)
           given == IF request.api = "responses" THEN ResponsesOptions(request)
                    ELSE Given(Extra(request))
<1>1. /\ options.metadata = request.metadata \ GatewayMetadata
      /\ options.reasoning = Reasoning(request) \ {"effort"}
      /\ options.extra = Without(Without(given, {"reasoning_effort"}),
                                 GatewayExtra \ {"reasoning_effort"})
  BY DEF DirectOptions, StripPublicReasoning, StripEffort, StripMetadata
<1>2. "effort" \notin request.reasoning /\ request.reasoning \subseteq Reasoning(request)
  BY RequestsAssumption DEF Reasoning
<1>3. /\ request.api = "responses" => given = ResponsesOptions(request)
      /\ request.api # "responses" => given = Given(Extra(request))
  OBVIOUS
<1> SUFFICES Arrives(options) /\ KeepsItsOwn(options)
  OBVIOUS
<1> HIDE DEF options, given
<1>4. /\ DOMAIN options.extra = DOMAIN given \ GatewayExtra
      /\ \A n \in DOMAIN options.extra : options.extra[n] = given[n]
  BY <1>1, NamesApart DEF Without
<1>5. /\ \A n \in request.extra \ (Consumed(request) \cup Core(request)) :
            SentAs(request, n) \in DOMAIN options.extra
      /\ \A n \in DOMAIN options.extra : options.extra[n] = "client"
      /\ GatewayNames \cap DOMAIN options.extra = {}
  <2>1. CASE request.api = "responses"
    <3>1. \A n \in request.extra \ (Consumed(request) \cup Core(request)) :
             SentAs(request, n) \notin GatewayExtra
      BY DEF SentAs, Consumed, GatewayExtra
    <3>2. QED BY <1>3, <1>4, <2>1, <3>1, ResponsesNames
  <2>2. CASE request.api # "responses"
    <3>1. /\ DOMAIN options.extra = Extra(request) \ GatewayExtra
          /\ \A n \in DOMAIN options.extra : options.extra[n] = "client"
      BY <1>3, <1>4, <2>2, GivenIsClients
    <3>2. QED BY <2>2, <3>1, OtherNames
  <2>3. QED BY <2>1, <2>2
<1>6. /\ "effort" \notin options.reasoning
      /\ request.api # "messages" => request.reasoning \subseteq options.reasoning
  BY <1>1, <1>2
<1>7. QED BY <1>1, <1>5, <1>6, PartsArrive

-----------------------------------------------------------------------------
\* What a call of the kernel adds to the options of the client, and what it takes away.
KernelNames == LimitKeys \cup {"temperature", "response_format"}
Uncut(extra, ample) ==
    /\ DOMAIN extra \cap {"stop", "stopping_strings"} = {}
    /\ DOMAIN extra \cap LimitKeys # {}
    /\ \A n \in DOMAIN extra \cap LimitKeys : extra[n] = "floor" \/ n \in ample

\* What the kernel adds is nobody else's, and no stop of any format.
LEMMA KernelNamesApart ==
    /\ KernelNames \cap GatewayNames = {}
    /\ KernelNames \cap Core(request) = {}
    /\ LimitKeys \cap {"stop", "stopping_strings", "temperature", "response_format"} = {}
    /\ {"stop", "stopping_strings"} \cap {"temperature", "response_format"} = {}
    /\ "stop_sequences" \notin KernelNames
    /\ "max_tokens" \in LimitKeys
BY DEF KernelNames, LimitKeys, GatewayNames, Core, AnthropicCore, OpenAiCore

\* With a floor there is a cap, and every cap is the floor or was ample.
LEMMA FloorIsLaid ==
    ASSUME NEW extra, NEW ample
    PROVE  /\ DOMAIN WithFloor(extra, ample) \cap LimitKeys # {}
           /\ DOMAIN WithFloor(extra, ample) \subseteq DOMAIN extra \cup LimitKeys
           /\ \A n \in DOMAIN WithFloor(extra, ample) \cap LimitKeys :
                 WithFloor(extra, ample)[n] = "floor" \/ n \in ample
<1> DEFINE capped == DOMAIN extra \cap LimitKeys
           raised == IF capped = {} THEN {"max_tokens"} ELSE capped \ ample
<1>1. WithFloor(extra, ample) = With(extra, raised, "floor")
  BY DEF WithFloor
<1>2. /\ raised \subseteq LimitKeys /\ raised \cup capped # {}
      /\ \A n \in DOMAIN extra : n \in LimitKeys => n \in raised \/ n \in ample
  BY KernelNamesApart
<1>3. capped \subseteq DOMAIN extra /\ capped \subseteq LimitKeys
  OBVIOUS
<1> HIDE DEF raised, capped
<1>4. /\ DOMAIN WithFloor(extra, ample) = raised \cup DOMAIN extra
      /\ \A n \in raised : WithFloor(extra, ample)[n] = "floor"
  BY <1>1 DEF With
<1>5. QED BY <1>2, <1>3, <1>4

\* Internal calls have no stop of OpenAI's format and no cap below the floor.
LEMMA InternalIsUncut ==
    ASSUME NEW extra, NEW ample
    PROVE  /\ Uncut(InternalOptions(extra, ample), ample)
           /\ DOMAIN InternalOptions(extra, ample) \subseteq DOMAIN extra \cup LimitKeys
<1> DEFINE rest == WithoutStops(extra)
<1>1. DOMAIN rest = DOMAIN extra \ {"stop", "stopping_strings"}
  BY DEF WithoutStops, Without
<1>2. InternalOptions(extra, ample) = WithFloor(rest, ample)
  BY DEF InternalOptions
<1> HIDE DEF rest
<1>3. QED BY <1>1, <1>2, FloorIsLaid, KernelNamesApart DEF Uncut

\* The same of a plan, whose format is the kernel's.
LEMMA PlanIsUncut ==
    ASSUME NEW extra, NEW ample
    PROVE  /\ Uncut(PlannerOptions(extra, ample), ample)
           /\ DOMAIN PlannerOptions(extra, ample) \subseteq DOMAIN extra \cup KernelNames
           /\ "response_format" \in DOMAIN PlannerOptions(extra, ample)
           /\ PlannerOptions(extra, ample)["response_format"] = "kernel"
<1> DEFINE internal == InternalOptions(extra, ample)
           added == {"temperature", "response_format"}
<1>1. PlannerOptions(extra, ample) = With(internal, added, "kernel")
  BY DEF PlannerOptions
<1>2. Uncut(internal, ample) /\ DOMAIN internal \subseteq DOMAIN extra \cup LimitKeys
  BY InternalIsUncut
<1> HIDE DEF internal
<1>3. /\ DOMAIN PlannerOptions(extra, ample) = added \cup DOMAIN internal
      /\ \A n \in added : PlannerOptions(extra, ample)[n] = "kernel"
      /\ \A n \in DOMAIN internal \ added : PlannerOptions(extra, ample)[n] = internal[n]
  BY <1>1 DEF With
<1>4. QED BY <1>2, <1>3, KernelNamesApart DEF Uncut, KernelNames

\* All roles together: the calls whose answer the client may see change nothing.
LEMMA RoleKeepsNames ==
    ASSUME NEW role \in Roles, NEW extra, NEW ample
    PROVE  /\ DOMAIN RoleOptions(role, extra, ample) \subseteq DOMAIN extra \cup KernelNames
           /\ role \in Public => RoleOptions(role, extra, ample) = extra
           /\ role \in {"planner", "worker"} => Uncut(RoleOptions(role, extra, ample), ample)
           /\ role = "planner" =>
                 /\ "response_format" \in DOMAIN RoleOptions(role, extra, ample)
                 /\ RoleOptions(role, extra, ample)["response_format"] = "kernel"
<1>1. CASE role = "planner"
  BY <1>1, PlanIsUncut DEF RoleOptions, Public, RootRoles
<1>2. CASE role = "worker"
  BY <1>2, InternalIsUncut DEF RoleOptions, Public, RootRoles, KernelNames
<1>3. CASE role \in {"summary", "verifier"}
  BY <1>3, FloorIsLaid DEF RoleOptions, Public, RootRoles, KernelNames
<1>4. CASE role \in RootRoles \cup {"synthesis", "repair"}
  BY <1>4 DEF RoleOptions, RootRoles
<1>5. QED BY <1>1, <1>2, <1>3, <1>4 DEF Roles

-----------------------------------------------------------------------------
\* The options that are in the body.
Carried == [extra |-> body.extra, reasoning |-> body.reasoning, metadata |-> body.metadata]

\* Options that arrive and keep the gateway's own are those that were promised.
LEMMA CarriedAsPromised ==
    ASSUME KeepsItsOwn(Carried), body.role \in Public => Arrives(Carried),
           body.role \notin {"none", "direct"} \/ request.api # "responses" => body.model # "suffixed"
    PROVE  OptionsAsPromised
BY DEF OptionsAsPromised, Carried, KeepsItsOwn, Arrives, GatewayNames

\* A stop of Anthropic's format is the client's.
LEMMA StopIsClients ==
    ASSUME request \in Requests, "stop_sequences" \in DOMAIN ProviderOptions(request).extra
    PROVE  "stop_sequences" \in request.extra
<1>1. "stop_sequences" \in Extra(request) => "stop_sequences" \in request.extra
  BY DEF Extra
<1>2. CASE request.api = "responses"
  BY <1>1, <1>2, GivenIsClients DEF ProviderOptions, ResponsesOptions
<1>3. CASE request.api = "chat"
  BY <1>1, <1>3, GivenIsClients DEF ProviderOptions, ChatOptions
<1>4. CASE request.api = "messages"
  BY <1>1, <1>4, GivenIsClients DEF ProviderOptions, MessagesOptions
<1>5. QED BY <1>2, <1>3, <1>4, RequestsAssumption

\* A call of the kernel carries the options as promised.
LEMMA ArrivesByKernel ==
    ASSUME NEW role \in Roles, request \in Requests,
           NEW options,
           options = [ProviderOptions(request) EXCEPT !.extra = RoleOptions(role, @, request.ample)],
           body = IF request.backend = "anthropic" THEN AnthropicBody(request, role, options)
                  ELSE OpenAiBody(request, role, options)
    PROVE  OptionsAsPromised /\ PlansAreUncut
<1> DEFINE normal == ProviderOptions(request)
           extra == RoleOptions(role, normal.extra, request.ample)
<1>0. "stop_sequences" \in DOMAIN normal.extra => "stop_sequences" \in request.extra
  BY StopIsClients
<1>1. Arrives(normal) /\ KeepsItsOwn(normal)
  BY NormalArrives
<1>2. /\ options.extra = extra
      /\ options.reasoning = normal.reasoning /\ options.metadata = normal.metadata
      /\ options = [extra |-> options.extra, reasoning |-> options.reasoning,
                    metadata |-> options.metadata]
  BY DEF ProviderOptions
<1>3. /\ body.role = role /\ body.model = "bare"
      /\ body.extra = Without(options.extra, Core(request))
      /\ body.reasoning = options.reasoning /\ body.metadata = options.metadata
  BY <1>2 DEF AnthropicBody, OpenAiBody, Body, ProviderModel, Core
<1> HIDE DEF normal
<1>4. /\ DOMAIN extra \subseteq DOMAIN normal.extra \cup KernelNames
      /\ role \in Public => extra = normal.extra
      /\ role \in {"planner", "worker"} => Uncut(extra, request.ample)
      /\ role = "planner" => "response_format" \in DOMAIN extra /\ extra["response_format"] = "kernel"
  BY RoleKeepsNames
<1> HIDE DEF extra
<1>5. /\ DOMAIN body.extra = DOMAIN extra \ Core(request)
      /\ \A n \in DOMAIN body.extra : body.extra[n] = extra[n]
  BY <1>2, <1>3 DEF Without
<1>6. KeepsItsOwn(Carried)
  BY <1>1, <1>2, <1>3, <1>4, <1>5, KernelNamesApart DEF KeepsItsOwn, Carried
<1>7. ASSUME role \in Public PROVE Arrives(Carried)
  <2>1. \A n \in request.extra \ (Consumed(request) \cup Core(request)) :
           SentAs(request, n) \notin Core(request)
    BY NamesApart DEF SentAs
  <2>2. QED BY <1>1, <1>2, <1>3, <1>4, <1>5, <1>7, <2>1 DEF Arrives, Carried
<1>8. PlansAreUncut
  <2> SUFFICES ASSUME role \in {"planner", "worker"} PROVE PlansAreUncut
    BY <1>3 DEF PlansAreUncut
  <2>1. Uncut(extra, request.ample)
    BY <1>4
  <2>2. DOMAIN body.extra \cap {"stop", "stopping_strings", "stop_sequences"}
           \subseteq {"stop_sequences"} \cap request.extra
    BY <1>0, <1>4, <1>5, <2>1, KernelNamesApart DEF Uncut
  <2>3. /\ DOMAIN body.extra \cap LimitKeys # {}
        /\ \A n \in DOMAIN body.extra \cap LimitKeys :
              body.extra[n] = "floor" \/ n \in request.ample
    BY <1>5, <2>1, KernelNamesApart DEF Uncut, KernelNames
  <2>4. role = "planner" => body.extra["response_format"] = "kernel"
    BY <1>4, <1>5, KernelNamesApart DEF KernelNames
  <2>5. QED BY <1>3, <2>2, <2>3, <2>4 DEF PlansAreUncut
<1>9. QED BY <1>3, <1>6, <1>7, <1>8, CarriedAsPromised

\* So does a call of the direct path.
LEMMA ArrivesDirectly ==
    ASSUME request \in Requests,
           body = IF request.backend = "anthropic" THEN DirectAnthropicBody(request)
                  ELSE DirectOpenAiBody(request)
    PROVE  OptionsAsPromised /\ PlansAreUncut
<1>1. /\ body.role = "direct"
      /\ body.extra = DirectOptions(request).extra
      /\ body.reasoning = DirectOptions(request).reasoning
      /\ body.metadata = DirectOptions(request).metadata
  BY DEF DirectAnthropicBody, DirectOpenAiBody, Body
<1>2. request.api # "responses" => body.model = "bare"
  BY DEF DirectAnthropicBody, DirectOpenAiBody, Body, DirectModel, ProviderModel
<1>3. Arrives(DirectOptions(request)) /\ KeepsItsOwn(DirectOptions(request))
  BY DirectArrives
<1>4. Arrives(Carried) /\ KeepsItsOwn(Carried)
  BY <1>1, <1>3 DEF Arrives, KeepsItsOwn, Carried
<1>5. QED BY <1>1, <1>2, <1>4, CarriedAsPromised DEF PlansAreUncut

\* What the client set for the model arrives in every call that it sees, what is
\* the gateway's in none, and no format of the client, no cap below the floor and
\* no stop but Anthropic's stop_sequences cuts a plan.
THEOREM OptionsAlwaysArrive == OptionsSpec => []OptionsArrive
<1>1. OptionsInv => OptionsArrive
  <2> SUFFICES ASSUME OptionsInv PROVE OptionsArrive
    OBVIOUS
  <2>1. CASE body = NoBody
    BY <2>1 DEF OptionsArrive, OptionsAsPromised, PlansAreUncut, NoBody, Body, NoOptions, Public, RootRoles
  <2>2. QED
    BY <2>1, ArrivesByKernel, ArrivesDirectly DEF OptionsInv, Sent, OptionsArrive
<1>2. QED
  BY <1>1, OptionsInvariance, PTL
=============================================================================
