----------------------------- MODULE AgentKernel -----------------------------
(***************************************************************************)
(* One request in the agent kernel: Kernel::run, run_inner and             *)
(* run_semantic_verification (crates/agent-kernel/src/lib.rs).             *)
(*                                                                         *)
(* A leader model plans a crew of child agents, which run in bounded       *)
(* parallelism; then the root may go on calling the client's tools, an     *)
(* answer is synthesized and, when switched on, verified and repaired.     *)
(* Every answer of a model is a choice of the environment, and any call    *)
(* may fail.  What a response contains is kept as far as control depends   *)
(* on it: a spawn plan, tool calls, some text.                             *)
(*                                                                         *)
(* reasoning_effort fixes the number of agents (0 for a direct request, 4  *)
(* or more otherwise), so the root tool gate, which is for at most one     *)
(* agent, is never reached and left out.                                   *)
(***************************************************************************)
EXTENDS Naturals, Sequences, FiniteSets

CONSTANTS Named,       \* task ids that a model gives to child agents
          CrossChecks, \* task ids "<id>-independent-crosscheck-<n>"
          Root,        \* the task id "root"
          ToolCalls,   \* tool_call_ids
          Target,      \* max_agents_per_request of the effort
          MaxParallel, \* max_parallel_agents
          MaxToolCalls,        \* max_total_tool_calls
          MaxPlanRepairs,      \* MAX_ORCHESTRATION_REPAIR_ATTEMPTS
          MaxEmptyRetries,     \* MAX_EMPTY_SYNTHESIS_RETRY_ATTEMPTS
          MaxSemanticRepairs   \* max_repair_attempts

\* bounded_parallel_agents clamps the parallelism to the number of agents.
ASSUME LimitsAssumption ==
    /\ Target \in Nat /\ Target > 1 /\ MaxParallel \in 1..Target
    /\ {MaxToolCalls, MaxPlanRepairs, MaxEmptyRetries, MaxSemanticRepairs} \subseteq Nat
    /\ Root \notin Named \cup CrossChecks /\ Named \cap CrossChecks = {}
    /\ IsFiniteSet(CrossChecks) /\ Cardinality(CrossChecks) >= Target

VARIABLES asks,     \* what of the request decides on the course of the run
          pc,       \* the next step of run_inner, "done" at the end
          plan,     \* the planner's latest response
          repairs,  \* repair attempts of the planner
          graph,    \* the child tasks of the task graph
          child,    \* the child agents of the crew
          ledger,   \* ledger[t]: the task that the recorded call t belongs to
          rootText, \* what the continuation of the root has answered
          text,     \* version of the final text, 0 when it is empty
          retries,  \* retries of an empty synthesis
          fixes,    \* semantic repair attempts
          verified, \* the version of the text that the verifier has passed, or 0
          report    \* the outcome and what the client is told

vars == <<asks, pc, plan, repairs, graph, child, ledger, rootText, text, retries, fixes,
          verified, report>>

-----------------------------------------------------------------------------
Ids == Named \cup CrossChecks

\* A child of a plan: linked when it names a parent task.
Entry == [id : Named \cup {Root}, linked : BOOLEAN]

Plans == UNION {[1..n -> Entry] : n \in 0..(Target + 1)}

NoPlan == [seen |-> FALSE, children |-> <<>>]

ChildStates == {"none", "waiting", "running", "answered", "failed", "applied"}

NoReport == [outcome |-> "running", passed |-> FALSE, calls |-> {}]

LinkedTasks == {t \in Ids : graph[t] = "linked"}

Crew == {t \in Ids : child[t] # "none"}

ChildrenIn(state) == {t \in Ids : child[t] = state}

\* unresolved_calls_for_task of the root: no result is ever recorded, since the
\* results of the request come when the ledger is empty and are rejected.
RootCalls == {t \in ToolCalls : ledger[t] = "root"}

RecordedCalls == {t \in ToolCalls : ledger[t] # "none"}

TypeOK ==
    /\ asks \in [direct : BOOLEAN, tools : BOOLEAN, reasoning : BOOLEAN, semantic : BOOLEAN]
    /\ pc \in {"root", "plan", "reconcile", "spawn", "children", "apply", "continue", "summary",
               "synthesize", "verify", "repair", "finish", "done"}
    /\ plan.seen \in BOOLEAN /\ Len(plan.children) <= Target
    /\ repairs \in 0..MaxPlanRepairs
    /\ graph \in [Ids -> {"none", "linked", "unlinked"}]
    /\ child \in [Ids -> ChildStates]
    /\ ledger \in [ToolCalls -> {"none", "root", "child"}]
    /\ rootText \in {"none", "blank", "text"}
    /\ text \in 0..(MaxSemanticRepairs + 1) /\ verified \in 0..text
    /\ retries \in 0..MaxEmptyRetries /\ fixes \in 0..MaxSemanticRepairs
    /\ report \in [outcome : {"running", "ok", "error", "timeout"}, passed : BOOLEAN,
                   calls : SUBSET ToolCalls]

Init ==
    /\ asks \in [direct : BOOLEAN, tools : BOOLEAN, reasoning : BOOLEAN, semantic : BOOLEAN]
    /\ pc = IF asks.direct THEN "root" ELSE "plan"
    /\ plan = NoPlan /\ repairs = 0
    /\ graph = [t \in Ids |-> "none"] /\ child = [t \in Ids |-> "none"]
    /\ ledger = [t \in ToolCalls |-> "none"]
    /\ rootText = "none" /\ text = 0
    /\ retries = 0 /\ fixes = 0 /\ verified = 0
    /\ report = NoReport

-----------------------------------------------------------------------------
(* The task graph and the tool ledger *)

\* insert_task, entry by entry: a later entry replaces an earlier one of its id.
Inserted(children) ==
    [t \in Ids |->
        LET at == {i \in 1..Len(children) : children[i].id = t} IN
        IF at = {} THEN graph[t]
        ELSE LET last == CHOOSE i \in at : \A j \in at : j <= i IN
             IF children[last].linked THEN "linked" ELSE "unlinked"]

\* The check of SpawnValidator that is not on the content of a plan.
Duplicates(children) ==
    \E i \in 1..Len(children) :
        children[i].id = Root \/ children[i].id \in {t \in Ids : graph[t] # "none"}

Truncated(children, n) == SubSeq(children, 1, IF Len(children) < n THEN Len(children) ELSE n)

\* The check of the budget counts the calls of the response, not new ids.
WithinBudget(new) == Cardinality(RecordedCalls) + Cardinality(new) <= MaxToolCalls

Recorded(new, owner) == [t \in ToolCalls |-> IF t \in new THEN owner ELSE ledger[t]]

Remaining == IF asks.direct THEN 0 ELSE Target - Cardinality(LinkedTasks)

\* The run returns an error, and everything it holds is dropped.
Abort(outcome) ==
    /\ pc' = "done"
    /\ report' = [report EXCEPT !.outcome = outcome]
    /\ child' = [t \in Ids |-> IF child[t] = "none" THEN "none" ELSE "failed"]
    /\ UNCHANGED <<asks, plan, repairs, graph, ledger, rootText, text, retries, fixes,
                   verified>>

\* A provider call fails or exceeds the agent timeout, or its response is not
\* accepted: too many tool calls, or a plan that the validator rejects.
CallFails(at) ==
    /\ pc = at
    /\ Abort("error")

-----------------------------------------------------------------------------
(* Planning: the planner, its repairs and the reconciliation of its plan   *)

\* Mutant of Short: a plan may lack one agent.
ShortByTwo(p) == ~p.seen \/ Len(p.children) + 1 < Target

Short(p) == ~p.seen \/ Len(p.children) # Target

\* A plan above the target is cut, one below it is sent back to the model.
PlannerAnswers ==
    /\ pc = "plan"
    /\ \E p \in {NoPlan} \cup
                {[seen |-> TRUE, children |-> Truncated(c, Target)] : c \in Plans} :
        /\ plan' = p
        /\ \/ /\ Short(p) /\ repairs < MaxPlanRepairs
              /\ pc' = "plan" /\ repairs' = repairs + 1
           \/ /\ ~Short(p) \/ repairs = MaxPlanRepairs
              /\ pc' = "reconcile" /\ UNCHANGED repairs
    /\ UNCHANGED <<asks, graph, child, ledger, rootText, text, retries, fixes, verified,
                   report>>

\* The missing agents are cross-checks of the planned ones, under new ids.
Reconcile ==
    /\ pc = "reconcile" /\ Short(plan)
    /\ Len(plan.children) > 0
    /\ \E new \in [1..(Target - Len(plan.children)) -> CrossChecks] :
        /\ \A i, j \in DOMAIN new : new[i] = new[j] => i = j
        /\ plan' = [plan EXCEPT !.children =
                       @ \o [i \in DOMAIN new |-> [id |-> new[i], linked |-> TRUE]]]
    /\ pc' = "spawn"
    /\ UNCHANGED <<asks, repairs, graph, child, ledger, rootText, text, retries, fixes,
                   verified, report>>

PlanAccepted ==
    /\ pc = "reconcile" /\ ~Short(plan)
    /\ pc' = "spawn"
    /\ UNCHANGED <<asks, plan, repairs, graph, child, ledger, rootText, text, retries,
                   fixes, verified, report>>

\* No root-only fallback for a plan without a child.
PlanRefused ==
    /\ pc = "reconcile" /\ Len(plan.children) = 0
    /\ Abort("error")

\* apply_spawn_plan_response; the crew is the children that have a parent.
Crewed(tasks) == [t \in Ids |-> IF tasks[t] = "linked" THEN "waiting" ELSE "none"]

SpawnPlanned ==
    /\ pc = "spawn" /\ ~Duplicates(plan.children)
    /\ graph' = Inserted(plan.children)
    /\ child' = Crewed(graph')
    /\ pc' = IF \E t \in Ids : graph'[t] = "linked" THEN "children" ELSE "root"
    /\ UNCHANGED <<asks, plan, repairs, ledger, rootText, text, retries, fixes, verified,
                   report>>

\* A duplicate id, too deep a child, or an artifact that does not exist.
SpawnRejected ==
    /\ pc = "spawn"
    /\ Abort("error")

-----------------------------------------------------------------------------
(* The root: a direct request, or a plan that has left no child to run.    *)

\* apply_provider_response for the root: new tool calls, and a plan (cut to
\* the agents that are left), or text, or neither.
RootResponse(new, children) ==
    LET spawned == Truncated(children, Remaining) IN
    /\ WithinBudget(new) /\ ~Duplicates(spawned)
    /\ ledger' = Recorded(new, "root")
    /\ graph' = Inserted(spawned)

RootAnswers ==
    /\ pc = "root"
    /\ \E new \in SUBSET ToolCalls, children \in Plans, answer \in BOOLEAN :
        /\ RootResponse(new, children)
        /\ text' = IF answer /\ new = {} /\ LinkedTasks' = {} THEN 1 ELSE 0
    /\ child' = Crewed(graph')
    /\ pc' = IF \E t \in Ids : graph'[t] = "linked" THEN "children"
             ELSE IF text' > 0 /\ asks.semantic /\ ~asks.direct THEN "verify" ELSE "finish"
    /\ UNCHANGED <<asks, plan, repairs, rootText, retries, fixes, verified, report>>

-----------------------------------------------------------------------------
(* The crew: buffer_unordered, then every response in a stable order.      *)

\* Mutant of StartChild: an answered child keeps its place.
StartChildInTurn(t) ==
    /\ pc = "children" /\ child[t] = "waiting"
    /\ Cardinality(ChildrenIn("running") \cup ChildrenIn("answered")) < MaxParallel
    /\ child' = [child EXCEPT ![t] = "running"]
    /\ UNCHANGED <<asks, pc, plan, repairs, graph, ledger, rootText, text, retries, fixes,
                   verified, report>>

StartChild(t) ==
    /\ pc = "children" /\ child[t] = "waiting"
    /\ Cardinality(ChildrenIn("running")) < MaxParallel
    /\ child' = [child EXCEPT ![t] = "running"]
    /\ UNCHANGED <<asks, pc, plan, repairs, graph, ledger, rootText, text, retries, fixes,
                   verified, report>>

FinishChild(t) ==
    /\ pc = "children" /\ child[t] = "running"
    /\ \E state \in {"answered", "failed"} : child' = [child EXCEPT ![t] = state]
    /\ UNCHANGED <<asks, pc, plan, repairs, graph, ledger, rootText, text, retries, fixes,
                   verified, report>>

\* Mutant of CrewDone: failed children are left out.
CrewDoneAnyway ==
    /\ pc = "children" /\ ChildrenIn("waiting") \cup ChildrenIn("running") = {}
    /\ pc' = "apply"
    /\ UNCHANGED <<asks, plan, repairs, graph, child, ledger, rootText, text, retries,
                   fixes, verified, report>>

\* All children are awaited; one failure fails the request.
CrewDone ==
    /\ pc = "children" /\ ChildrenIn("waiting") \cup ChildrenIn("running") = {}
    /\ ChildrenIn("failed") = {}
    /\ pc' = "apply"
    /\ UNCHANGED <<asks, plan, repairs, graph, child, ledger, rootText, text, retries,
                   fixes, verified, report>>

CrewFailed ==
    /\ pc = "children" /\ ChildrenIn("waiting") \cup ChildrenIn("running") = {}
    /\ ChildrenIn("failed") # {}
    /\ Abort("error")

\* A child may spawn only with the capability, which the plan can give it; its
\* plan is cut to the agents that are left, and never run.  Otherwise it is text.
ApplyChild(t) ==
    /\ pc = "apply" /\ child[t] = "answered"
    /\ \E new \in SUBSET ToolCalls, children \in Plans :
        LET spawned == Truncated(children, Remaining) IN
        /\ WithinBudget(new) /\ ~Duplicates(spawned)
        /\ ledger' = Recorded(new, "child")
        /\ graph' = Inserted(spawned)
    /\ child' = [child EXCEPT ![t] = "applied"]
    /\ UNCHANGED <<asks, pc, plan, repairs, rootText, text, retries, fixes, verified,
                   report>>

\* The response of a child is not accepted, or its state cannot be sealed.
ApplyFails ==
    /\ pc = "apply" /\ ChildrenIn("answered") # {}
    /\ Abort("error")

\* Where the run goes from here, given whether the root waits for tools.
AfterCrew(waits) ==
    IF waits THEN "finish"
    ELSE IF asks.reasoning THEN "summary" ELSE "synthesize"

ApplyDone ==
    /\ pc = "apply" /\ ChildrenIn("answered") = {}
    /\ pc' = IF RootCalls = {} /\ asks.tools THEN "continue" ELSE AfterCrew(RootCalls # {})
    /\ UNCHANGED <<asks, plan, repairs, graph, child, ledger, rootText, text, retries,
                   fixes, verified, report>>

-----------------------------------------------------------------------------
(* After the crew: tools, the reasoning summary, the synthesis             *)

\* The root goes on with the client's tools, or answers.
Continue ==
    /\ pc = "continue"
    /\ \E new \in SUBSET ToolCalls, children \in Plans, answer \in {"none", "blank", "text"} :
        /\ RootResponse(new, children)
        /\ rootText' = answer
        /\ pc' = AfterCrew(new # {})
    /\ UNCHANGED <<asks, plan, repairs, child, text, retries, fixes, verified, report>>

Summarize ==
    /\ pc = "summary"
    /\ pc' = "synthesize"
    /\ UNCHANGED <<asks, plan, repairs, graph, child, ledger, rootText, text, retries,
                   fixes, verified, report>>

WithText(version) ==
    /\ text' = version
    /\ pc' = IF asks.semantic /\ version > 0 THEN "verify" ELSE "finish"

\* The answer of the continuation is the final text as it is, even a blank one.
TakeContinuation ==
    /\ pc = "synthesize" /\ rootText # "none"
    /\ WithText(IF rootText = "text" THEN 1 ELSE 0)
    /\ UNCHANGED <<asks, plan, repairs, graph, child, ledger, rootText, retries, fixes,
                   verified, report>>

Synthesize ==
    /\ pc = "synthesize" /\ rootText = "none"
    /\ WithText(1)
    /\ UNCHANGED <<asks, plan, repairs, graph, child, ledger, rootText, retries, fixes,
                   verified, report>>

\* An empty synthesis is retried, then an error.
SynthesizeEmpty ==
    /\ pc = "synthesize" /\ rootText = "none"
    /\ \/ /\ retries < MaxEmptyRetries
          /\ retries' = retries + 1
          /\ UNCHANGED <<asks, pc, plan, repairs, graph, child, ledger, rootText, text,
                         fixes, verified, report>>
       \/ /\ retries = MaxEmptyRetries
          /\ Abort("error")

-----------------------------------------------------------------------------
(* run_semantic_verification: it never fails the request                   *)

VerifierPasses ==
    /\ pc = "verify"
    /\ verified' = text
    /\ pc' = "finish"
    /\ UNCHANGED <<asks, plan, repairs, graph, child, ledger, rootText, text, retries,
                   fixes, report>>

\* A rejection with an attempt left.
VerifierRejects ==
    /\ pc = "verify" /\ fixes < MaxSemanticRepairs
    /\ fixes' = fixes + 1
    /\ pc' = "repair"
    /\ UNCHANGED <<asks, plan, repairs, graph, child, ledger, rootText, text, retries,
                   verified, report>>

\* The last rejection, no verdict, or a failed call.
VerifierGivesUp ==
    /\ pc = "verify"
    /\ pc' = "finish"
    /\ UNCHANGED <<asks, plan, repairs, graph, child, ledger, rootText, text, retries,
                   fixes, verified, report>>

\* Mutant of RepairAnswers: the repaired text is not verified again.
RepairAnswersTrusted ==
    /\ pc = "repair"
    /\ text' = text + 1
    /\ verified' = text
    /\ pc' = "finish"
    /\ UNCHANGED <<asks, plan, repairs, graph, child, ledger, rootText, retries, fixes,
                   report>>

RepairAnswers ==
    /\ pc = "repair"
    /\ text' = text + 1
    /\ pc' = "verify"
    /\ UNCHANGED <<asks, plan, repairs, graph, child, ledger, rootText, retries, fixes,
                   verified, report>>

\* An empty repair or a failed call: the candidate stays as it is.
RepairFails ==
    /\ pc = "repair"
    /\ pc' = "finish"
    /\ UNCHANGED <<asks, plan, repairs, graph, child, ledger, rootText, text, retries,
                   fixes, verified, report>>

-----------------------------------------------------------------------------
Verifiable == asks.semantic /\ ~asks.direct /\ RootCalls = {} /\ text > 0

Finish ==
    /\ pc = "finish"
    /\ report' = [outcome |-> "ok",
                  passed |-> RootCalls = {} /\ (Verifiable => verified > 0),
                  calls |-> RootCalls]
    /\ pc' = "done"
    /\ UNCHANGED <<asks, plan, repairs, graph, child, ledger, rootText, text, retries,
                   fixes, verified>>

\* The request timeout drops run_inner at an await.
RequestTimeout ==
    /\ pc # "done"
    /\ Abort("timeout")

Planning ==
    \/ PlannerAnswers \/ Reconcile \/ PlanAccepted \/ PlanRefused
    \/ SpawnPlanned \/ SpawnRejected

CrewStep ==
    \/ \E t \in Ids : StartChild(t) \/ FinishChild(t) \/ ApplyChild(t)
    \/ CrewDone \/ CrewFailed \/ ApplyFails \/ ApplyDone

AnswerStep ==
    \/ RootAnswers \/ Continue \/ Summarize
    \/ TakeContinuation \/ Synthesize \/ SynthesizeEmpty

VerifyStep ==
    VerifierPasses \/ VerifierRejects \/ VerifierGivesUp \/ RepairAnswers \/ RepairFails

Failure == \E at \in {"root", "plan", "continue", "summary", "synthesize"} : CallFails(at)

Step == Planning \/ CrewStep \/ AnswerStep \/ VerifyStep \/ Finish \/ Failure

Done == pc = "done" /\ UNCHANGED vars

Next == Step \/ RequestTimeout \/ Done

Spec == Init /\ [][Next]_vars

\* Every provider call is under the agent timeout, so a run goes on by itself.
FairSpec == Spec /\ WF_vars(Step)

-----------------------------------------------------------------------------
(* What the kernel promises *)

\* The crew of a request stays within the agents of its effort, and no more of
\* them than the parallel limit are with the provider at once (buffer_unordered).
CrewWithinLimits ==
    /\ Cardinality(Crew) <= Target
    /\ Cardinality(ChildrenIn("running")) <= MaxParallel

\* No id twice, and every child names its parent.
CleanPlan ==
    /\ \A i, j \in DOMAIN plan.children :
           plan.children[i].id = plan.children[j].id => i = j
    /\ \A i \in DOMAIN plan.children : plan.children[i].linked

\* A planned crew has exactly the agents of the effort, after truncation, repair
\* and reconciliation, if the plan is clean.  It may be smaller otherwise: insert_task
\* replaces a task of the same id, and only a task with a parent is run.
FullCrew ==
    pc = "children" /\ CleanPlan /\ plan.children # <<>> => Cardinality(Crew) = Target

\* The crew that runs is the crew of the effort: as many agents in all, no more
\* than the parallel limit at once.
CrewOfTheEffort == TypeOK /\ CrewWithinLimits /\ FullCrew

\* A request succeeds only with the work of the whole crew: one child that fails
\* or times out fails the request, it is never left out of the evidence.
NoPartialCrew == report.outcome = "ok" => \A t \in Crew : child[t] = "applied"

\* A request that has a crew and waits for no tool has an answer, unless the
\* continuation of the root was blank: the empty-completion retries cover the
\* synthesizer, and a blank text artifact of the root is taken as it is.
EmptyOnlyFromRoot ==
    report.outcome = "ok" /\ Crew # {} /\ RootCalls = {} /\ text = 0 => rootText = "blank"

\* What the client is told was verified is the very text that it is given: a
\* repaired text goes through the verifier again.  While tool calls of the root
\* are pending there is no text and the request does not pass.
PassedMeansVerified ==
    report.outcome = "ok" =>
        /\ report.calls # {} => text = 0 /\ ~report.passed
        /\ report.passed /\ Verifiable => verified = text

\* A success says what happened: an empty answer is the root's own, and a verdict
\* is on the text that is returned.
ReportIsTrue == EmptyOnlyFromRoot /\ PassedMeansVerified

\* Every run ends by itself, without the request timeout.
RunEnds == <>(pc = "done")

=============================================================================
