------------------------------ MODULE Workflow ------------------------------
(***************************************************************************)
(* One research run of DeepResearchEngine: the LangGraph nodes and routers *)
(* of src/deepresearch_agent/workflow, the checkpoint they share, and the  *)
(* processes that start, fail, die and resume on it.                       *)
(*                                                                         *)
(* "run" and "next" are the checkpoint: the persisted ResearchState (with  *)
(* the graph channels the routers read) and the node that executes next.   *)
(* LangGraph writes both after every superstep.  "budget" is the process's *)
(* RunScope.branch_budget and "fan" the results of the branches that have  *)
(* finished in the current fan-out; both die with the process.             *)
(***************************************************************************)
EXTENDS BranchAllocation, LoopControl

CONSTANTS
  branch_total_budget, \* branch_total_budget, used when the loop is off
  max_critic_iter,     \* max_critic_iter
  StopPhases,          \* the stop_after_phase values a caller asks for
  MaxResumes           \* bound: how often a run is resumed

ASSUME WorkflowAssumption ==
  /\ branch_total_budget \in Nat
  /\ max_critic_iter \in Nat \ {0}
  /\ MaxResumes \in Nat

VARIABLES
  settings,  \* the feature switches the engine was built with
  run,       \* the checkpointed state
  next,      \* the checkpoint's next node, "END" when the graph has none
  proc,      \* "none", or "running" while an invocation executes
  budget,    \* RunScope.branch_budget, <<>> while it is None
  fan,       \* branch -> calls, of the research_one tasks done so far
  steps,     \* supersteps of this invocation
  resumes    \* invocations after the first

vars == <<settings, run, next, proc, budget, fan, steps, resumes>>

Phases == {"planning", "researching", "extracting", "critiquing", "reporting",
           "evaluating", "done"}
Nodes == {"entry", "planner", "research_prepare", "research_one", "research_join",
          "extractor", "critic", "retry_prepare", "retry_one", "retry_join",
          "research_loop_decide", "reflector", "research_refine", "reporter",
          "evaluator"}
ToolNodes == {"research_one", "research_join", "retry_one"}
LLMNodes == {"planner", "extractor", "critic", "retry_join", "reporter", "evaluator"}

research_loop_active == settings.loop
NoCalls == [b \in Branches |-> 0]
Created == DOMAIN budget # {}

(* The plan lists the branches in id order. *)
PlanOrder ==
  CHOOSE s \in [1..Cardinality(Branches) -> Branches] :
    \A i, j \in DOMAIN s : i < j => s[i] < s[j]

LoopBudget == IF research_loop_active THEN budget_ceiling ELSE branch_total_budget
PlannedIterations == IF research_loop_active THEN max_iterations ELSE 1

(* Mutant: LangGraph's own default is left in place. *)
RecursionLimitDefault == 25

RecursionLimit == Most(25, max_iterations * 20 + 20)

NewRun ==
  [ status           |-> "running",
    phase            |-> "planning",
    stop_after       |-> "none",
    step_status      |-> "none",
    step_calls       |-> NoCalls,
    critic_report    |-> "none",
    critic_iteration |-> 0,
    tracker          |-> StartTracker,
    route            |-> "none",
    intents          |-> 0,
    process          |-> 0,
    allocated_calls  |-> NoCalls,
    usage            |-> NoCalls,
    report           |-> "none" ]

Init ==
  /\ settings \in [loop : BOOLEAN, critic : BOOLEAN, reflection : BOOLEAN]
  /\ run = NewRun
  /\ next = "START"
  /\ proc = "none"
  /\ budget = <<>>
  /\ fan = <<>>
  /\ steps = 0
  /\ resumes = 0

---------------------------------------------------------------------------
(* Invocations. *)

StartRun(stop) ==
  /\ proc = "none" /\ next = "START"
  /\ run' = [run EXCEPT !.stop_after = stop]
  /\ next' = "entry"
  /\ proc' = "running"
  /\ UNCHANGED <<settings, budget, fan, steps, resumes>>

(* _run_once with resume=True.  A checkpoint with a next node is continued *)
(* there: update_state re-evaluates the last node's router, which sees no  *)
(* pause and chooses that node again.  Otherwise the graph is entered from *)
(* its start.                                                              *)
Resume(stop) ==
  /\ proc = "none" /\ next # "START"
  /\ resumes < MaxResumes
  /\ run' = [run EXCEPT !.status = "running", !.stop_after = stop]
  /\ next' = IF next = "END" THEN "entry" ELSE next
  /\ proc' = "running"
  /\ steps' = 0
  /\ resumes' = resumes + 1
  /\ UNCHANGED <<settings, budget, fan>>

ScopeLost == budget' = <<>> /\ fan' = <<>>

(* The graph has no next node: the state is checkpointed and returned.  A  *)
(* run that claims to be done without a report becomes a failed one.       *)
Return ==
  /\ proc = "running" /\ next = "END"
  /\ run' = IF run.status = "done" /\ run.report = "none"
            THEN [run EXCEPT !.status = "failed"] ELSE run
  /\ proc' = "none"
  /\ ScopeLost
  /\ UNCHANGED <<settings, next, steps, resumes>>

(* A node raises.  Its output is dropped; the terminal status is written   *)
(* to the checkpoint, whose next node stays the one that failed.  Running  *)
(* out of external requests also leaves a partial report.                  *)
Abort(status, report) ==
  /\ run' = [run EXCEPT !.status = status, !.report = report]
  /\ proc' = "none"
  /\ ScopeLost
  /\ UNCHANGED <<settings, next, steps, resumes>>

NodeFails ==
  /\ proc = "running" /\ next \in Nodes
  /\ \/ Abort("failed", run.report)
     \/ next \in LLMNodes /\ Abort("budget_exceeded", run.report)
     \/ next \in ToolNodes /\ Abort("budget_exceeded", "partial")

(* The process dies between or inside supersteps. *)
Crash ==
  /\ proc = "running"
  /\ proc' = "none"
  /\ ScopeLost
  /\ UNCHANGED <<settings, run, next, steps, resumes>>

---------------------------------------------------------------------------
(* The nodes.  A node's checkpoint is the state it returns together with   *)
(* the choice of its outgoing router.                                      *)

At(node) == proc = "running" /\ next = node

Goto(node, state) ==
  /\ run' = state
  /\ next' = node
  /\ steps' = steps + 1
  /\ UNCHANGED <<settings, proc, resumes>>

complete_phase(state, completed_phase, next_phase) ==
  [state EXCEPT !.phase = next_phase,
                !.status = IF state.stop_after = completed_phase
                           THEN "paused" ELSE "running"]

UnlessPaused(state, node) == IF state.status = "paused" THEN "END" ELSE node

(* Mutant: the entry router sends a run back to the phase it completed. *)
NodeOfPhaseCompleted ==
  [planning |-> "planner", researching |-> "planner",
   extracting |-> "research_prepare", critiquing |-> "extractor",
   reporting |-> "critic", evaluating |-> "reporter", done |-> "evaluator"]

(* Mutant: the entry router goes past the phase that is due. *)
NodeOfPhaseSkipping ==
  [planning |-> "planner", researching |-> "research_prepare",
   extracting |-> "critic", critiquing |-> "critic",
   reporting |-> "reporter", evaluating |-> "evaluator", done |-> "END"]

NodeOfPhase ==
  [planning |-> "planner", researching |-> "research_prepare",
   extracting |-> "extractor", critiquing |-> "critic",
   reporting |-> "reporter", evaluating |-> "evaluator", done |-> "END"]

Entry ==
  /\ At("entry")
  /\ Goto(NodeOfPhase[run.phase], run)
  /\ UNCHANGED <<budget, fan>>

Planner ==
  /\ At("planner")
  /\ LET planned == [run EXCEPT !.step_status = "pending", !.step_calls = NoCalls]
         state == complete_phase(planned, "planning", "researching")
     IN  Goto(UnlessPaused(state, "research_prepare"), state)
  /\ UNCHANGED <<budget, fan>>

ResearchPrepare ==
  /\ At("research_prepare")
  /\ run.step_status # "none"
  /\ budget' = IF Created THEN budget
               ELSE Allocated(PlanOrder, LoopBudget, per_branch_cap, PlannedIterations)
  /\ Goto("research_one",
          [run EXCEPT !.step_status = "running",
                      !.intents = IF research_loop_active
                                  THEN run.tracker.iteration + 1 ELSE @,
                      !.allocated_calls = IF Created THEN @ ELSE budget'.allocated])
  /\ fan' = <<>>

(* One branch task of the fan-out; the superstep ends with the last one. *)
ResearchOne(b, calls) ==
  /\ At("research_one")
  /\ b \notin DOMAIN fan
  /\ calls <= run.allocated_calls[b]
  /\ fan' = [c \in DOMAIN fan \cup {b} |-> IF c = b THEN calls ELSE fan[c]]
  /\ IF DOMAIN fan' = Branches
     THEN Goto("research_join", [run EXCEPT !.usage = fan'])
     ELSE UNCHANGED <<settings, run, next, proc, steps, resumes>>
  /\ UNCHANGED budget

(* Every branch is charged in plan order; without a loop the rest is       *)
(* redistributed at once.                                                  *)
Charged(bb, usage) ==
  LET charge[i \in 0..Cardinality(Branches)] ==
        IF i = 0 THEN bb
        ELSE Consumed(charge[i - 1], PlanOrder[i], usage[PlanOrder[i]], LoopBudget)
  IN  charge[Cardinality(Branches)]

Redistributed(bb, metric) ==
  Reallocated(bb, metric, {}, 0, LoopBudget, per_branch_cap)

RemainingCalls(bb) == [b \in Branches |-> remaining(bb, b)]

ResearchJoin(metric) ==
  /\ At("research_join")
  /\ budget' = IF ~ Created THEN budget
               ELSE IF research_loop_active THEN Charged(budget, run.usage)
               ELSE Redistributed(Charged(budget, run.usage), metric)
  /\ LET joined ==
           [run EXCEPT
              !.step_calls = IF run.step_status = "running"
                             THEN [b \in Branches |-> @[b] + run.usage[b]] ELSE @,
              !.step_status = "succeeded",
              !.allocated_calls = IF Created THEN RemainingCalls(budget') ELSE @]
         state == complete_phase(joined, "researching", "extracting")
     IN  Goto(UnlessPaused(state, "extractor"), state)
  /\ fan' = <<>>

Extractor ==
  /\ At("extractor")
  /\ LET state == complete_phase(run, "extracting", "critiquing")
     IN  Goto(UnlessPaused(state, "critic"), state)
  /\ UNCHANGED <<budget, fan>>

AfterCritic ==
  IF research_loop_active THEN "research_loop_decide"
  ELSE IF settings.reflection THEN "reflector" ELSE "reporter"

CriticBypassed ==
  /\ At("critic") /\ ~ settings.critic
  /\ LET state == complete_phase([run EXCEPT !.critic_report = "none"],
                                 "critiquing", "reporting")
     IN  Goto(UnlessPaused(state, AfterCritic), state)
  /\ UNCHANGED <<budget, fan>>

(* Mutant: the verdict is forced one review too late. *)
CriticVerdictLate(passed) ==
  IF passed THEN "passed"
  ELSE IF run.critic_iteration >= max_critic_iter THEN "forced" ELSE "failed"

CriticVerdict(passed) ==
  IF passed THEN "passed"
  ELSE IF run.critic_iteration + 1 >= max_critic_iter THEN "forced" ELSE "failed"

Critic(passed) ==
  /\ At("critic") /\ settings.critic
  /\ LET judged == [run EXCEPT !.critic_report = CriticVerdict(passed),
                               !.critic_iteration = @ + 1]
         state == complete_phase(judged, "critiquing", "reporting")
     IN  IF judged.critic_report = "failed"
         THEN Goto("retry_prepare",
                   [judged EXCEPT !.phase = "critiquing", !.status = "running"])
         ELSE Goto(UnlessPaused(state, AfterCritic), state)
  /\ UNCHANGED <<budget, fan>>

(* How many retry tasks fit the run's search allowance is the subject of   *)
(* Researcher; here there are some or none.                                *)
RetryPrepare ==
  /\ At("retry_prepare")
  /\ \E node \in {"retry_one", "retry_join"} : Goto(node, run)
  /\ UNCHANGED <<budget, fan>>

RetryOne ==
  /\ At("retry_one")
  /\ Goto("retry_join", run)
  /\ UNCHANGED <<budget, fan>>

(* Mutant: the retried research goes straight to the reporter. *)
RetryJoinUnreviewed ==
  /\ At("retry_join")
  /\ Goto("reporter", [run EXCEPT !.phase = "reporting", !.status = "running"])
  /\ UNCHANGED <<budget, fan>>

RetryJoin ==
  /\ At("retry_join")
  /\ Goto("critic", [run EXCEPT !.phase = "critiquing", !.status = "running"])
  /\ UNCHANGED <<budget, fan>>

(* The node contract demands a critic report, and advance refuses an       *)
(* iteration that spent more than the loop's ceiling leaves.               *)
DecideRefused ==
  \/ run.critic_report = "none"
  \/ Overspent(run.tracker, Total(run.usage))

ResearchLoopDecide(metric, improved, stop) ==
  /\ At("research_loop_decide")
  /\ ~ DecideRefused
  /\ budget' = IF Created THEN Redistributed(budget, metric) ELSE budget
  /\ LET tracker == Advanced(run.tracker, Total(run.usage), improved)
         route == Route(tracker, stop)
     IN  Goto(IF settings.reflection THEN "reflector"
              ELSE IF route = "continue" THEN "research_refine" ELSE "reporter",
              [run EXCEPT !.tracker = tracker,
                          !.route = route,
                          !.process = @ + 1,
                          !.allocated_calls = IF Created THEN RemainingCalls(budget')
                                              ELSE @])
  /\ UNCHANGED fan

ResearchLoopDecideRaises ==
  /\ At("research_loop_decide")
  /\ DecideRefused
  /\ Abort("failed", run.report)

Reflector(must_stop) ==
  /\ At("reflector")
  /\ IF must_stop
     THEN Goto("END", [run EXCEPT !.status = "paused"])
     ELSE Goto(IF run.route = "continue" THEN "research_refine" ELSE "reporter", run)
  /\ UNCHANGED <<budget, fan>>

ResearchRefine ==
  /\ At("research_refine")
  /\ Goto("research_prepare",
          [run EXCEPT !.critic_report = "none", !.critic_iteration = 0,
                      !.phase = "researching", !.status = "running"])
  /\ UNCHANGED <<budget, fan>>

Reporter ==
  /\ At("reporter")
  /\ LET state == complete_phase([run EXCEPT !.report = "full"],
                                 "reporting", "evaluating")
     IN  Goto(UnlessPaused(state, "evaluator"), state)
  /\ UNCHANGED <<budget, fan>>

Evaluator ==
  /\ At("evaluator")
  /\ Goto("END", [run EXCEPT !.phase = "done",
                             !.status = IF run.stop_after = "evaluating"
                                        THEN "paused" ELSE "done"])
  /\ UNCHANGED <<budget, fan>>

GraphStep ==
  \/ Entry \/ Planner \/ ResearchPrepare
  \/ \E b \in Branches, calls \in 0..per_branch_cap : ResearchOne(b, calls)
  \/ \E metric \in [Branches -> Metrics] : ResearchJoin(metric)
  \/ Extractor \/ CriticBypassed
  \/ \E passed \in BOOLEAN : Critic(passed)
  \/ RetryPrepare \/ RetryOne \/ RetryJoin
  \/ \E metric \in [Branches -> Metrics], improved, stop \in BOOLEAN :
       ResearchLoopDecide(metric, improved, stop)
  \/ ResearchLoopDecideRaises
  \/ \E must_stop \in BOOLEAN : Reflector(must_stop)
  \/ ResearchRefine \/ Reporter \/ Evaluator

Next ==
  \/ \E stop \in StopPhases : StartRun(stop) \/ Resume(stop)
  \/ Return \/ NodeFails \/ Crash
  \/ GraphStep

(* A live process keeps executing nodes: LangGraph's loop runs the next    *)
(* superstep without waiting for anything else, and every node returns.    *)
Spec == Init /\ [][Next]_vars /\ WF_vars(GraphStep \/ Return)

---------------------------------------------------------------------------
(* Properties. *)

Statuses == {"running", "paused", "done", "failed", "budget_exceeded"}

TypeOK ==
  /\ settings \in [loop : BOOLEAN, critic : BOOLEAN, reflection : BOOLEAN]
  /\ run.status \in Statuses /\ run.phase \in Phases
  /\ run.step_status \in {"none", "pending", "running", "succeeded"}
  /\ run.step_calls \in [Branches -> Nat]
  /\ run.critic_report \in {"none", "failed", "passed", "forced"}
  /\ run.critic_iteration \in 0..max_critic_iter
  /\ run.tracker \in Trackers
  /\ run.route \in {"none", "continue", "stop"}
  /\ run.intents \in Nat /\ run.process \in Nat
  /\ run.allocated_calls \in [Branches -> 0..per_branch_cap]
  /\ run.usage \in [Branches -> 0..per_branch_cap]
  /\ run.report \in {"none", "partial", "full"}
  /\ next \in Nodes \cup {"START", "END"}
  /\ proc \in {"none", "running"}
  /\ steps \in Nat /\ resumes \in 0..MaxResumes

(* The loop's own account stays inside LoopSpec's bounds over crashes,     *)
(* pauses, failures and resumes, and every iteration it counts has exactly *)
(* one entry in the research process the report is written from.           *)
LoopWithinBounds ==
  /\ run.tracker.iteration <= max_iterations
  /\ run.tracker.budget_used <= budget_ceiling
  /\ run.process = run.tracker.iteration
  /\ run.tracker.no_progress_count <= no_progress_window

(* A report that was written by the reporter node, and not as the partial  *)
(* notice of an exhausted run, rests on a verdict of the critic: passed,   *)
(* or forced at the iteration limit.                                       *)
ReportIsEarned ==
  run.report = "full" /\ settings.critic => run.critic_report \in {"passed", "forced"}

(* Three accounts of the same calls agree: whenever no research round is   *)
(* open, what the loop tracker has spent is what the execution plan's      *)
(* steps were charged, although the join writes one and the decision node  *)
(* the other and a process may die between the two.                        *)
LedgersAgree ==
  research_loop_active /\ run.intents = run.process =>
    run.tracker.budget_used = Total(run.step_calls)

(* The execution plan gives a step branch_single_cap calls per planned     *)
(* iteration and PlanLifecycle.consume raises beyond it: no sequence of    *)
(* rounds and resumes gets there.                                          *)
PlanNeverOverCharged ==
  \A b \in Branches : run.step_calls[b] <= per_branch_cap * PlannedIterations

(* The engine's recursion limit leaves room for every legal sequence of    *)
(* retries and research rounds: LangGraph never cuts one off.              *)
RecursionLimitNeverHit == steps <= RecursionLimit

(* The graph implements the run a caller sees.  Between research_refine    *)
(* and the next join the tracker counts the rounds behind this one; from   *)
(* the join on, research_intents counts this one too.                      *)
RoundsBegun ==
  IF run.phase \in {"planning", "researching"} \/ ~ research_loop_active
  THEN run.tracker.iteration
  ELSE run.intents - 1

Lifecycle ==
  INSTANCE RunLifecycle WITH
    max_rounds <- max_iterations,
    active     <- proc = "running",
    phase      <- run.phase,
    rounds     <- RoundsBegun,
    reported   <- run.report = "full"

(* Phases in order and none skipped, no research after the report, rounds  *)
(* within the bound, and every invocation ends: over every pause, crash,   *)
(* failure, resume, retry and loop of the graph.                           *)
ImplementsLifecycle == Lifecycle!Spec

(* docs/architecture.md: with the loop active a passed critic report       *)
(* enters research_loop_decide.  So every research round is decided before *)
(* the reporter writes.                                                    *)
EveryRoundIsDecided ==
  research_loop_active /\ settings.critic /\ run.report = "full" =>
    run.intents = run.process

(* docs/architecture.md: LoopSpec enforces the total loop budget.  The     *)
(* calls the rounds of a run made never exceed the ceiling.                *)
TotalLoopBudget ==
  research_loop_active => Total(run.step_calls) <= budget_ceiling
=============================================================================
