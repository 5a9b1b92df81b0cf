# A TLA+ model of DeepResearchAgent

DeepResearchAgent answers a research question with a graph of nodes (plan,
search in parallel branches, extract, criticise, report, evaluate), under hard
budgets, with checkpoints a run can be resumed from.  This directory holds TLA+
modules translated from the code under `src/src/deepresearch_agent/` (paths below
are relative to it unless they start with `docs/`), the TLC configurations that
check them on small instances, and TLAPS proofs for every instance.

The text of plans, evidence and reports is abstracted away everywhere.  What is
kept is the control: which step may follow which, what is counted, what is
checkpointed and what dies with a process.

## 1. Inventory

| Component | State it keeps | Operations | Interacts with | What is hard | What makes it correct |
|---|---|---|---|---|---|
| Research workflow graph (`workflow/engine.py`, `graph_assembly.py`, `nodes/`, `helpers.py`) | `ResearchState` and the next node, both in the LangGraph checkpoint | 14 nodes and their routers, `run`, resume, failure handling | everything below | pauses, crashes and failures between any two nodes; resuming by `current_phase` | phases in order; no report without a verdict; every invocation returns |
| Bounded loop (`orchestration/loops.py`) | `LoopTracker` in the checkpoint | `start`, `advance`, boundary evaluation | decided by `research_loop_decide` | charged nodes after the work was done | iterations and spending within `LoopSpec` |
| Branch search budget (`orchestration/budget.py`) | allocations, uses, exhaustion marks in the process; warnings in the checkpoint | `allocate`, `consume`, `reallocate` | `research_prepare`, `research_join`, `research_loop_decide` | rounding; two greedy loops; object lost on resume while its warnings stay | never more than the run total; weakest branch first; nothing stranded |
| Execution plan (`orchestration/planning.py`) | step status and usage in the checkpoint | start, consume, succeed | `research_prepare`, `research_join` | charged in a different node than the tracker | a step is never charged beyond its budget |
| Demo rerun queue (`api/demo.py`, `progressive_delivery.py`) | job file, one background thread, a reference to it | `enqueue`, `_work_loop`, restart | HTTP handlers | the thread may leave while a handler enqueues; check and insert are two steps | one worker, in order, settled once, none forgotten |
| Daily cost guard (`api/demo.py`) | spent and reserved cents of the day in a file | `assert_can_start`, `reserve`, `settle` | demo service, `api/main.py` | the day may change, or the process die, between reserve and settle | spending stays under the daily cap |
| Tool execution (`tools/reliable_execution.py`, `tools/contract_adapter.py`, `tools/tavily_search.py`, `tools/disclosure_source.py`) | retry budget, requests accepted in each lane, a circuit breaker per tool, worker slots, the disclosure source's quarantine | `execute` with attempts and retries, charging and sending of requests, breaker transitions | parallel branches, critic retries, providers | branches share all of it; a timed-out attempt's worker runs on; results of older calls arrive late | budgets hold; no breaker stuck half open; every call returns; a detached operation stops at its next boundary |
| Researcher (`agents/researcher.py`, `workflow/nodes/research.py`, `nodes/retry.py`) | calls and evidence of each branch; the run's quota and request allowance | rag search, disclosure, re-checks, search and fetch; join; retries | tool execution, providers or their recording | a refused request in the middle of a branch; allowances shared by branches | nothing found is lost; an independent query is always made; retries fit what is left |
| LLM client (`llm/client.py`) | costs and reservations in memory; ledger and index on disk, shared by clients and processes | reserve, ask (again), record, charge, resume | planner, extractor, critic, reporter, retrieval | release and add are two steps; index saves collide; a timed-out worker may still answer; a process may die anywhere | every reservation given back, every answer recorded, budget kept |
| Tool-calling loop (`tools/calling_loop.py`, `capability_*.py`) | conversation, rounds, disclosed tools | round of calls, disclosure | LLM client, tools | limits on rounds, calls and disclosures interact | bounded, every call answered |
| MCP (`mcp/`) | pending requests, session state | request, response, timeout | tools | answers after a timeout | each answer to its request |
| Trajectory (`trajectory.py`, `trajectory_replay.py`) | recorded calls, queues of answers left to replay | number and append, validate, replay, compare | LLM client, tools, researcher | branches record at once and replay in another order; replay's counters are not the run's | a recording is accepted and replays to the run's own outcome |
| Reflection and memory (`reflection.py`, `memory/`) | key/value stores over files | read, write, stop decision | reflector | - | - |
| Storage (`storage/`), RAG (`rag/`), agents (`agents/`), finance pack (`domains/finance/`), audit and manifests, context, security, skills, observability, API and CLI, evaluation harness | - | I/O, text, arithmetic | - | little concurrency of their own | mostly input/output functions |

`PROJECT.json` lists these components with their status, and under "hazards" the
places where this code is hard to test, with the properties that look after them.

## 2. Modules

    BranchAllocation      the arithmetic of BranchBudget, no state
      BranchAllocationProofs
      BranchBudget        the object over allocate / consume / reallocate / loss
        BranchBudgetProofs
      Workflow            the graph (also EXTENDS LoopControl), refines RunLifecycle
        WorkflowProofs    EXTENDS BranchAllocationProofs too
    LoopControl           the arithmetic of LoopSpec and LoopTracker, no state
    RunLifecycle          what a caller of run() may rely on (abstract)
    DemoJobs              the rerun queue
      DemoJobsProofs
    CostGuard             the daily limit on paid runs
      CostGuardProofs
    ToolExecution         calls of the tools a run's branches share
      ToolExecutionProofs
    Researcher            branches, join and retries on the allowance they share
      Trajectory          answered by providers and recorded, or by a recording
        TrajectoryProofs
    LLMClient             model calls, their budget and the ledger of clients
      LLMClientProofs

The MC modules only give TLC values for the constants.  Definitions commented
`Mutant:` are single wrong versions of the definition below them; no
specification uses them.  Replacing a definition by its mutant makes some
property of a run fail, which shows that the property can fail at all.

### BranchAllocation and BranchBudget (`orchestration/budget.py`)

`budget` is `run_scope.branch_budget`: three functions on branch ids, `allocated`,
`used` and `exhausted`; `coverage_warnings` and `total_exhausted` are the warnings
in `state.metadata`.  `Allocate`, `Consume` and `Reallocate` are the three public
methods, each one step because each runs under the object's lock; `ScopeLost` is a
process that ends, after which the next one allocates anew while the warnings
survive.  The code's id strings are naturals with the order the code sorts by.

The two greedy loops of `reallocate` are written without a loop: a "unit" is the
k-th extra call of a branch, both loops hand units out in a fixed total order
(`VerifyAhead`: branch by branch; `RoundAhead`: round by round, weakest metric
first), so a unit is granted exactly when fewer units than are available precede
it.  `exhausted` and `coverage_warning` are set and cleared together in the code
and are one flag here.

### LoopControl (`orchestration/loops.py`)

`Advanced`, `Overspent`, `Boundaries` and `Route` are `advance`, its refusal, the
boundaries of `LoopSpec` and the decision.  The progress metric is reduced to
whether a round improved.  The decision-weaving threshold and the sufficiency
verdict, which both end the loop, are one choice, `stop`.

### Workflow (`workflow/`)

`run` and `next` are the checkpoint (state and next node), `proc` whether an
invocation executes, `budget` the process's branch budget, `fan` the branches that
finished in the current fan-out.  One action per node, whose last part is the
node's outgoing router, since LangGraph writes both in one checkpoint.
`ResearchOne` is one branch task: tasks of a fan-out finish in any order and the
superstep is checkpointed with the last.  `StartRun`, `Resume` and `Return` are
`_run_once`; `NodeFails` and `Abort` its exception handlers; `Crash` a process that
dies anywhere, including the pause the caller may set with `interrupt_before`,
which leaves the same checkpoint.  What an LLM or a search returns (verdict,
metric, improvement, whether to stop) is a nondeterministic choice.
`branch_budget_enabled` has its default, true.  The number of retry tasks depends
on the search allowance, which `Researcher` models; here there are some or none.

`RunLifecycle` is the abstract specification: phases in order, none skipped, the
only way back is a further research round before the report, at most `max_rounds`
of them, and every invocation returns.  `Workflow` implements it with the mapping at
`Lifecycle == INSTANCE RunLifecycle WITH ...`; the number of rounds begun is the
tracker's between a refinement and the join, and `research_intents` less one from
the join on, because the code counts a round at two places.

### DemoJobs (`api/demo.py`)

`jobs` is the job file; `handler[h]` is where a request's thread is in `enqueue`,
`thread[w]` where a background thread is in `_work_loop`; `worker` is the manager's
reference, `lock` its `_worker_lock`.  Every store method holds the store's lock and
is one step.  `EnsureWorker` is `_ensure_worker`, one step because it holds
`_worker_lock` throughout; the recheck at the end of the loop is three
(`RecheckEmpty`, `ClearWorker`, `Leave`) because a handler may create a job during
it.  A dead thread is one whose `is_alive()` is false; `Threads` are identities that
are reused.  `StoreRaises` is a store method that raises outside the try blocks and
ends the thread.  `Restart` is a new server process on the same file, which marks
what was unfinished as interrupted.  Progressive delivery publishes `Sections`
sections one at a time.

### CostGuard (`api/demo.py`, `api/main.py`)

`file` is the guard's state file, `caller[c]` where a caller is between its calls of the
guard and the day on which it reserved, `run_lock` is `DemoService._run_lock`.  Each
method of the guard holds its lock and is one step; each loads the file first, and
`load_current_state` starts a new account when the date has changed.  The demo
pipeline checks, waits for `run_lock`, reserves, and settles a failure inside the lock
but a success outside it, so the next run may reserve first.  The research endpoint
reserves at once and takes no lock.  `Restart` is a server that dies and starts again
on the same file.  A failed run settles its whole reservation.  One that returns settles
what it cost, and that may be more than it reserved: the LLM client raises
`BudgetExceededError` only once the answer over the budget is charged
(`llm/client.py:663-672`), and the engine catches it and returns a partial state
(`workflow/engine.py:587-621`).  A run's cost is therefore any amount up to `MaxRunCost`.
Amounts are naturals.  `record_spend` has no caller and is left out.  `carried`, `over`
and `killed` are history variables, which no action reads: today's settlements of an
earlier day's reservations, what the runs settled today cost above their reservations,
and today's runs that the server died under.

### ToolExecution (`tools/reliable_execution.py`, `tools/disclosure_source.py`, `tools/tavily_search.py`)

The state is one run's `RunToolContext` (`breaker`, `consumed`, `accepted`), its branches'
threads (`caller[c]`, where each is in `execute`), the worker threads of the process
(`op[w]`, what the operation in each slot is doing and whether its
`ToolExecutionScope` is cancelled) and the disclosure source's reference to a timed-out
operation (`quarantine`).  `calls`, `attempts` and `sent` are history variables, which
only the bound of `Enter` reads.

A call is `Enter`, then `Admit` or `FastFail` by the breaker, then for each attempt
`Attempt` (a slot is taken) and, if the operation ends in time, `Succeed`, `Retry` or
`Fail`; otherwise `TimeOut`, which cancels the scope, records a failure and lets the
caller go while the worker runs on.  A future that no worker has begun is cancelled
for good and its slot is never released ("lost").  A worker's `Charge`, `Clear` and `Send`
are three steps because the disclosure source looks at its scope before and after it
charges a request (`Stops`), and a cancellation may fall between any two.  The Tavily search
never looks at a scope.  A provider may hang for ever.

Abstractions: a clock is reduced to whether the breaker's cooldown or the attempt's
time is over; the total deadline, which only the disclosure source passes, is a choice
of `AttemptRefused` and `Fail`.  The lanes of a tool (search, fetch) are one.  The error kinds
are those that are retried and those that are not.  `MaxCalls` bounds the calls.

### Researcher (`agents/researcher.py`, `nodes/research.py`, `nodes/retry.py`)

`work[t]` is the local state of one `research_with_budget` (or `retry`) call: where it is,
`branch_calls`, `branch_exhausted`, `primary_hydrated`, `seen` and the refusal it raised (`error`);
`scope` is the run's `RunScope`
(`SearchQuota`, `ExternalRequestBudget` and its last refusal), `run` what the engine does with
the branches.  `AfterAnswer` is the rest of the function after an answer up to its next call, one
operator for each kind of call; `BreakOff` is what it does when `consume_call` refuses.
`Join` and `Conclude` are `research_join` with `retry_prepare`, and the end of the retries; of
several refusals that were raised, any may be the one that ends the run (`Surfaced`).
Who answers is left open: this module declares no `Next`.

A call stands for all its requests: it takes 1 to `MaxRequests` of its lane's allowance, or what is
left and is then refused.  A refusal is told by the allowance that is used up (`Refusals`): its
message holds the lane, the kind of request and the tool, with both counts at the limit
(`tools/reliable_execution.py:129-148`).  The two allowances of the disclosure source
stand here as one lane, and either may refuse.  Rag search is not charged.  All branches start together, web
fetching is on (`top_k` is then 3, in a retry 2, which tells their requests apart), and exceptions
other than a refusal are left out, as are the structured data requests, which charge nothing
here.  An attempt that timed out and goes on is in `ToolExecution`.  That the graph waits for
all branches before it lets an exception of one through is LangGraph's behaviour.

### Trajectory (`trajectory.py`, `trajectory_replay.py`)

The composition of the researcher with its two providers.  In a run (`mode` "bare" or "live")
a call is `Ask` (charged, and answered by a choice), `Number` (the recorder's
`_next_trace_fields`, which takes no lock) and `Use` (appended, and its answer used), so that other
branches move between them.  `Replay` validates the recorded trace and starts the same researcher
again; `AskReplay` answers from `left`, the recorded calls not yet consumed, in the order of the
queue the code keeps for the kind of call: one for rag search and one for the disclosure
source, whose head must match, and one for each request of a search or fetch.  `Verdict` is the
comparison with the recorded outcome.  "bare" is a run without the tool contract, in which
alone searches count against the quota and nothing is recorded.

`shown`, `past` and `seenAs` are history variables, on which no action depends.  `past[t]` is
the states a thread went through in the recorded run, each with the place in the trace of the
call that led to it (0 for a step without a call): the run the trace tells of, which its replay
is compared with in the proofs.  `MCTrajectory`'s view leaves `past` out, since no property
TLC checks reads it.  The recorder's counter
`_sequence` is stored with the call it numbers; model calls and node transitions, which share
the counter, are left out, and with them part of the chances for two calls to meet.  A
disclosure names its security by its branch.  `Outcome` is what is compared: the status, the
refusal that ended the run, whether the retries were reached, the report as its sources, and the
requests made where a partial report prints them, which is outside the finance pack
(`finance_pack` is FALSE; `reporter.py:325-328`, `engine.py:642-665`).

### LLMClient (`llm/client.py`)

`client[c]` is an `LLMClient` object (`_run_cost`, `_pending`, the index in memory, `_cost_lock`), `disk`
the ledger with its index file and that file's one temporary name, `call[t]` where a thread is
in `complete` or between `reserve_external_call` and `settle_external_call`, `owed[t]` the answers
the worker process of the thread still has to deliver.  `paid` and `blind` are history variables.

`Begin` and `AskAgain` reserve; `Answer`, `Error` and `Timeout` end an attempt, with the next attempt made at once
if there is one; then `append_ledger_row` (without a lock), `SaveIndex` and `ReplaceIndex` (under
the lock of the client only), and `Release` then `add_run_cost`, two steps in a chat call, or `Charge`
then `Unwind` in an external one, which releases last.  `After` says when a call asks again.
`Construct` and `start_run` are a new object that takes the index or rebuilds it from the ledger; `Kill` is
a process that dies.  The ledger's size and time, which say whether an index is current, are
its number of rows.

Abstractions: a start saves a rebuilt index in one step; reading an index and looking at the
ledger's size is one step; writing to the disk does not fail; the backoff takes no time.
No caller passes an expected cost for a chat call, so every reservation is the estimate.

## 3. Runs

| Run | Instance | What it shows |
|---|---|---|
| `branch_budget` (MCBranchBudget.cfg) | 3 branches, total 5, cap 2, charges to 3 | Over any sequence of methods and losses: accounts within caps, `WithinBudget`; a marked branch is reported; redistribution serves the weakest first and strands nothing, for every metric and every set of verification branches |
| `workflow` (MCWorkflow.cfg) | 2 branches, 2 rounds, 2 reviews, ceiling 3, 1 resume, pauses after research or review | Loop bounds, earned report, agreeing accounts, no over-charged step, recursion limit, and `ImplementsLifecycle`, which includes that every invocation ends |
| `workflow_total_budget` (violation) | 3 rounds, ceiling 4 | The docs' total loop budget does not hold over a resume |
| `workflow_decided` (violation) | as above | A paused round goes to the reporter undecided |
| `demo_jobs` (MCDemoJobs.cfg) | 2 handlers, 2 threads, queue limit 1, 3 jobs, 2 sections, 1 restart, 1 failure | One worker, served in order, bounded queue, delivered before done, jobs only advance, a looking thread serves the queue |
| `demo_jobs_wakeup` (violation) | no failures, 2 jobs | A wakeup can be lost although nothing fails |
| `cost_guard` (MCCostGuard.cfg) | 2 demo callers, 1 research caller, limit 5, run budget 2, run cost up to 3, 1 midnight | The limit holds up to one run's budget for each run that crossed midnight and what runs cost above their reservations, over failures and restarts; the reservations are those of open and killed runs |
| `cost_guard_cap` (violation) | as above, run cost up to 2 | A day's spending can exceed the limit after midnight |
| `tool_execution` (MCToolExecution.cfg) | 2 callers, 2 workers, 2 attempts, 1 retry, threshold 1, 1 probe, limits of 1 (web) and 2 (disclosure) requests, 3 calls | Attempts and requests within the run's budgets, no breaker half open without a trial in flight, at most one request after a deadline, and every call returns although providers hang |
| `research_trajectory` (MCTrajectory.cfg) | 2 branches (2 and 3 calls), 1 retry, 4 search, 2 fetch and 1 disclosure requests, up to 3 requests a fetch and 2 any other call, outside the finance pack | No evidence is lost to a refusal but where nobody catches it, a query is always made, retries fit, and a recording is accepted and reproduced, with the refusal that ended it, but for the six cases `ReplayReproduces` names |
| `llm_calls` (MCLLMClient.cfg) | engine with 2 threads, retrieval with 1, budget 2, estimate 1, costs 1 and 2, 2 attempts, 1 restart | Every reservation is given back and every answer recorded over retries, repairs, timeouts, colliding saves and deaths; nobody is charged what was not recorded; the budget is overrun by the named blind spot only |
| `tool_quarantine` (violation) | as above, threshold 2 | Two disclosure calls that time out together overwrite each other's quarantine |

### The bounds and why they are enough

* `branch_budget`: 5 calls for 3 branches capped at 2 each leaves a remainder in
  the division, a cap that binds and a pool that binds; a charge of 3 exceeds any
  branch.  `verify_min` 2 lets a floor eat a branch's whole cap.  The state space is
  finite without further bounds.
* `workflow`: two rounds of at most 4 calls against a ceiling of 3 make both a full
  first round, an over-spent second one and the refusal of `advance` happen; two
  reviews give one retry; one resume reaches every pair of an interruption and a
  continuation.  With one resume a run has at most two invocations, so an
  error needing three is not covered.  The violations use 3 rounds and ceiling 4.
* `demo_jobs`: the lost wakeup, the race for the single queue slot and an old thread
  still leaving while a new one starts each need two handlers or two threads and
  no more.  The theorems cover any number.
* `cost_guard`: a limit of 5 admits two runs of 2 and refuses a third, and an odd limit
  keeps the last unit unusable.  Three callers let one hold a reservation of yesterday
  while two compete for today's money.  One midnight suffices for that; a run that
  spans two is covered by the theorems, which hold for any number of days.  A cost of 3 is one
  more than a run reserves.  The violation keeps costs within the reservation, so that the limit
  is broken by the settlement after midnight and by nothing else.
* `tool_execution`: three calls of two callers are enough for a probe and a late result of
  an older call at once, for two detached operations and a third call beside them, and for
  every slot to be taken or lost.  A threshold and a probe limit of 1 open and half-open a
  breaker within those calls; the violation uses threshold 2, so that two time-outs do
  not open it.  The theorems cover every other threshold and limit.

* `research_trajectory`: one branch has every kind of call (rag, a disclosure of reported
  figures, a re-check, a typed query), the other all but the disclosure; both re-check one url, and the
  retry repeats a query.  The allowances are small enough that every lane can be refused in
  either branch and in the retry, and the allocations that `consume_call` refuses.  A fetch of
  three requests is refused beside a refused disclosure, so that two branches raise
  different refusals.  One source
  is ranked for each search: with two, the second fetch repeats what the first can do.  Each of
  the exceptions in the properties is reached, and none can be left out.  The
  pack is not the finance pack, the default, so that the partial reports print their requests too;
  inside it `Requests` is empty, and the comparison is the same otherwise.
  The view `MCView` drops what can no longer decide anything: once two calls share a number and
  the trace has a gap for good (the numbers are then fewer than the calls), its order, since
  the validation only rejects it; in a replay, what has been consumed.  Two states with the same
  view have the same successors up to the view, and agree on every property.
* `llm_calls`: two threads on one client and one on another are what it takes for an admission
  between another's release and add, and for two saves to collide.  A budget of two estimates admits two calls at
  once; a cost of 2 exceeds its estimate.  The two threads of the engine are interchangeable
  (no constant, action or property tells them apart), so their permutations are a symmetry.
  `MaxCalls` 1 still asks up to three times in a call.

A run that has finished, a queue with no more jobs to come, tools or models that have had
their `MaxCalls` calls, or a replay that has its verdict, have no next step, so deadlock is not
checked in `workflow`, `demo_jobs`, `tool_execution`, `llm_calls` and `research_trajectory`; it is in `branch_budget` and `cost_guard`, where a
process may always be lost, so that the check says little.

### Fairness

* `Workflow`: `WF_vars(GraphStep \/ Return)`.  LangGraph runs supersteps in a loop that
  waits only for the node's own tasks, and each of these has a timeout or returns;
  a live process therefore takes its next step.  Nothing is assumed of crashes,
  failures, the caller's resumes, or the answers of models and tools.
* `DemoJobs`: weak fairness of each handler that is inside `enqueue` and of each
  background thread.  Both are operating-system threads that wait only for
  `_worker_lock`, which is held for a bounded time.  That a job's run
  returns or raises is what `ImplementsLifecycle` checks of the workflow.  No handler
  has to send a request, so a liveness property may not rely on a later request
  repairing the queue.
* `ToolExecution`: weak fairness of each caller inside a call, whose thread waits at most
  until its attempt's timeout.  Nothing is assumed of the workers: the code cannot
  stop a provider that hangs, and `CallReturns` must not depend on one that answers.
* `BranchBudget`, `CostGuard`, `LLMClient` and `Trajectory` state safety only and assume no
  fairness: nothing in them waits for another step but a lock held for a few statements.

### Where the code and its documentation part

* `TotalLoopBudget`: `docs/architecture.md:285-286` says `LoopSpec` enforces the total
  loop budget.  The branch budget lives in the process; a resume gets a new one
  with a full share, and a run resumed at the fan-out joins without charging any.
  The rounds together then make more search calls than the ceiling; the tracker
  notices only afterwards, by failing the run.
* `EveryRoundIsDecided`: `docs/architecture.md:281-283` says a passed report enters
  `research_loop_decide`.  A run paused with `stop_after_phase="critiquing"` is resumed by
  its `current_phase`, "reporting", at the reporter.
* `NoLostWakeup`: the comment in `api/demo.py:355-356` promises that an arriving job
  cannot lose its wakeup.  When the recheck finds a job, `_work_loop` falls through to
  a `return` with `_worker` still set and alive, so `_ensure_worker` starts no thread.
  What does hold, `WorkerServesQueue`, is that a thread that still looks for work
  serves every job in the queue.
* `DailyCap`: `docs/deployment.md:19-21` says the paid layers are capped by the daily
  limit.  A run that reserves before midnight and settles after it finds the new day's
  account: its cost is added without having been reserved, and the reservation it
  releases may be another run's, which makes room for one more.  A run that costs more
  than it reserved passes the limit too, on any day; `MCCostGuardCap.cfg` leaves that out.
  `CapUpToCarriedRuns` states how far both can go.
* `QuarantineHolds`: `docs/decisions/033/failure-matrix.md:27` says that a provider is in
  quarantine until the old worker has left.  `CninfoDisclosureSource._timeout_scope` holds
  one scope: of two calls that time out, the second replaces the first's, and when its
  worker leaves a further call starts beside the first's worker, still at work.

Met while modelling, without a run of their own:

* `TavilySearchProvider.search` (`tools/tavily_search.py:311`) makes up to three requests without
  looking at its scope, so after its deadline it goes on to send them.  They are charged
  (`RequestsAreCharged`), but `StopsAtBoundary` can only be stated of the disclosure source.
* The contract adapter, which is on by default (`workflow/capability_setup.py:38-39`), does not pass on
  `search_counts_toward_budget`, so `agents/researcher.py:718` never charges the `SearchQuota` that
  `docs/evaluation.md:476-478` describes.  Hence `counts` in `Ask`.
* The comment at `agents/researcher.py:108-113` says that a refused request must not discard the
  work done.  The search and the fetch of found sources catch a refusal; the disclosure
  source, a prior url and a retry do not, and end the run (`Uncaught` in `RefusalKeepsWork`).
* `workflow/nodes/retry.py:17` reckons two searches for a task; each may make up to three requests,
  so a scheduled retry can still be refused (`RetriesFit`).
* A disclosure's refusal is told by the last refusal of the run (`tools/disclosure_source.py:317-331`).
  If another branch is refused in between, the call returns nothing; its replay raises.
* Replay serves rag and disclosure calls in the order of recording although the branches run in
  another, counts recorded refusals on an allowance that successes do not touch, and therefore defers no
  retry and may word the join's refusal differently.  If two branches raise different refusals,
  either may end the run, and either its replay, which compares the message.
* The comment at `trajectory_replay.py:497-498` says that a recorded refusal recreates the
  rejected counter because the partial report exposes it.  The counters of the requests that
  were accepted are not recreated; outside the finance pack the report prints them too, and a run
  that ended over its allowance may then replay to a mismatch in these alone (`SameButRequests`).  These six are the exceptions
  in `ReplayReproduces`.
* Two calls numbered at once get the same number, and strict replay then refuses the recording
  (`TraceAccepted`).
* A client saves its index with the ledger's size of that moment (`llm/client.py:1618-1635`), which
  includes rows of other clients that its index lacks.  A run that is resumed on that index is
  charged less than it spent.  `NeverOvercharged` states the direction that does hold.
* Two clients on one ledger share the index's temporary file name; the loser's replace fails after
  its row was written, and the call fails without being charged.

## 4. Proofs

All theorems hold for every value of the constants that the modules' `ASSUME`s allow:

| Module | Assumption | What it asks of the constants |
|---|---|---|
| `DemoJobs` | `DemoAssumption` | finite sets of threads and handlers, `None` not a thread, natural bounds, at least one section |
| `BranchAllocation` | `AllocationAssumption` | a finite nonempty set of branch ids, a positive cap, integer metrics |
| `BranchBudget` | `BudgetAssumption` | natural budgets and charges, a positive number of rounds |
| `LoopControl` | `LoopSpecAssumption` | positive iterations and window, a natural ceiling |
| `Workflow` | `WorkflowAssumption` | natural totals and resumes, a positive number of reviews |
| `CostGuard` | `GuardAssumption` | finite disjoint sets of callers, a natural limit, a positive run budget, which the most a run costs is not below |
| `ToolExecution` | `ExecutionAssumption` | finite sets of callers and workers, positive attempts, threshold and probes, natural limits |
| `LLMClient` | `ClientAssumption` | finitely many callers, each of one client; natural budget and costs, positive estimate and attempts |
| `Researcher` | `ResearchAssumption` | finitely many branches with names, tasks apart from them with one query each, positive request limits |
| `Trajectory` | `PackAssumption` | `finance_pack` is true or false |

No set's size and no limit is bounded from above by them.  The only theorem with a
further hypothesis is `RecursionLimitSuffices`.

**DemoJobsProofs**: `TypeCorrect`, `AtMostOneWorker`, `ServiceInOrder`,
`DoneOnlyWhenDelivered`, `QueueLimitHeld` and the action property `JobsOnlySettle`.  None
of the safety properties is inductive.  `OneWorker` follows from `LoopIsReferenced`: a
thread in the loop is the one `_worker` refers to, so a handler that finds no live
reference may start a thread.  `ServedInOrder` needs `JobMatchesPlace`: a picked job
is still queued and still the oldest, and a job being worked on is running, which
in turn needs that no second thread changes it.  `DoneIsDelivered` needs
`DeliveredIsValidated`.  `QueueBounded` needs `RoomIsShared`: the queue with the handlers that were
told there is room, not the queue alone, stays within the limit and one handler less than there
are.  `NextQueued` shows that the CHOOSE in `next_queued` is the oldest job, from the least
element of a set of naturals.

**BranchAllocationProofs** has no theorem of a specification; it says what the three methods
return, for `BranchBudgetProofs` and `WorkflowProofs`.  The sum of a function is the number of
its units, so sums are compared by injections instead of induction: `EqualShareBounded`
numbers the k-th call of the i-th of n branches (k-1)n+i, which is injective and at most the
pool; `TotalAdds` splits the units of a sum in two disjoint parts.  `GrantExact`: for any
total order, what is granted is the lesser of what was available and what there was room for,
since the granted units are numbered by how many precede them and, while units are left, no
number below the available ones stays unused.  `AllocatedSound`, `ConsumedSound` and
`ReallocatedSound` say that each method keeps used <= allocated and the allocations within the
run total; `ReallocatedFills` that a reallocation leaves calls unallocated only when every
branch is at its cap; `ReallocatedServesWeakest` that the top-up goes round by round from the
weakest branch.

**BranchBudgetProofs**: `TypeCorrect`, `BudgetIsKept` (property `WithinBudget`),
`ExhaustionReported`, and two theorems about what `reallocate` would return in any state, for
any metric and set of branches to verify: `WeakestServedFirst` (`WeakestFirst`) and
`NothingLeftStranded` (`NothingStranded`).  The invariant is the soundness of the account and the
reporting of marks; the other two follow from it and the lemmas about `Reallocated`.

**CostGuardProofs**: `TypeCorrect`, `CapHolds` (property `CapUpToCarriedRuns`) and
`ReservationsAreOwed`.  The cap does not follow from itself: that a new reservation
fits is checked against `reserved`, and says something about what runs may spend only
because `reserved`, with a budget for each carried run, covers all that is owed.  A settlement
takes back one budget and adds a cost, so `over` grows by whatever the cost is above it.  The
invariant is therefore the two properties together, and `StaleFileOwesNothing`: while the file
is of an earlier day, nobody holds a reservation of today.  Since every method loads
first, the lemma about `load_current_state` reduces each step to a file of today.

**ToolExecutionProofs**: `TypeCorrect`, `CircuitSoundness`, `AttemptsBounded`,
`RequestsCharged` and `LateRequestsBounded`.  Given the types, each is kept on its own, so the
invariant is the conjunction of `TypeOK` with four parts proved one by one.  `CircuitSound` and
`RequestsAreCharged` are inductive because they count what is still under way (`InFlight`,
`Pending`); `AttemptsOwed` and `LateIsLast` add that to the other two: the attempts a call still
owes, and that nothing but the end follows a late request.  The sets counted grow or
shrink by one element at a time, which is all that is needed of `Cardinality`.

**WorkflowProofs**: `TypeCorrect`, `LoopBounded`, `ReportEarned`, `LedgersAlwaysAgree`,
`PlanWithinCaps`, `StepsBounded`, `RecursionLimitSuffices` and `LifecycleImplemented`.  They
share one invariant, because what a node may find is settled by the nodes before it:
`Located` says which phase the next node belongs to, also after a resume; `Judged` that behind
the reviews there is a verdict; `Counted` that a round under way is one the loop may still
count; `Charges` and `Ledgers` by how much the plan, which `research_join` charges, is ahead of
the tracker, which `research_loop_decide` charges, between the two; `StepsCounted` how many
supersteps may be behind each node.  That `research_join` charges the branches in plan order
and no step beyond its cap, however many branches there are, is `ChargedSound`, by the least
branch that would go wrong.

`StepsBound` has no run of its own: an invocation takes at most
`max_iterations * (4 * max_critic_iter + 4) + 3` supersteps.  `RecursionLimitNeverHit` follows
from it when `max_critic_iter <= 4`; the default is 3 (`settings.py:183`), and no code
refuses a larger value, for which the limit of `max(25, 20 * max_iterations + 20)` can be
lower than what a legal run needs.  The hypothesis is therefore part of the theorem and not of
`WorkflowAssumption`.

`LifecycleImplemented` is the refinement of `RunLifecycle`: `InitMaps` and `NextMaps` map the
initial states and every step of the graph to a step of the abstract specification or to a
stutter.  Nodes that stay in a phase stutter (`InPlaceMaps`), a node that ends one maps to
its end with or without a pause (`PhaseMaps`), `research_refine` to another round,
crashes and failures to leaving (`LeavingMaps`), starts and resumes to entering
(`EnteringMaps`).  The abstract step that starts another round needs `Counted`.

**LLMClientProofs**: `TypeCorrect`, `AnswersOwned`, `ReservationsBalance` (`PendingIsOwed`),
`PaidRecorded`, `BudgetHeld` (`BudgetUpToBlindSpot`) and `LedgerCoversAccounts`
(`NeverOvercharged`).  `CallInv`, the types with `AnswersAreOwn` and `DownIsIdle` (a call is at
work only in a client that is up), lets every operation of a call be summed up as one of
eleven effects (`CallEffect`), and each theorem looks at those.  A reservation and an account are
related to the calls by a count (`Count`) and a sum (`Sum`) over the calls in certain places:
`PendingIsOwed` is inductive once it says this of every place between `reserve` and `release`;
`Paid` that what was paid is in the ledger or about to be appended; `Within` that an account
with the estimates of the calls ahead and the answers between `release` and `add`
stays within the budget and the blind spot; `LedgerInv` that the ledger
covers each account with the answers whose row is written and that are not charged yet, each
client's index with those whose row it lacks, and both files.  The sum of costs is the size of
a set of pairs, as with the budget, so that moving one call changes it by that call's cost
(`MovesCount`).

**TrajectoryProofs**: `TypeCorrect`, `RecordingAccepted` (`TraceAccepted`),
`QueryAlwaysMade` (`QueryReserved`), `WorkKeptOnRefusal` (`RefusalKeepsWork`),
`RetriesWithinAllowance` (`RetriesFit`) and `ReplayIsFaithful` (`ReplayReproduces`).  All rest on `Base`: the types, `Phased` (where threads
may be in each phase of the engine), `Awaited` (a call under way is the one its thread would
make, and its answer one that call can get) and `TraceSound`.  `Numbered` adds to
`TraceAccepted` that, unless two calls met at the recorder, at most one number is given out and
it is the next.  `QueryLeft` is what makes the reservation of the last call work: a branch that
owes its independent query still has a call for it at each place before the query
(`Room`).  `NothingLost` says that a branch holds all it was shown to find, and that one that
raised was refused where nobody catches it.  `Afforded` counts the searches the scheduled
retries may still make (`OwesFirst`, `OwesSecond`): with those accepted they fit the allowance
unless a request was repeated.  The conjunction of these was model-checked on `MCTrajectory`
(about a million states) before it was proved.

`ReplayReproduces` compares two runs of the research over the whole queue of answers, so its
invariant relates every state of the replay to a state of a run that is over.  It has a part for
each run:

* While the run is recorded, `LiveSound`: each thread's `past` is a chain of steps of the
  researcher, in the order of the trace, and together they name every recorded call
  (`PastSound`); a thread stands at the end of its past, or has charged the call it is
  about to use (`CurrentAt`); and what the engine decided follows from where the threads ended,
  and a recorded refusal of a search means that the search allowance is used up and no retry
  is scheduled (`Engined`).  `PastGrows` is the step all its cases share.
* `ReplayStarts` turns that, at the end of the run, into facts about the trace alone:
  the recorded outcome is the one of a join over a raised refusal (`RaisedEnd`) or of a run
  that joined its branches, and then scheduled all its retries (`JoinedEnd`); and all
  refusals that its threads raised are the one it ended with (`OneRefusal`).
* During the replay, `ReplaySound`: each thread stands at some state of its past, and the calls
  left that it made are exactly those of the rest of its past (`Located`); hence the call it
  asks for next is left, is the first left of its queue unless requests of two branches share
  the queue and are served in the other order, and has the answer its past went on with
  (`AskingLeads`, from `FirstSound`).  A replay that ends has used up the recording and has the
  recorded outcome but for the requests made (`Replayed`), so the engine decides as it did,
  whichever of the raised refusals surfaces, although its counters are not the recorded run's.

`ReplaySound` is about replays in which none of the first five exceptions of `ReplayReproduces` has
been met so far (`Excepted`); one that has been met stays met (`ExceptedStays`).  The sixth needs
no excuse in the invariant: `VerdictSound` shows that a replay which met none of the five can only
differ in the requests made, and inside the finance pack not at all.  The conjunction was
model-checked as well: completely on four smaller instances (up to 115,000 states) and on
three million states of `MCTrajectory`'s.

Only model-checked: the liveness properties (`WorkerServesQueue`, `CallReturns`, the
termination in `ImplementsLifecycle`), which rest on fairness and ENABLED.  Every safety invariant
and action property of a passing run is a theorem.

## 5. Not modelled, and what comes next

Not modelled for good: scoring scripts, text processing, rendering, ranking by
floating-point scores, SQL, and the stand-alone `BoundedLoop.run`, which the workflow
does not call.  They are most of the repository's lines and hold no state that a model
checker could tell more about than a unit test: `agents/reporter.py`, `domains/finance/`,
`research_snapshot.py` and the evaluation scripts map documents to documents.
`BranchBudget`'s `ScopeLost` keeps the warnings of the lost process;
that a crash inside a superstep also rolls them back to the last checkpoint gives a
state that a shorter sequence of calls reaches too.

Not modelled yet:

1. The tool-calling loop (`tools/calling_loop.py:166-282`): sequential, bounded by rounds, calls and
   cost; its calls are those of `LLMClient` and `ToolExecution`.
2. The MCP client (`mcp/client.py`): one caller at a time gets its answer by the id it sent; the ids
   are not taken under a lock, a buffer outlives `close()`, and a server whose tools are
   registered half way stays so.  The server answers one request at a time.
3. The structured data requests of the researcher, and the model calls and node
   transitions in a trajectory.
4. Algorithms: RAG visibility in time, the greedy context packer.

Theorems planned: with a module for the tool-calling loop or the MCP client, its bounds.
