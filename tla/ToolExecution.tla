--------------------------- MODULE ToolExecution ---------------------------
(***************************************************************************)
(* How a run calls its tools: ReliableToolExecutor with the RunToolContext *)
(* that a run's branches share (retry budget, request budget, one circuit  *)
(* breaker per tool), the worker threads all tools share, and the two      *)
(* adapters that make external requests on them: web search (Tavily), and  *)
(* the disclosure source (CNINFO), which quarantines itself while an       *)
(* operation that timed out is still running.                              *)
(***************************************************************************)
EXTENDS Integers, FiniteSets

CONSTANTS
  Callers,            \* threads of the run's research branches
  Workers,            \* _TOOL_CALL_EXECUTOR's threads, one per slot
  None,               \* "no worker"
  max_attempts,       \* of the retryable error kinds
  failure_threshold, half_open_max_calls,  \* CircuitBreakerPolicy
  max_retries,        \* RetryBudget
  max_requests,       \* ExternalRequestBudget: the limit of each tool's lane
  OpRequests,         \* most requests of one operation of each tool
  MaxCalls            \* bound: calls of the executor

Tools == {"web", "disclosure"}

ASSUME ExecutionAssumption ==
  /\ IsFiniteSet(Callers) /\ IsFiniteSet(Workers) /\ None \notin Workers
  /\ {max_attempts, failure_threshold, half_open_max_calls} \subseteq Nat \ {0}
  /\ {max_retries, MaxCalls} \subseteq Nat
  /\ max_requests \in [Tools -> Nat] /\ OpRequests \in [Tools -> Nat]

VARIABLES
  breaker,    \* RunToolContext.breakers
  consumed,   \* RetryBudget.consumed
  accepted,   \* requests accepted in each tool's lane of ExternalRequestBudget
  caller,     \* where each caller is in execute
  op,         \* what each worker's slot is used for
  quarantine, \* the operation CninfoDisclosureSource._timeout_scope refers to
  calls,      \* history: calls of a tool begun
  attempts,   \* history: attempts begun
  sent        \* history: requests sent for each tool

vars == <<breaker, consumed, accepted, caller, op, quarantine, calls, attempts, sent>>
history == <<calls, attempts, sent>>

NewBreaker == [state |-> "closed", failures |-> 0, probes |-> 0, cooldown |-> "running"]
NewCall == [at |-> "idle", tool |-> "web", attempts |-> 0, worker |-> None, outcome |-> "ok"]
Free == [at |-> "free", tool |-> "web", scope |-> "live", requests |-> 0, late |-> 0]

Init ==
  /\ breaker = [t \in Tools |-> NewBreaker]
  /\ consumed = 0
  /\ accepted = [t \in Tools |-> 0]
  /\ caller = [c \in Callers |-> NewCall]
  /\ op = [w \in Workers |-> Free]
  /\ quarantine = None
  /\ calls = 0 /\ attempts = 0 /\ sent = [t \in Tools |-> 0]

---------------------------------------------------------------------------
(* CircuitBreaker.  Its clock is reduced to whether the cooldown is over.  *)

Opened(failures) ==
  [state |-> "open", failures |-> failures, probes |-> 0, cooldown |-> "running"]

(* Mutant: probes are counted but not limited. *)
AllowsAnyProbe(b) == b.state = "open" => b.cooldown = "over"

Allows(b) ==
  \/ b.state = "closed"
  \/ b.state = "open" /\ b.cooldown = "over"
  \/ b.state = "half_open" /\ b.probes < half_open_max_calls

AfterAllow(b) ==
  CASE b.state = "closed" -> b
    [] b.state = "open" ->
         [state |-> "half_open", failures |-> b.failures, probes |-> 1, cooldown |-> "over"]
    [] b.state = "half_open" -> [b EXCEPT !.probes = @ + 1]

AfterSuccess(b) == NewBreaker

AfterFailure(b) ==
  CASE b.state = "half_open" -> Opened(b.failures)
    [] b.state # "half_open" /\ b.failures + 1 >= failure_threshold -> Opened(b.failures + 1)
    [] b.state # "half_open" /\ b.failures + 1 < failure_threshold -> [b EXCEPT !.failures = @ + 1]

BreakerOf(c) == breaker[caller[c].tool]

Record(c, b) == breaker' = [breaker EXCEPT ![caller[c].tool] = b]

CooldownElapses(t) ==
  /\ breaker[t].state = "open" /\ breaker[t].cooldown = "running"
  /\ breaker' = [breaker EXCEPT ![t].cooldown = "over"]
  /\ UNCHANGED <<consumed, accepted, caller, op, quarantine, history>>

---------------------------------------------------------------------------
(* The calling thread. *)

GoTo(c, place) == caller' = [caller EXCEPT ![c].at = place]

Return(c) == caller' = [caller EXCEPT ![c] = NewCall]

(* The disclosure source looks at its quarantine before it calls execute.  *)
Enter(c, t) ==
  /\ caller[c].at = "idle" /\ calls < MaxCalls
  /\ t = "disclosure" => quarantine = None
  /\ caller' = [caller EXCEPT ![c].at = "entered", ![c].tool = t]
  /\ calls' = calls + 1
  /\ UNCHANGED <<breaker, consumed, accepted, op, quarantine, attempts, sent>>

Admit(c) ==
  /\ caller[c].at = "entered"
  /\ Allows(BreakerOf(c))
  /\ Record(c, AfterAllow(BreakerOf(c)))
  /\ GoTo(c, "ready")
  /\ UNCHANGED <<consumed, accepted, op, quarantine, history>>

FastFail(c) ==
  /\ caller[c].at = "entered"
  /\ ~ Allows(BreakerOf(c))
  /\ Return(c)
  /\ UNCHANGED <<breaker, consumed, accepted, op, quarantine, history>>

(* Each attempt takes a slot and hands its operation to a worker.          *)
Attempt(c, w) ==
  /\ caller[c].at = "ready"
  /\ op[w].at = "free"
  /\ op' = [op EXCEPT ![w] = [Free EXCEPT !.at = "queued", !.tool = caller[c].tool]]
  /\ caller' = [caller EXCEPT ![c].at = "waiting", ![c].attempts = @ + 1, ![c].worker = w]
  /\ attempts' = attempts + 1
  /\ UNCHANGED <<breaker, consumed, accepted, quarantine, calls, sent>>

(* No slot is free, or (disclosure only) the total deadline has passed.    *)
AttemptRefused(c) ==
  /\ caller[c].at = "ready"
  /\ (\A w \in Workers : op[w].at # "free") \/ caller[c].tool = "disclosure"
  /\ Record(c, AfterFailure(BreakerOf(c)))
  /\ Return(c)
  /\ UNCHANGED <<consumed, accepted, op, quarantine, history>>

(* Mutant: the result is awaited without a timeout. *)
TimeOutNever(c) ==
  /\ caller[c].at = "waiting" /\ op[caller[c].worker].scope = "cancelled"
  /\ UNCHANGED vars

(* The attempt's time is over: scope.cancel, future.cancel, record_failure *)
(* and no retry.  A future that no worker has begun is cancelled for good, *)
(* and the slot its worker would have released is lost.                    *)
TimeOut(c) ==
  LET w == caller[c].worker IN
  /\ caller[c].at = "waiting"
  /\ op' = [op EXCEPT ![w].scope = "cancelled",
                      ![w].at = IF @ = "queued" THEN "lost" ELSE @]
  /\ Record(c, AfterFailure(BreakerOf(c)))
  /\ IF caller[c].tool = "disclosure" THEN GoTo(c, "detached") ELSE Return(c)
  /\ UNCHANGED <<consumed, accepted, quarantine, history>>

(* Back in the disclosure source: its scope is quarantined unless the      *)
(* worker has finished by now.                                             *)
Quarantine(c) ==
  /\ caller[c].at = "detached"
  /\ quarantine' = IF caller[c].worker # None THEN caller[c].worker ELSE quarantine
  /\ Return(c)
  /\ UNCHANGED <<breaker, consumed, accepted, op, history>>

Succeed(c) ==
  /\ caller[c].at = "answered" /\ caller[c].outcome = "ok"
  /\ Record(c, AfterSuccess(BreakerOf(c)))
  /\ Return(c)
  /\ UNCHANGED <<consumed, accepted, op, quarantine, history>>

MayRetry(c) ==
  caller[c].outcome = "retryable" /\ caller[c].attempts < max_attempts

(* Mutant: a failed call of a half-open breaker is not recorded. *)
FailUnrecorded(c) ==
  /\ caller[c].at = "answered" /\ caller[c].outcome # "ok"
  /\ ~ MayRetry(c) \/ consumed >= max_retries \/ caller[c].tool = "disclosure"
  /\ Return(c)
  /\ UNCHANGED <<breaker, consumed, accepted, op, quarantine, history>>

(* The error is not retried, the retry budget is used up, or the back-off  *)
(* does not fit the total deadline (disclosure only).                      *)
Fail(c) ==
  /\ caller[c].at = "answered" /\ caller[c].outcome # "ok"
  /\ ~ MayRetry(c) \/ consumed >= max_retries \/ caller[c].tool = "disclosure"
  /\ Record(c, AfterFailure(BreakerOf(c)))
  /\ Return(c)
  /\ UNCHANGED <<consumed, accepted, op, quarantine, history>>

(* Mutant: retries are not charged to the run's budget. *)
RetryUncharged(c) ==
  /\ caller[c].at = "answered" /\ MayRetry(c) /\ consumed < max_retries
  /\ GoTo(c, "ready")
  /\ UNCHANGED <<breaker, consumed, accepted, op, quarantine, history>>

Retry(c) ==
  /\ caller[c].at = "answered" /\ MayRetry(c) /\ consumed < max_retries
  /\ consumed' = consumed + 1
  /\ GoTo(c, "ready")
  /\ UNCHANGED <<breaker, accepted, op, quarantine, history>>

---------------------------------------------------------------------------
(* A worker thread. *)

Begin(w) ==
  /\ op[w].at = "queued"
  /\ op' = [op EXCEPT ![w].at = "working"]
  /\ UNCHANGED <<breaker, consumed, accepted, caller, quarantine, history>>

(* Mutant: an operation looks at its scope before its first request only. *)
StopsAtFirst(w) ==
  op[w].tool = "disclosure" /\ op[w].scope = "cancelled" /\ op[w].requests = 0

(* The disclosure source looks at its scope before it charges a request    *)
(* and again before it sends it; the web search never does.                *)
Stops(w) == op[w].tool = "disclosure" /\ op[w].scope = "cancelled"

(* Mutant: only the first request of an operation is charged. *)
ChargeFirst(w) ==
  /\ op[w].at = "working" /\ ~ Stops(w)
  /\ op[w].requests < OpRequests[op[w].tool]
  /\ accepted[op[w].tool] < max_requests[op[w].tool]
  /\ accepted' = [accepted EXCEPT ![op[w].tool] = IF op[w].requests = 0 THEN @ + 1 ELSE @]
  /\ op' = [op EXCEPT ![w].at = "charged"]
  /\ UNCHANGED <<breaker, consumed, caller, quarantine, history>>

Charge(w) ==
  /\ op[w].at = "working" /\ ~ Stops(w)
  /\ op[w].requests < OpRequests[op[w].tool]
  /\ accepted[op[w].tool] < max_requests[op[w].tool]
  /\ accepted' = [accepted EXCEPT ![op[w].tool] = @ + 1]
  /\ op' = [op EXCEPT ![w].at = "charged"]
  /\ UNCHANGED <<breaker, consumed, caller, quarantine, history>>

Clear(w) ==
  /\ op[w].at = "charged" /\ ~ Stops(w)
  /\ op' = [op EXCEPT ![w].at = "cleared"]
  /\ UNCHANGED <<breaker, consumed, accepted, caller, quarantine, history>>

Send(w) ==
  /\ op[w].at = "cleared"
  /\ op' = [op EXCEPT ![w].at = "working", ![w].requests = @ + 1,
                      ![w].late = IF op[w].scope = "cancelled" THEN @ + 1 ELSE @]
  /\ sent' = [sent EXCEPT ![op[w].tool] = @ + 1]
  /\ UNCHANGED <<breaker, consumed, accepted, caller, quarantine, calls, attempts>>

(* The ways an operation that still goes on may end: a refused request;    *)
(* an answer, but not without a request; an error.  The web search catches *)
(* its retryable errors and returns nothing instead.                       *)
Outcomes(w) ==
  {"fatal"} \cup (IF op[w].requests > 0 THEN {"ok"} ELSE {})
            \cup (IF op[w].requests > 0 /\ op[w].tool = "disclosure" THEN {"retryable"} ELSE {})

(* The operation ends: its scope is finished, its slot released, and the   *)
(* caller answered if it still waits.                                      *)
Finish(w, outcome) ==
  /\ op' = [op EXCEPT ![w] = Free]
  /\ quarantine' = IF quarantine = w THEN None ELSE quarantine
  /\ caller' = [c \in Callers |->
       IF caller[c].worker # w THEN caller[c]
       ELSE IF caller[c].at = "waiting"
            THEN [caller[c] EXCEPT !.at = "answered", !.worker = None, !.outcome = outcome]
            ELSE [caller[c] EXCEPT !.worker = None]]
  /\ UNCHANGED <<breaker, consumed, accepted, history>>

End(w) ==
  /\ op[w].at = "working" /\ ~ Stops(w)
  /\ \E outcome \in Outcomes(w) : Finish(w, outcome)

EndRefused(w) ==
  /\ op[w].at = "working" /\ ~ Stops(w)
  /\ op[w].requests < OpRequests[op[w].tool]
  /\ accepted[op[w].tool] >= max_requests[op[w].tool]
  /\ Finish(w, "fatal")

EndCancelled(w) ==
  /\ op[w].at \in {"working", "charged"} /\ Stops(w)
  /\ Finish(w, "fatal")

---------------------------------------------------------------------------
CallerStep(c) ==
  \/ Admit(c) \/ FastFail(c)
  \/ \E w \in Workers : Attempt(c, w)
  \/ AttemptRefused(c)
  \/ TimeOut(c) \/ Quarantine(c)
  \/ Succeed(c) \/ Fail(c) \/ Retry(c)

WorkerStep(w) ==
  Begin(w) \/ Charge(w) \/ Clear(w) \/ Send(w) \/ End(w) \/ EndRefused(w) \/ EndCancelled(w)

Next ==
  \/ \E c \in Callers : CallerStep(c) \/ \E t \in Tools : Enter(c, t)
  \/ \E w \in Workers : WorkerStep(w)
  \/ \E t \in Tools : CooldownElapses(t)

Spec == Init /\ [][Next]_vars

(* A caller waits for a worker at most until its timeout; a provider may   *)
(* hang for ever, so nothing is assumed of the workers.                    *)
Fairness == \A c \in Callers : WF_vars(CallerStep(c))

FairSpec == Spec /\ Fairness

---------------------------------------------------------------------------
(* Properties. *)

Breakers ==
  [state : {"closed", "open", "half_open"}, failures : Nat,
   probes : 0..half_open_max_calls, cooldown : {"running", "over"}]

CallStates ==
  [at : {"idle", "entered", "ready", "waiting", "answered", "detached"}, tool : Tools,
   attempts : Nat, worker : Workers \cup {None}, outcome : {"ok", "retryable", "fatal"}]

Operations ==
  [at : {"free", "queued", "working", "charged", "cleared", "lost"}, tool : Tools,
   scope : {"live", "cancelled"}, requests : Nat, late : Nat]

TypeOK ==
  /\ breaker \in [Tools -> Breakers]
  /\ consumed \in 0..max_retries
  /\ accepted \in [Tools -> Nat]
  /\ \A t \in Tools : accepted[t] <= max_requests[t]
  /\ caller \in [Callers -> CallStates]
  /\ op \in [Workers -> Operations]
  /\ quarantine \in Workers \cup {None}
  /\ calls \in Nat /\ attempts \in Nat /\ sent \in [Tools -> Nat]

(* The calls of a tool that were admitted and have not recorded a result.  *)
InFlight(t) ==
  {c \in Callers : caller[c].tool = t /\ caller[c].at \in {"ready", "waiting", "answered"}}

(* A breaker is closed exactly below its threshold of failures, and while  *)
(* it is half open every probe it counts belongs to a call that will still *)
(* record a result, whatever late results of older calls arrive: without   *)
(* one it would refuse its tool for the rest of the run.                   *)
CircuitSound ==
  \A t \in Tools :
    /\ breaker[t].state = "closed" <=> breaker[t].failures < failure_threshold
    /\ breaker[t].state = "half_open" =>
         breaker[t].probes \in 1..Cardinality(InFlight(t))

(* However calls fail, the run begins no more attempts than it has calls   *)
(* and retries: branches share one retry budget.                           *)
AttemptsAreBudgeted == attempts <= calls + consumed

(* The operations about to send a request they have been charged for.      *)
Pending(t) == {w \in Workers : op[w].tool = t /\ op[w].at \in {"charged", "cleared"}}

(* docs/decisions/020-a: every request is charged before it is made.  What *)
(* has been sent, by detached workers too, is within what was accepted,    *)
(* with a place reserved for each request that is about to be sent.        *)
RequestsAreCharged ==
  \A t \in Tools : sent[t] + Cardinality(Pending(t)) <= accepted[t]

(* A disclosure operation sends at most the one request for which it had   *)
(* already looked at its scope when its time was over.                     *)
StopsAtBoundary ==
  \A w \in Workers : op[w].tool = "disclosure" => op[w].late <= 1

(* Every call of a tool returns, though its provider may hang.             *)
CallReturns == \A c \in Callers : (caller[c].at = "entered") ~> (caller[c].at = "idle")

(* An operation whose call timed out and returned, and that still runs.    *)
Abandoned(w) ==
  /\ op[w].scope = "cancelled" /\ op[w].at \notin {"free", "lost"}
  /\ \A c \in Callers : caller[c].worker # w

(* docs/decisions/033/failure-matrix.md: the provider is in quarantine     *)
(* until the old worker has left.                                          *)
QuarantineHolds ==
  [][\A c \in Callers :
       caller[c].at = "idle" /\ caller'[c].at = "entered" /\ caller'[c].tool = "disclosure" =>
         \A w \in Workers : op[w].tool = "disclosure" => ~ Abandoned(w)]_vars
=============================================================================
