--------------------------- MODULE WorkflowProofs ---------------------------
(***************************************************************************)
(* Theorems about Workflow for any plan, budgets, loop specification and   *)
(* number of reviews and resumes: the inductive invariant ties what the    *)
(* checkpoint holds (phase, verdict, tracker, plan, research process) to   *)
(* the node it names.                                                      *)
(***************************************************************************)
EXTENDS Workflow, BranchAllocationProofs

---------------------------------------------------------------------------
(* The inductive invariant. *)

(* The checkpointed records. *)
Runs ==
  [ status           : Statuses,
    phase            : Phases,
    stop_after       : StopPhases \cup {"none"},
    step_status      : {"none", "pending", "running", "succeeded"},
    step_calls       : [Branches -> Nat],
    critic_report    : {"none", "failed", "passed", "forced"},
    critic_iteration : 0..max_critic_iter,
    tracker          : Trackers,
    route            : {"none", "continue", "stop"},
    intents          : Nat,
    process          : Nat,
    allocated_calls  : [Branches -> 0..per_branch_cap],
    usage            : [Branches -> 0..per_branch_cap],
    report           : {"none", "partial", "full"} ]

FanTyped ==
  DOMAIN fan \subseteq Branches /\ \A b \in DOMAIN fan : fan[b] \in 0..per_branch_cap

Typed ==
  /\ settings \in [loop : BOOLEAN, critic : BOOLEAN, reflection : BOOLEAN]
  /\ run \in Runs
  /\ next \in Nodes \cup {"START", "END"}
  /\ proc \in {"none", "running"}
  /\ steps \in Nat /\ resumes \in 0..MaxResumes
  /\ FanTyped
  /\ Created => Sound(budget, LoopBudget)

(* The phases before the next research is done, those that review it, and  *)
(* those behind the reviews.                                               *)
Before == {"planning", "researching"}
Reviewing == {"extracting", "critiquing"}
After == {"reporting", "evaluating", "done"}

(* The next node belongs to the phase. *)
Located ==
  /\ next \in {"START", "planner"} => run.phase = "planning"
  /\ next \in {"research_prepare", "research_one", "research_join"} =>
       run.phase = "researching"
  /\ next = "extractor" => run.phase = "extracting"
  /\ next \in {"critic", "retry_prepare", "retry_one", "retry_join"} =>
       run.phase = "critiquing"
  /\ next \in {"research_loop_decide", "reflector", "research_refine", "reporter"} =>
       run.phase = "reporting"
  /\ next = "evaluator" => run.phase = "evaluating"
  /\ next \in {"research_loop_decide", "research_refine"} => research_loop_active
  /\ next \in {"research_one", "research_join"} => run.step_status = "running"

(* The reviews of a round are counted, and behind them there is a verdict. *)
Judged ==
  /\ run.phase \in Before \cup Reviewing => run.critic_iteration < max_critic_iter
  /\ run.phase \in After /\ settings.critic => run.critic_report \in {"passed", "forced"}
  /\ run.report = "full" => run.phase \in {"evaluating", "done"}

(* The loop may count another round: one is under way only if so. *)
MayGoOn ==
  /\ run.tracker.iteration < max_iterations
  /\ run.tracker.no_progress_count < no_progress_window

Counted ==
  /\ LoopWithinBounds
  /\ (\/ run.phase \in Before \cup Reviewing
      \/ next \in {"research_loop_decide", "research_refine"}
      \/ next = "reflector" /\ run.route = "continue") => MayGoOn
  /\ run.phase = "planning" => run.tracker.budget_used = 0
  /\ ~ research_loop_active => run.tracker.iteration = 0 /\ run.route = "none"

(* The decision on a round is behind it; its calls are in the plan but not *)
(* yet in the tracker.                                                     *)
Decided == research_loop_active /\ next \in {"reflector", "research_refine"}
Joined == run.phase \in Reviewing \/ next = "research_loop_decide"

(* A step of the plan was charged at most a branch's cap in each round     *)
(* that was joined.                                                        *)
Charges ==
  \A b \in Branches :
    /\ run.phase \in Before \/ Decided =>
         run.step_calls[b] <= per_branch_cap * run.tracker.iteration
    /\ Joined => run.step_calls[b] <= per_branch_cap * (run.tracker.iteration + 1)
    /\ run.step_calls[b] <= per_branch_cap * PlannedIterations

(* Which rounds have begun, and by how much the plan is ahead of the       *)
(* tracker.                                                                *)
InFanOut == next \in {"research_one", "research_join"}

Ledgers ==
  research_loop_active =>
    /\ InFanOut \/ Joined => run.intents = run.process + 1
    /\ (run.phase \in Before /\ ~ InFanOut) \/ Decided => run.intents = run.process
    /\ run.phase \in Before \/ Decided =>
         Total(run.step_calls) = run.tracker.budget_used
    /\ Joined => Total(run.step_calls) = run.tracker.budget_used + Total(run.usage)
    /\ run.intents = run.process => Total(run.step_calls) = run.tracker.budget_used

(* The supersteps of an invocation: a round takes at most PerRound.        *)
PerRound == 4 * max_critic_iter + 4
RoundSteps == PerRound * run.tracker.iteration
AllRounds == PerRound * max_iterations

StepsCounted ==
  /\ run.phase \in Before \cup {"extracting"} => run.critic_iteration = 0
  /\ next \in {"START", "entry"} => steps <= 0
  /\ next = "planner" => steps <= 1
  /\ next = "research_prepare" => steps <= RoundSteps + 2
  /\ next = "research_one" => steps <= RoundSteps + 3
  /\ next = "research_join" => steps <= RoundSteps + 4
  /\ next = "extractor" => steps <= RoundSteps + 5
  /\ next = "critic" => steps <= RoundSteps + 6 + 4 * run.critic_iteration
  /\ next = "retry_prepare" => steps <= RoundSteps + 3 + 4 * run.critic_iteration
  /\ next = "retry_one" => steps <= RoundSteps + 4 + 4 * run.critic_iteration
  /\ next = "retry_join" => steps <= RoundSteps + 5 + 4 * run.critic_iteration
  /\ next = "research_loop_decide" => steps <= RoundSteps + 3 + 4 * max_critic_iter
  /\ next = "reflector" =>
       steps <= IF research_loop_active THEN RoundSteps ELSE 3 + 4 * max_critic_iter
  /\ next = "research_refine" => steps <= RoundSteps + 1
  /\ next = "reporter" => steps <= AllRounds + 1
  /\ next = "evaluator" => steps <= AllRounds + 2
  /\ next = "END" => steps <= AllRounds + 3

IInv ==
  /\ Typed /\ Located /\ Judged /\ Counted /\ Charges /\ Ledgers /\ StepsCounted

---------------------------------------------------------------------------
(* What a step leaves alone. *)

AccountsKept ==
  /\ run'.tracker = run.tracker /\ run'.route = run.route
  /\ run'.intents = run.intents /\ run'.process = run.process
WorkKept ==
  /\ run'.step_status = run.step_status /\ run'.step_calls = run.step_calls
  /\ run'.usage = run.usage
VerdictKept ==
  /\ run'.critic_report = run.critic_report
  /\ run'.critic_iteration = run.critic_iteration

LEMMA PhaseCompleted ==
  ASSUME NEW state \in Runs, NEW p \in Phases, NEW q \in Phases
  PROVE  LET done == complete_phase(state, p, q)
         IN  /\ done \in Runs
             /\ done.phase = q /\ done.status \in {"paused", "running"}
             /\ done.step_status = state.step_status
             /\ done.step_calls = state.step_calls
             /\ done.critic_report = state.critic_report
             /\ done.critic_iteration = state.critic_iteration
             /\ done.tracker = state.tracker /\ done.route = state.route
             /\ done.intents = state.intents /\ done.process = state.process
             /\ done.usage = state.usage /\ done.report = state.report
BY DEF complete_phase, Runs, Statuses

---------------------------------------------------------------------------
(* Products of the bounds, and the empty plan. *)

LEMMA Products ==
  ASSUME Typed, Counted
  PROVE  /\ per_branch_cap * run.tracker.iteration \in Nat
         /\ per_branch_cap * PlannedIterations \in Nat
         /\ per_branch_cap * (run.tracker.iteration + 1)
              = per_branch_cap * run.tracker.iteration + per_branch_cap
         /\ per_branch_cap * run.tracker.iteration <= per_branch_cap * PlannedIterations
         /\ MayGoOn => per_branch_cap * (run.tracker.iteration + 1)
                         <= per_branch_cap * PlannedIterations
         /\ RoundSteps \in Nat /\ AllRounds \in Nat /\ RoundSteps <= AllRounds
         /\ PerRound \in Nat /\ 8 <= PerRound /\ PerRound <= AllRounds
         /\ MayGoOn => RoundSteps + PerRound <= AllRounds
<1> DEFINE it == run.tracker.iteration
<1>1. /\ it \in Nat /\ it <= max_iterations /\ max_iterations \in Nat /\ max_iterations >= 1
      /\ max_critic_iter \in Nat /\ max_critic_iter >= 1
      /\ per_branch_cap \in Nat /\ per_branch_cap >= 1
  BY AllocationAssumption, LoopSpecAssumption, WorkflowAssumption
     DEF Typed, Runs, Trackers, Counted, LoopWithinBounds
<1>2. /\ PlannedIterations \in Nat /\ it <= PlannedIterations
      /\ MayGoOn => it + 1 <= PlannedIterations
  BY <1>1 DEF PlannedIterations, Counted, MayGoOn
<1>3. MayGoOn => it + 1 <= max_iterations
  BY <1>1 DEF MayGoOn
<1>4. PerRound \in Nat /\ 8 <= PerRound
  BY <1>1 DEF PerRound
<1>5. RoundSteps = PerRound * it /\ AllRounds = PerRound * max_iterations
  BY DEF RoundSteps, AllRounds
<1> DEFINE planned == PlannedIterations
<1> HIDE DEF it, planned
<1>6. \A c, x, y \in Nat : x <= y => c * x \in Nat /\ c * y \in Nat /\ c * x <= c * y
  BY SMT
<1>7. \A c, x \in Nat : c * (x + 1) = c * x + c /\ c * 1 = c
  BY SMT
<1>8. it + 1 \in Nat /\ planned \in Nat /\ it <= planned
      /\ (MayGoOn => it + 1 <= planned)
  BY <1>1, <1>2 DEF planned, it
<1>9. /\ per_branch_cap * it \in Nat /\ per_branch_cap * planned \in Nat
      /\ per_branch_cap * it <= per_branch_cap * planned
      /\ MayGoOn => per_branch_cap * (it + 1) <= per_branch_cap * planned
      /\ per_branch_cap * (it + 1) = per_branch_cap * it + per_branch_cap
  BY <1>1, <1>6, <1>7, <1>8
<1>10. /\ PerRound * it \in Nat /\ PerRound * max_iterations \in Nat
       /\ PerRound * it <= PerRound * max_iterations
       /\ PerRound <= PerRound * max_iterations
       /\ MayGoOn => PerRound * it + PerRound <= PerRound * max_iterations
  <2>1. PerRound * 1 <= PerRound * max_iterations /\ PerRound * 1 = PerRound
    BY <1>1, <1>4, <1>6, <1>7
  <2>2. MayGoOn => PerRound * (it + 1) <= PerRound * max_iterations
    BY <1>1, <1>3, <1>4, <1>6, <1>8 DEF it
  <2>3. PerRound * (it + 1) = PerRound * it + PerRound
    BY <1>1, <1>4, <1>7
  <2> QED
    BY <1>1, <1>4, <1>6, <2>1, <2>2, <2>3
<1> QED
  BY <1>4, <1>5, <1>9, <1>10 DEF it, planned

LEMMA NoCallsTotal == NoCalls \in [Branches -> Nat] /\ Total(NoCalls) = 0
<1>1. Cardinality(Branches) \in Nat
  BY AllocationAssumption, FS_CardinalityType
<1>2. 0 * Cardinality(Branches) = 0
  BY <1>1
<1> QED
  BY <1>2, TotalConstant DEF NoCalls, Counts

---------------------------------------------------------------------------
(* The plan's order, and charging its branches one after the other. *)

LEMMA PlanOrdered == PlanOrder \in Orders
<1>1. /\ PlanOrder \in [1..Cardinality(Branches) -> Branches]
      /\ \A i, j \in DOMAIN PlanOrder : i < j => PlanOrder[i] < PlanOrder[j]
  BY SortedOrderExists DEF PlanOrder
<1>2. Cardinality(Branches) \in Nat
  BY AllocationAssumption, FS_CardinalityType
<1>3. \A i, j \in DOMAIN PlanOrder : PlanOrder[i] = PlanOrder[j] => i = j
  <2> SUFFICES ASSUME NEW i \in DOMAIN PlanOrder, NEW j \in DOMAIN PlanOrder,
                      PlanOrder[i] = PlanOrder[j]
               PROVE  i = j
    OBVIOUS
  <2>1. /\ i \in 1..Cardinality(Branches) /\ j \in 1..Cardinality(Branches)
        /\ PlanOrder[i] \in Branches /\ PlanOrder[j] \in Branches
    BY <1>1
  <2>2. i \in Nat /\ j \in Nat /\ PlanOrder[i] \in Nat /\ PlanOrder[j] \in Nat
    <3>1. \A b \in Branches : b \in Nat
      BY AllocationAssumption
    <3>2. \A k \in 1..Cardinality(Branches) : k \in Nat
      BY <1>2
    <3> QED
      BY <2>1, <3>1, <3>2
  <2>3. ~ (i < j) /\ ~ (j < i)
    BY <1>1, <2>2
  <2> QED
    BY <2>2, <2>3
<1> QED
  BY <1>1, <1>3 DEF Orders

(* A nonempty set of naturals has a least element. *)
LEMMA MinimumExists ==
  ASSUME NEW S \in SUBSET Nat, S # {}
  PROVE  \E x \in S : \A y \in S : x <= y
<1> DEFINE below(m) == {k \in S : k < m}
           B == {below(m) : m \in S}
           R == StrictSubsetOrdering(Nat)
<1>1. B \subseteq FiniteSubsetsOf(Nat)
  <2> SUFFICES ASSUME NEW m \in S PROVE IsFiniteSet(below(m))
    BY DEF FiniteSubsetsOf
  <2>1. m \in Nat /\ \A k \in S : k \in Nat
    OBVIOUS
  <2>2. \A k \in below(m) : k \in 0..m
    BY <2>1
  <2>3. IsFiniteSet(0..m)
    BY <2>1, FS_Interval
  <2>4. below(m) \in SUBSET (0..m)
    BY <2>2
  <2> QED
    BY <2>3, <2>4, FS_Subset
<1>2. IsWellFoundedOn(R, FiniteSubsetsOf(Nat))
  BY FS_StrictSubsetOrderingWellFounded
<1>3. B # {}
  OBVIOUS
<1>4. PICK b \in B : \A c \in B : ~ (<<c, b>> \in R)
  <2> HIDE DEF B, R
  <2> QED
    BY <1>1, <1>2, <1>3, WFMin
<1>5. PICK m \in S : b = below(m)
  OBVIOUS
<1>6. ASSUME NEW y \in S, y < m PROVE FALSE
  <2>1. below(y) \subseteq below(m) /\ below(y) # below(m)
    <3>1. y \in below(m) /\ y \notin below(y)
      BY <1>6
    <3>2. \A k \in S : k < y => k < m
      BY <1>6
    <3> QED
      BY <3>1, <3>2
  <2>2. below(y) \in SUBSET Nat /\ below(m) \in SUBSET Nat
    OBVIOUS
  <2>3. <<below(y), b>> \in R
    BY <1>5, <2>1, <2>2 DEF StrictSubsetOrdering
  <2> QED
    BY <1>4, <2>3
<1> QED
  BY <1>6

(* Charged is defined, and charges keep a budget sound. *)
LEMMA ChargedSound ==
  ASSUME LoopBudget \in Nat, NEW bb, Sound(bb, LoopBudget),
         NEW usage \in [Branches -> 0..per_branch_cap]
  PROVE  Sound(Charged(bb, usage), LoopBudget)
<1> DEFINE n == Cardinality(Branches)
           one(x, i) == Consumed(x, PlanOrder[i], usage[PlanOrder[i]], LoopBudget)
           IsCharge(f, m) == f = [i \in 0..m |-> IF i = 0 THEN bb ELSE one(f[i - 1], i)]
           Broken == {m \in 0..n : ~ \E f : IsCharge(f, m)}
           charge == CHOOSE f : IsCharge(f, n)
           Unsound == {m \in 0..n : ~ Sound(charge[m], LoopBudget)}
<1>1. n \in Nat
  BY AllocationAssumption, FS_CardinalityType
<1>2. Broken = {}
  <2> SUFFICES ASSUME Broken # {} PROVE FALSE
    OBVIOUS
  <2>1. Broken \in SUBSET Nat
    OBVIOUS
  <2>2. PICK m \in Broken : \A k \in Broken : m <= k
    <3> HIDE DEF Broken
    <3> QED
      BY <2>1, MinimumExists
  <2>3. m \in 0..n /\ m \in Nat /\ ~ \E f : IsCharge(f, m)
    OBVIOUS
  <2>4. CASE m = 0
    <3> DEFINE f == [i \in 0..0 |-> bb]
    <3>1. IsCharge(f, m)
      BY <2>4
    <3> QED
      BY <2>3, <3>1
  <2>5. CASE m # 0
    <3>1. m - 1 \in 0..n /\ m - 1 \notin Broken
      <4> HIDE DEF Broken, n
      <4> QED
        BY <1>1, <2>1, <2>2, <2>3, <2>5
    <3>2. PICK f : IsCharge(f, m - 1)
      BY <3>1
    <3> DEFINE g == [i \in 0..m |-> IF i = m THEN one(f[m - 1], m) ELSE f[i]]
    <3> HIDE DEF one, n, Broken
    <3>3. \A i \in 0..(m - 1) : f[i] = IF i = 0 THEN bb ELSE one(f[i - 1], i)
      BY <3>2
    <3>4. \A i \in 0..m : g[i] = IF i = 0 THEN bb ELSE one(g[i - 1], i)
      <4> SUFFICES ASSUME NEW i \in 0..m
                   PROVE  g[i] = IF i = 0 THEN bb ELSE one(g[i - 1], i)
        OBVIOUS
      <4>1. CASE i = 0
        BY <2>3, <2>5, <3>3, <4>1
      <4>2. CASE i = m
        <5>1. g[i - 1] = f[m - 1] /\ g[i] = one(f[m - 1], m)
          BY <2>3, <2>5, <4>2
        <5> QED
          BY <2>5, <4>2, <5>1
      <4>3. CASE i # 0 /\ i # m
        <5>1. i - 1 \in 0..m /\ i - 1 # m /\ i \in 0..(m - 1)
          BY <2>3, <4>3
        <5>2. g[i - 1] = f[i - 1] /\ g[i] = f[i]
          BY <4>3, <5>1
        <5> QED
          BY <3>3, <4>3, <5>1, <5>2
      <4> QED
        BY <4>1, <4>2, <4>3
    <3>5. IsCharge(g, m)
      <4>1. g = [i \in 0..m |-> g[i]]
        OBVIOUS
      <4> HIDE DEF g
      <4> QED
        BY <3>4, <4>1
    <3> QED
      BY <2>3, <3>5
  <2> QED
    BY <2>4, <2>5
<1>3. IsCharge(charge, n)
  <2>1. \E f : IsCharge(f, n)
    <3>1. n \in 0..n /\ n \notin Broken
      BY <1>1, <1>2
    <3> QED
      BY <3>1
  <2> HIDE DEF IsCharge
  <2> QED
    BY <2>1
<1>4. Charged(bb, usage) = charge[n]
  BY DEF Charged
<1> HIDE DEF charge
<1>5. Unsound = {}
  <2> SUFFICES ASSUME Unsound # {} PROVE FALSE
    OBVIOUS
  <2>1. Unsound \in SUBSET Nat
    OBVIOUS
  <2>2. PICK m \in Unsound : \A k \in Unsound : m <= k
    <3> HIDE DEF Unsound
    <3> QED
      BY <2>1, MinimumExists
  <2>3. m \in 0..n /\ m \in Nat /\ ~ Sound(charge[m], LoopBudget)
    OBVIOUS
  <2>4. m # 0
    <3>1. charge[0] = bb
      <4> HIDE DEF one, n
      <4>1. 0 \in 0..n
        BY <1>1
      <4> QED
        BY <1>3, <4>1
    <3> QED
      BY <2>3, <3>1
  <2>5. m - 1 \in 0..n /\ m - 1 \notin Unsound
    <3> HIDE DEF Unsound, n
    <3> QED
      BY <1>1, <2>1, <2>2, <2>3, <2>4
  <2>6. Sound(charge[m - 1], LoopBudget)
    BY <2>5
  <2>7. charge[m] = one(charge[m - 1], m)
    <3> HIDE DEF one, n
    <3> QED
      BY <1>3, <2>3, <2>4
  <2>8. PlanOrder[m] \in Branches /\ usage[PlanOrder[m]] \in Nat
    <3>1. m \in 1..n
      BY <1>1, <2>3, <2>4
    <3>2. PlanOrder[m] \in Branches
      BY <3>1, PlanOrdered DEF Orders
    <3>3. usage[PlanOrder[m]] \in 0..per_branch_cap /\ per_branch_cap \in Nat
      BY <3>2, AllocationAssumption
    <3> QED
      BY <3>2, <3>3
  <2>9. Sound(one(charge[m - 1], m), LoopBudget)
    BY <2>6, <2>8, ConsumedSound
  <2> QED
    BY <2>3, <2>7, <2>9
<1>6. n \in 0..n /\ n \notin Unsound
  BY <1>1, <1>5
<1> QED
  BY <1>4, <1>6

---------------------------------------------------------------------------
(* Each node keeps the invariant. *)

LEMMA EntryKeeps == IInv /\ Entry => IInv'
<1> SUFFICES ASSUME IInv, Entry PROVE IInv'
  OBVIOUS
<1>1. /\ next = "entry" /\ run \in Runs /\ run' = run
      /\ settings' = settings /\ proc' = proc /\ resumes' = resumes
      /\ steps' = steps + 1 /\ budget' = budget /\ fan' = fan
      /\ next' = NodeOfPhase[run.phase]
  BY DEF Entry, At, Goto, IInv, Typed
<1>2. /\ run.phase = "planning" => next' = "planner"
      /\ run.phase = "researching" => next' = "research_prepare"
      /\ run.phase = "extracting" => next' = "extractor"
      /\ run.phase = "critiquing" => next' = "critic"
      /\ run.phase = "reporting" => next' = "reporter"
      /\ run.phase = "evaluating" => next' = "evaluator"
      /\ run.phase = "done" => next' = "END"
      /\ run.phase \in Phases
  BY <1>1 DEF NodeOfPhase, Runs, Phases
<1>3. next' \in {"planner", "research_prepare", "extractor", "critic", "reporter",
                 "evaluator", "END"}
  BY <1>2 DEF Phases
<1>4. Typed'
  BY <1>1, <1>3 DEF IInv, Typed, FanTyped, Created, LoopBudget, research_loop_active, Nodes
<1>5. Located'
  BY <1>1, <1>2, <1>3 DEF Located, Phases
<1>6. Judged'
  BY <1>1 DEF IInv, Judged
<1>7. Counted'
  BY <1>1, <1>3 DEF IInv, Counted, LoopWithinBounds, MayGoOn, research_loop_active
<1>8. Charges'
  BY <1>1, <1>3 DEF IInv, Charges, Decided, Joined, PlannedIterations, research_loop_active
<1>9. Ledgers'
  BY <1>1, <1>3 DEF IInv, Ledgers, Decided, Joined, InFanOut, research_loop_active
<1>10. StepsCounted'
  <2>1. RoundSteps' = RoundSteps /\ steps' = 1 /\ run.critic_iteration \in Nat
    BY <1>1, WorkflowAssumption DEF RoundSteps, IInv, StepsCounted, Typed, Runs
  <2> QED
    BY <1>1, <1>3, <2>1, Products DEF IInv, StepsCounted
<1> QED
  BY <1>4, <1>5, <1>6, <1>7, <1>8, <1>9, <1>10 DEF IInv

LEMMA PlannerKeeps == IInv /\ Planner => IInv'
<1> SUFFICES ASSUME IInv, Planner PROVE IInv'
  OBVIOUS
<1> DEFINE planned == [run EXCEPT !.step_status = "pending", !.step_calls = NoCalls]
           state == complete_phase(planned, "planning", "researching")
<1>1. /\ next = "planner" /\ run \in Runs
      /\ settings' = settings /\ proc' = proc /\ resumes' = resumes
      /\ steps' = steps + 1 /\ budget' = budget /\ fan' = fan
      /\ run' = state /\ next' \in {"END", "research_prepare"}
  BY DEF Planner, At, Goto, UnlessPaused, IInv, Typed
<1>2. /\ planned \in Runs /\ planned.step_calls = NoCalls
      /\ planned.usage = run.usage /\ planned.report = run.report
      /\ planned.critic_report = run.critic_report
      /\ planned.critic_iteration = run.critic_iteration
      /\ planned.tracker = run.tracker /\ planned.route = run.route
      /\ planned.intents = run.intents /\ planned.process = run.process
  BY <1>1 DEF Runs, NoCalls
<1>3. "planning" \in Phases /\ "researching" \in Phases
  BY DEF Phases
<1> HIDE DEF planned
<1>4. /\ run' \in Runs /\ run'.phase = "researching" /\ run'.step_calls = NoCalls
      /\ run'.usage = run.usage /\ run'.report = run.report
      /\ AccountsKept /\ VerdictKept
  BY <1>1, <1>2, <1>3, PhaseCompleted DEF AccountsKept, VerdictKept
<1> HIDE DEF state
<1>5. Typed'
  BY <1>1, <1>4 DEF IInv, Typed, FanTyped, Created, LoopBudget, research_loop_active, Nodes
<1>6. Located'
  BY <1>1, <1>4 DEF Located
<1>7. Judged'
  BY <1>1, <1>4 DEF IInv, Located, Judged, VerdictKept, Before, Reviewing, After
<1>8. Counted'
  BY <1>1, <1>4 DEF IInv, Located, Counted, LoopWithinBounds, MayGoOn, AccountsKept,
     Before, Reviewing, research_loop_active
<1>9. Charges'
  <2>1. \A b \in Branches : run'.step_calls[b] = 0
    BY <1>4 DEF NoCalls
  <2>2. per_branch_cap * run'.tracker.iteration \in Nat /\ per_branch_cap * PlannedIterations' \in Nat
    BY <1>1, <1>4, Products DEF IInv, AccountsKept, PlannedIterations, research_loop_active
  <2>3. ~ Joined'
    BY <1>1, <1>4 DEF Joined, Reviewing
  <2> QED
    BY <2>1, <2>2, <2>3 DEF Charges
<1>10. Ledgers'
  <2>1. run.phase = "planning" /\ run.tracker.budget_used = 0 /\ Total(run'.step_calls) = 0
    BY <1>1, <1>4, NoCallsTotal DEF IInv, Located, Counted
  <2> QED
    BY <1>1, <1>4, <2>1 DEF IInv, Ledgers, AccountsKept, Decided, Joined, InFanOut,
       Before, Reviewing, research_loop_active
<1>11. StepsCounted'
  <2>1. /\ RoundSteps' = RoundSteps /\ steps' <= 2 /\ steps' \in Nat
        /\ run'.critic_iteration = 0
    BY <1>1, <1>4 DEF RoundSteps, AccountsKept, VerdictKept, IInv, StepsCounted, Located,
       Typed, Before
  <2> QED
    BY <1>1, <1>4, <2>1, Products DEF IInv, StepsCounted
<1> QED
  BY <1>5, <1>6, <1>7, <1>8, <1>9, <1>10, <1>11 DEF IInv

LEMMA ExtractorKeeps == IInv /\ Extractor => IInv'
<1> SUFFICES ASSUME IInv, Extractor PROVE IInv'
  OBVIOUS
<1> DEFINE state == complete_phase(run, "extracting", "critiquing")
<1>1. /\ next = "extractor" /\ run \in Runs /\ run.phase = "extracting"
      /\ settings' = settings /\ proc' = proc /\ resumes' = resumes
      /\ steps' = steps + 1 /\ budget' = budget /\ fan' = fan
      /\ run' = state /\ next' \in {"END", "critic"}
  BY DEF Extractor, At, Goto, UnlessPaused, IInv, Typed, Located
<1>2. "extracting" \in Phases /\ "critiquing" \in Phases
  BY DEF Phases
<1>3. /\ run' \in Runs /\ run'.phase = "critiquing" /\ run'.report = run.report
      /\ AccountsKept /\ VerdictKept /\ WorkKept
  BY <1>1, <1>2, PhaseCompleted DEF AccountsKept, VerdictKept, WorkKept
<1> HIDE DEF state
<1>4. Typed'
  BY <1>1, <1>3 DEF IInv, Typed, FanTyped, Created, LoopBudget, research_loop_active, Nodes
<1>5. Located'
  BY <1>1, <1>3 DEF Located
<1>6. Judged'
  BY <1>1, <1>3 DEF IInv, Judged, VerdictKept, Before, Reviewing, After
<1>7. Counted'
  BY <1>1, <1>3 DEF IInv, Counted, LoopWithinBounds, MayGoOn, AccountsKept,
     Before, Reviewing, research_loop_active
<1>8. Charges'
  BY <1>1, <1>3 DEF IInv, Charges, Decided, Joined, AccountsKept, WorkKept,
     Before, Reviewing, PlannedIterations, research_loop_active
<1>9. Ledgers'
  BY <1>1, <1>3 DEF IInv, Ledgers, AccountsKept, WorkKept, Decided, Joined, InFanOut,
     Before, Reviewing, research_loop_active
<1>10. StepsCounted'
  <2>1. /\ RoundSteps' = RoundSteps /\ steps' = steps + 1 /\ steps \in Nat
        /\ steps <= RoundSteps + 5 /\ run'.critic_iteration = 0
        /\ MayGoOn
    BY <1>1, <1>3 DEF RoundSteps, AccountsKept, VerdictKept, IInv, StepsCounted, Counted,
       Typed, Reviewing
  <2> QED
    BY <1>1, <1>3, <2>1, Products DEF IInv, StepsCounted, Before
<1> QED
  BY <1>4, <1>5, <1>6, <1>7, <1>8, <1>9, <1>10 DEF IInv

(* The verdict ends the reviews, and the reports rest on it. *)
LEMMA ReviewEnds ==
  ASSUME IInv, next = "critic", settings' = settings, proc' = proc, resumes' = resumes,
         steps' = steps + 1, budget' = budget, fan' = fan,
         run' \in Runs, run'.phase = "reporting", run'.report = run.report,
         AccountsKept, WorkKept,
         settings.critic => run'.critic_report \in {"passed", "forced"},
         next' \in {"END", AfterCritic}
  PROVE  IInv'
<1>1. /\ run.phase = "critiquing" /\ run \in Runs
      /\ next' \in {"END", "research_loop_decide", "reflector", "reporter"}
      /\ next' = "research_loop_decide" => research_loop_active
      /\ next' \in {"reflector", "reporter"} => ~ research_loop_active
  BY DEF IInv, Typed, Located, AfterCritic
<1>2. Typed'
  BY <1>1 DEF IInv, Typed, FanTyped, Created, LoopBudget, research_loop_active, Nodes
<1>3. Located'
  BY <1>1 DEF Located, research_loop_active
<1>4. Judged'
  BY <1>1 DEF IInv, Judged, Before, Reviewing, After
<1>5. Counted'
  BY <1>1 DEF IInv, Counted, LoopWithinBounds, MayGoOn, AccountsKept,
     Before, Reviewing, research_loop_active
<1>6. Charges'
  BY <1>1 DEF IInv, Charges, Decided, Joined, AccountsKept, WorkKept,
     Before, Reviewing, PlannedIterations, research_loop_active
<1>7. Ledgers'
  BY <1>1 DEF IInv, Ledgers, AccountsKept, WorkKept, Decided, Joined, InFanOut,
     Before, Reviewing, Typed, Runs, research_loop_active
<1>8. StepsCounted'
  <2>1. /\ RoundSteps' = RoundSteps /\ steps \in Nat /\ MayGoOn
        /\ run.critic_iteration \in Nat /\ max_critic_iter \in Nat
        /\ run.critic_iteration + 1 <= max_critic_iter
        /\ steps <= RoundSteps + 6 + 4 * run.critic_iteration
        /\ ~ research_loop_active => RoundSteps = 0
    <3>1. run.critic_iteration \in Nat /\ run.critic_iteration < max_critic_iter
      BY <1>1, WorkflowAssumption DEF IInv, Runs, Judged, Reviewing
    <3>2. ~ research_loop_active => RoundSteps = 0
      BY WorkflowAssumption DEF IInv, Counted, RoundSteps, PerRound
    <3> QED
      BY <1>1, <3>1, <3>2, WorkflowAssumption DEF RoundSteps, AccountsKept, IInv, StepsCounted,
         Counted, Typed, Reviewing
  <2>2. /\ RoundSteps \in Nat /\ AllRounds \in Nat /\ RoundSteps + PerRound <= AllRounds
        /\ PerRound = 4 * max_critic_iter + 4 /\ PerRound <= AllRounds
    BY <2>1, Products DEF IInv, PerRound
  <2>3. /\ steps' <= RoundSteps + 3 + 4 * max_critic_iter
        /\ steps' <= AllRounds
    BY <2>1, <2>2
  <2>4. /\ ~ (run'.phase \in Before \cup {"extracting"}) /\ (research_loop_active' <=> research_loop_active)
    BY DEF Before, research_loop_active
  <2> QED
    BY <1>1, <2>1, <2>2, <2>3, <2>4 DEF StepsCounted
<1> QED
  BY <1>2, <1>3, <1>4, <1>5, <1>6, <1>7, <1>8 DEF IInv

LEMMA CriticBypassedKeeps == IInv /\ CriticBypassed => IInv'
<1> SUFFICES ASSUME IInv, CriticBypassed PROVE IInv'
  OBVIOUS
<1> DEFINE bypassed == [run EXCEPT !.critic_report = "none"]
           state == complete_phase(bypassed, "critiquing", "reporting")
<1>1. /\ next = "critic" /\ run \in Runs /\ ~ settings.critic
      /\ settings' = settings /\ proc' = proc /\ resumes' = resumes
      /\ steps' = steps + 1 /\ budget' = budget /\ fan' = fan
      /\ run' = state /\ next' \in {"END", AfterCritic}
  BY DEF CriticBypassed, At, Goto, UnlessPaused, IInv, Typed
<1>2. /\ bypassed \in Runs /\ bypassed.report = run.report
      /\ bypassed.step_status = run.step_status /\ bypassed.step_calls = run.step_calls
      /\ bypassed.usage = run.usage
      /\ bypassed.tracker = run.tracker /\ bypassed.route = run.route
      /\ bypassed.intents = run.intents /\ bypassed.process = run.process
  BY <1>1 DEF Runs
<1>3. "critiquing" \in Phases /\ "reporting" \in Phases
  BY DEF Phases
<1> HIDE DEF bypassed
<1>4. /\ run' \in Runs /\ run'.phase = "reporting" /\ run'.report = run.report
      /\ AccountsKept /\ WorkKept
  BY <1>1, <1>2, <1>3, PhaseCompleted DEF AccountsKept, WorkKept
<1> HIDE DEF state
<1> QED
  BY <1>1, <1>4, ReviewEnds

LEMMA CriticKeeps == ASSUME NEW passed \in BOOLEAN PROVE IInv /\ Critic(passed) => IInv'
<1> SUFFICES ASSUME IInv, Critic(passed) PROVE IInv'
  OBVIOUS
<1> DEFINE judged == [run EXCEPT !.critic_report = CriticVerdict(passed),
                                 !.critic_iteration = run.critic_iteration + 1]
           state == complete_phase(judged, "critiquing", "reporting")
           back == [judged EXCEPT !.phase = "critiquing", !.status = "running"]
<1>1. /\ next = "critic" /\ run \in Runs /\ run.phase = "critiquing"
      /\ settings' = settings /\ proc' = proc /\ resumes' = resumes
      /\ steps' = steps + 1 /\ budget' = budget /\ fan' = fan
      /\ \/ /\ judged.critic_report = "failed"
            /\ run' = back /\ next' = "retry_prepare"
         \/ /\ judged.critic_report # "failed"
            /\ run' = state /\ next' \in {"END", AfterCritic}
  BY DEF Critic, At, Goto, UnlessPaused, IInv, Typed, Located
<1>2. /\ run.critic_iteration \in Nat /\ max_critic_iter \in Nat
      /\ run.critic_iteration + 1 <= max_critic_iter
      /\ CriticVerdict(passed) \in {"passed", "forced", "failed"}
      /\ CriticVerdict(passed) = "failed" => run.critic_iteration + 1 < max_critic_iter
  <2>1. /\ run.critic_iteration \in Nat /\ max_critic_iter \in Nat
        /\ run.critic_iteration + 1 <= max_critic_iter
    BY <1>1, WorkflowAssumption DEF IInv, Judged, Runs, Reviewing
  <2> QED
    BY <2>1 DEF CriticVerdict
<1>3. /\ judged \in Runs /\ judged.report = run.report
      /\ judged.critic_report = CriticVerdict(passed)
      /\ judged.critic_iteration = run.critic_iteration + 1
      /\ judged.step_status = run.step_status /\ judged.step_calls = run.step_calls
      /\ judged.usage = run.usage
      /\ judged.tracker = run.tracker /\ judged.route = run.route
      /\ judged.intents = run.intents /\ judged.process = run.process
  <2>1. /\ run \in Runs
        /\ CriticVerdict(passed) \in {"none", "failed", "passed", "forced"}
        /\ run.critic_iteration + 1 \in 0..max_critic_iter
    BY <1>1, <1>2
  <2> QED
    BY <2>1 DEF Runs
<1>4. "critiquing" \in Phases /\ "reporting" \in Phases /\ "running" \in Statuses
  BY DEF Phases, Statuses
<1> HIDE DEF judged
<1>5. CASE judged.critic_report # "failed"
  <2>1. /\ run' \in Runs /\ run'.phase = "reporting" /\ run'.report = run.report
        /\ run'.critic_report \in {"passed", "forced"}
        /\ AccountsKept /\ WorkKept
    BY <1>1, <1>2, <1>3, <1>4, <1>5, PhaseCompleted, SMTT(60)
        DEF AccountsKept, WorkKept
  <2>2. next' \in {"END", AfterCritic}
    BY <1>1, <1>5
  <2> HIDE DEF state, back
  <2> QED
    BY <1>1, <2>1, <2>2, ReviewEnds
<1>6. CASE judged.critic_report = "failed"
  <2>1. /\ run' \in Runs /\ run'.phase = "critiquing" /\ run'.report = run.report
        /\ run'.critic_iteration = run.critic_iteration + 1
        /\ run'.critic_iteration < max_critic_iter
        /\ AccountsKept /\ WorkKept /\ next' = "retry_prepare"
    <3>1. run' = back /\ next' = "retry_prepare"
      BY <1>1, <1>6
    <3>2. /\ back \in Runs /\ back.phase = "critiquing" /\ back.report = judged.report
          /\ back.critic_iteration = judged.critic_iteration
          /\ back.step_status = judged.step_status /\ back.step_calls = judged.step_calls
          /\ back.usage = judged.usage
          /\ back.tracker = judged.tracker /\ back.route = judged.route
          /\ back.intents = judged.intents /\ back.process = judged.process
      BY <1>3, <1>4 DEF Runs
    <3> HIDE DEF back
    <3> QED
      BY <1>2, <1>3, <1>6, <3>1, <3>2 DEF AccountsKept, WorkKept
  <2> HIDE DEF state, back
  <2>2. Typed'
    BY <1>1, <2>1 DEF IInv, Typed, FanTyped, Created, LoopBudget, research_loop_active, Nodes
  <2>3. Located'
    BY <2>1 DEF Located
  <2>4. Judged'
    BY <1>1, <2>1 DEF IInv, Judged, Before, Reviewing, After
  <2>5. Counted'
    BY <1>1, <2>1 DEF IInv, Counted, LoopWithinBounds, MayGoOn, AccountsKept,
       Before, Reviewing, research_loop_active
  <2>6. Charges'
    BY <1>1, <2>1 DEF IInv, Charges, Decided, Joined, AccountsKept, WorkKept,
       Before, Reviewing, PlannedIterations, research_loop_active
  <2>7. Ledgers'
    BY <1>1, <2>1 DEF IInv, Ledgers, AccountsKept, WorkKept, Decided, Joined, InFanOut,
       Before, Reviewing, research_loop_active
  <2>8. StepsCounted'
    <3>1. /\ RoundSteps' = RoundSteps /\ steps \in Nat
          /\ steps <= RoundSteps + 6 + 4 * run.critic_iteration
      BY <1>1, <2>1 DEF RoundSteps, AccountsKept, IInv, StepsCounted, Typed
    <3>2. RoundSteps \in Nat
      BY Products DEF IInv
    <3>3. steps' <= RoundSteps' + 3 + 4 * run'.critic_iteration
      BY <1>1, <1>2, <2>1, <3>1, <3>2
    <3> QED
      BY <2>1, <3>3 DEF StepsCounted, Before
  <2> QED
    BY <2>2, <2>3, <2>4, <2>5, <2>6, <2>7, <2>8 DEF IInv
<1> QED
  BY <1>5, <1>6

(* The retry nodes leave the run as it is and lead back to the critic. *)
LEMMA RetryKeeps == IInv /\ (RetryPrepare \/ RetryOne \/ RetryJoin) => IInv'
<1> SUFFICES ASSUME IInv, RetryPrepare \/ RetryOne \/ RetryJoin PROVE IInv'
  OBVIOUS
<1>1. /\ run \in Runs /\ run.phase = "critiquing"
      /\ settings' = settings /\ proc' = proc /\ resumes' = resumes
      /\ steps' = steps + 1 /\ budget' = budget /\ fan' = fan
      /\ \/ next = "retry_prepare" /\ next' \in {"retry_one", "retry_join"}
         \/ next = "retry_one" /\ next' = "retry_join"
         \/ next = "retry_join" /\ next' = "critic"
      /\ \/ run' = run
         \/ run' = [run EXCEPT !.phase = "critiquing", !.status = "running"]
  BY DEF RetryPrepare, RetryOne, RetryJoin, At, Goto, IInv, Typed, Located
<1>2. /\ run' \in Runs /\ run'.phase = "critiquing" /\ run'.report = run.report
      /\ AccountsKept /\ WorkKept /\ VerdictKept
  <2>1. "critiquing" \in Phases /\ "running" \in Statuses
    BY DEF Phases, Statuses
  <2>2. CASE run' = run
    BY <1>1, <2>2 DEF AccountsKept, WorkKept, VerdictKept
  <2>3. CASE run' = [run EXCEPT !.phase = "critiquing", !.status = "running"]
    <3>1. [run EXCEPT !.phase = "critiquing"] \in Runs
      BY <1>1, <2>1 DEF Runs
    <3>2. run' = [[run EXCEPT !.phase = "critiquing"] EXCEPT !.status = "running"]
      BY <1>1, <2>3 DEF Runs
    <3>3. run' \in Runs
      BY <2>1, <3>1, <3>2 DEF Runs
    <3> QED
      BY <1>1, <3>2, <3>3 DEF Runs, AccountsKept, WorkKept, VerdictKept
  <2> QED
    BY <1>1, <2>2, <2>3
<1>3. Typed'
  BY <1>1, <1>2 DEF IInv, Typed, FanTyped, Created, LoopBudget, research_loop_active, Nodes
<1>4. Located'
  BY <1>1, <1>2 DEF Located
<1>5. Judged'
  BY <1>1, <1>2 DEF IInv, Judged, VerdictKept, Before, Reviewing, After
<1>6. Counted'
  BY <1>1, <1>2 DEF IInv, Counted, LoopWithinBounds, MayGoOn, AccountsKept,
     Before, Reviewing, research_loop_active
<1>7. Charges'
  BY <1>1, <1>2 DEF IInv, Charges, Decided, Joined, AccountsKept, WorkKept,
     Before, Reviewing, PlannedIterations, research_loop_active
<1>8. Ledgers'
  BY <1>1, <1>2 DEF IInv, Ledgers, AccountsKept, WorkKept, Decided, Joined, InFanOut,
     Before, Reviewing, research_loop_active
<1>9. StepsCounted'
  <2>1. /\ RoundSteps' = RoundSteps /\ steps \in Nat
        /\ run'.critic_iteration = run.critic_iteration /\ run.critic_iteration \in Nat
        /\ RoundSteps \in Nat
    BY <1>1, <1>2, Products, WorkflowAssumption
       DEF RoundSteps, AccountsKept, VerdictKept, IInv, Typed, Runs
  <2>2. ~ (run'.phase \in Before \cup {"extracting"})
    BY <1>2 DEF Before
  <2> QED
    BY <1>1, <2>1, <2>2 DEF IInv, StepsCounted
<1> QED
  BY <1>3, <1>4, <1>5, <1>6, <1>7, <1>8, <1>9 DEF IInv

(* What a sound budget tells a branch it may call. *)
LEMMA AllowanceTyped ==
  ASSUME NEW total \in Nat, NEW bb, Sound(bb, total)
  PROVE  /\ bb.allocated \in [Branches -> 0..per_branch_cap]
         /\ RemainingCalls(bb) \in [Branches -> 0..per_branch_cap]
<1>1. /\ bb.allocated \in [Branches -> 0..per_branch_cap]
      /\ bb.used \in [Branches -> 0..per_branch_cap]
  BY DEF Sound, Budgets
<1>2. \A b \in Branches : remaining(bb, b) \in 0..per_branch_cap
  <2> SUFFICES ASSUME NEW b \in Branches PROVE remaining(bb, b) \in 0..per_branch_cap
    OBVIOUS
  <2>1. /\ bb.allocated[b] \in 0..per_branch_cap /\ bb.used[b] \in 0..per_branch_cap
        /\ per_branch_cap \in Nat
    BY <1>1, AllocationAssumption
  <2> QED
    BY <2>1 DEF remaining, Most
<1> QED
  BY <1>1, <1>2 DEF RemainingCalls

LEMMA BudgetSize ==
  ASSUME Typed
  PROVE  LoopBudget \in Nat /\ PlannedIterations \in Nat \ {0}
BY LoopSpecAssumption, WorkflowAssumption DEF LoopBudget, PlannedIterations

LEMMA ResearchPrepareKeeps == IInv /\ ResearchPrepare => IInv'
<1> SUFFICES ASSUME IInv, ResearchPrepare PROVE IInv'
  OBVIOUS
<1> DEFINE allowed == IF Created THEN run.allocated_calls ELSE budget'.allocated
           begun == IF research_loop_active THEN run.tracker.iteration + 1 ELSE run.intents
           state == [run EXCEPT !.step_status = "running", !.intents = begun,
                                !.allocated_calls = allowed]
<1>1. /\ next = "research_prepare" /\ run \in Runs /\ run.phase = "researching"
      /\ settings' = settings /\ proc' = proc /\ resumes' = resumes
      /\ steps' = steps + 1 /\ fan' = <<>>
      /\ next' = "research_one"
  BY DEF ResearchPrepare, At, Goto, IInv, Typed, Located
<1>2. /\ budget' = IF Created THEN budget
                   ELSE Allocated(PlanOrder, LoopBudget, per_branch_cap, PlannedIterations)
      /\ run' = state
  BY DEF ResearchPrepare, Goto
<1>3. Sound(budget', LoopBudget) /\ LoopBudget \in Nat
  BY <1>2, AllocatedSound, BudgetSize, PlanOrdered DEF IInv, Typed
<1>4. allowed \in [Branches -> 0..per_branch_cap]
  BY <1>1, <1>3, AllowanceTyped DEF Runs
<1>5. begun \in Nat
  BY <1>1 DEF Runs, Trackers
<1> HIDE DEF allowed, begun
<1>6. /\ run' \in Runs /\ run'.phase = "researching" /\ run'.step_status = "running"
      /\ run'.step_calls = run.step_calls /\ run'.report = run.report
      /\ run'.tracker = run.tracker /\ run'.route = run.route
      /\ run'.process = run.process /\ run'.intents = begun
      /\ VerdictKept
  BY <1>1, <1>2, <1>4, <1>5 DEF Runs, VerdictKept
<1> HIDE DEF state
<1>7. Typed'
  <2>1. LoopBudget' = LoopBudget
    BY <1>1 DEF LoopBudget, research_loop_active
  <2>2. FanTyped'
    BY <1>1 DEF FanTyped
  <2> QED
    BY <1>1, <1>3, <1>6, <2>1, <2>2 DEF IInv, Typed, Nodes
<1>8. Located'
  BY <1>1, <1>6 DEF Located
<1>9. Judged'
  BY <1>1, <1>6 DEF IInv, Judged, VerdictKept, Before, Reviewing, After
<1>10. Counted'
  BY <1>1, <1>6 DEF IInv, Counted, LoopWithinBounds, MayGoOn, Before, Reviewing,
     research_loop_active
<1>11. Charges'
  BY <1>1, <1>6 DEF IInv, Charges, Decided, Joined, Before, Reviewing, PlannedIterations,
     research_loop_active
<1>12. Ledgers'
  <2>1. research_loop_active => begun = run.process + 1 /\ run.process \in Nat
    BY <1>1 DEF begun, IInv, Counted, LoopWithinBounds, Runs
  <2> QED
    BY <1>1, <1>6, <2>1 DEF IInv, Ledgers, Decided, Joined, InFanOut,
       Before, Reviewing, research_loop_active
<1>13. StepsCounted'
  <2>1. /\ RoundSteps' = RoundSteps /\ steps \in Nat /\ RoundSteps \in Nat
        /\ steps <= RoundSteps + 2
    BY <1>1, <1>6, Products DEF RoundSteps, IInv, StepsCounted, Typed
  <2>2. run'.critic_iteration = 0
    BY <1>1, <1>6 DEF IInv, StepsCounted, VerdictKept, Before
  <2> QED
    BY <1>1, <1>6, <2>1, <2>2 DEF StepsCounted
<1> QED
  BY <1>7, <1>8, <1>9, <1>10, <1>11, <1>12, <1>13 DEF IInv

LEMMA ResearchOneKeeps ==
  ASSUME NEW b \in Branches, NEW calls \in 0..per_branch_cap
  PROVE  IInv /\ ResearchOne(b, calls) => IInv'
<1> SUFFICES ASSUME IInv, ResearchOne(b, calls) PROVE IInv'
  OBVIOUS
<1> DEFINE state == [run EXCEPT !.usage = fan']
<1>1. /\ next = "research_one" /\ run \in Runs /\ run.phase = "researching"
      /\ run.step_status = "running" /\ budget' = budget
      /\ fan' = [c \in DOMAIN fan \cup {b} |-> IF c = b THEN calls ELSE fan[c]]
      /\ IF DOMAIN fan' = Branches THEN Goto("research_join", state)
         ELSE UNCHANGED <<settings, run, next, proc, steps, resumes>>
  BY DEF ResearchOne, At, IInv, Typed, Located
<1>2. DOMAIN fan' \subseteq Branches /\ \A c \in DOMAIN fan' : fan'[c] \in 0..per_branch_cap
  BY <1>1 DEF IInv, Typed, FanTyped
<1>3. fan' = [c \in DOMAIN fan' |-> fan'[c]]
  BY <1>1
<1>4. CASE DOMAIN fan' # Branches
  <2>1. UNCHANGED <<settings, run, next, proc, steps, resumes>>
    BY <1>1, <1>4
  <2>2. Typed'
    BY <1>1, <1>2, <2>1 DEF IInv, Typed, FanTyped, Created, LoopBudget, research_loop_active
  <2>3. Located' /\ Judged' /\ StepsCounted'
    BY <2>1 DEF IInv, Located, Judged, StepsCounted, RoundSteps, research_loop_active
  <2>4. Counted' /\ Charges' /\ Ledgers'
    BY <2>1 DEF IInv, Counted, LoopWithinBounds, MayGoOn, Charges, Ledgers, Decided, Joined,
       InFanOut, PlannedIterations, research_loop_active
  <2> QED
    BY <2>2, <2>3, <2>4 DEF IInv
<1>5. CASE DOMAIN fan' = Branches
  <2>1. /\ settings' = settings /\ proc' = proc /\ resumes' = resumes
        /\ steps' = steps + 1 /\ next' = "research_join" /\ run' = state
    BY <1>1, <1>5 DEF Goto
  <2>2. fan' \in [Branches -> 0..per_branch_cap]
    BY <1>2, <1>3, <1>5
  <2>3. /\ run' \in Runs /\ run'.phase = "researching" /\ run'.step_status = "running"
        /\ run'.step_calls = run.step_calls /\ run'.report = run.report
        /\ AccountsKept /\ VerdictKept
    BY <1>1, <2>1, <2>2 DEF Runs, AccountsKept, VerdictKept
  <2> HIDE DEF state
  <2>4. Typed'
    <3>1. FanTyped'
      BY <1>2 DEF FanTyped
    <3> QED
      BY <1>1, <2>1, <2>3, <3>1
         DEF IInv, Typed, Created, LoopBudget, research_loop_active, Nodes
  <2>5. Located'
    BY <2>1, <2>3 DEF Located
  <2>6. Judged'
    BY <1>1, <2>1, <2>3 DEF IInv, Judged, VerdictKept, Before, Reviewing, After
  <2>7. Counted'
    BY <1>1, <2>1, <2>3 DEF IInv, Counted, LoopWithinBounds, MayGoOn, AccountsKept,
       Before, Reviewing, research_loop_active
  <2>8. Charges'
    BY <1>1, <2>1, <2>3 DEF IInv, Charges, Decided, Joined, AccountsKept, Before, Reviewing,
       PlannedIterations, research_loop_active
  <2>9. Ledgers'
    BY <1>1, <2>1, <2>3 DEF IInv, Ledgers, Decided, Joined, InFanOut, AccountsKept,
       Before, Reviewing, research_loop_active
  <2>10. StepsCounted'
    <3>1. /\ RoundSteps' = RoundSteps /\ steps \in Nat /\ RoundSteps \in Nat
          /\ steps <= RoundSteps + 3 /\ run'.critic_iteration = 0
      BY <1>1, <2>3, Products
         DEF RoundSteps, IInv, StepsCounted, Typed, AccountsKept, VerdictKept, Before
    <3> QED
      BY <2>1, <2>3, <3>1 DEF StepsCounted
  <2> QED
    BY <2>4, <2>5, <2>6, <2>7, <2>8, <2>9, <2>10 DEF IInv
<1> QED
  BY <1>4, <1>5

LEMMA ResearchJoinKeeps ==
  ASSUME NEW metric \in [Branches -> Metrics]
  PROVE  IInv /\ ResearchJoin(metric) => IInv'
<1> SUFFICES ASSUME IInv, ResearchJoin(metric) PROVE IInv'
  OBVIOUS
<1> DEFINE sum == [b \in Branches |-> run.step_calls[b] + run.usage[b]]
           allowed == IF Created THEN RemainingCalls(budget') ELSE run.allocated_calls
           joined == [run EXCEPT !.step_calls = sum, !.step_status = "succeeded",
                                 !.allocated_calls = allowed]
           state == complete_phase(joined, "researching", "extracting")
<1>1. /\ next = "research_join" /\ run \in Runs /\ run.phase = "researching"
      /\ run.step_status = "running"
      /\ settings' = settings /\ proc' = proc /\ resumes' = resumes
      /\ steps' = steps + 1 /\ fan' = <<>>
      /\ run' = state /\ next' \in {"END", "extractor"}
  <2>1. /\ next = "research_join" /\ run \in Runs /\ run.phase = "researching"
        /\ run.step_status = "running"
    BY DEF ResearchJoin, At, IInv, Typed, Located
  <2> QED
    BY <2>1 DEF ResearchJoin, Goto, UnlessPaused
<1>2. budget' = IF ~ Created THEN budget
                ELSE IF research_loop_active THEN Charged(budget, run.usage)
                ELSE Redistributed(Charged(budget, run.usage), metric)
  BY DEF ResearchJoin
<1>3. LoopBudget \in Nat /\ run.usage \in [Branches -> 0..per_branch_cap]
  BY <1>1, BudgetSize DEF IInv, Runs
<1>4. Created => Sound(budget', LoopBudget)
  <2> SUFFICES ASSUME Created PROVE Sound(budget', LoopBudget)
    OBVIOUS
  <2>1. Sound(Charged(budget, run.usage), LoopBudget)
    BY <1>3, ChargedSound DEF IInv, Typed
  <2>2. CASE research_loop_active
    BY <1>2, <2>1, <2>2
  <2>3. CASE ~ research_loop_active
    <3>1. budget' = Redistributed(Charged(budget, run.usage), metric)
      BY <1>2, <2>3
    <3>2. {} \in SUBSET Branches /\ 0 \in Nat
      OBVIOUS
    <3> QED
      BY <1>3, <2>1, <3>1, <3>2, ReallocatedSound DEF Redistributed
  <2> QED
    BY <2>2, <2>3
<1>5. Created' => Created
  <2>1. ~ Created => budget' = budget
    BY <1>2
  <2> QED
    BY <2>1 DEF Created
<1>6. allowed \in [Branches -> 0..per_branch_cap]
  BY <1>1, <1>3, <1>4, AllowanceTyped DEF Runs
<1>7. sum \in [Branches -> Nat] /\ \A b \in Branches : sum[b] = run.step_calls[b] + run.usage[b]
  <2>1. \A b \in Branches : run.step_calls[b] \in Nat /\ run.usage[b] \in Nat
    BY <1>1, <1>3, AllocationAssumption DEF Runs
  <2> QED
    BY <2>1
<1> HIDE DEF sum, allowed
<1>8. /\ joined \in Runs /\ joined.step_calls = sum
      /\ joined.usage = run.usage /\ joined.report = run.report
      /\ joined.critic_report = run.critic_report
      /\ joined.critic_iteration = run.critic_iteration
      /\ joined.tracker = run.tracker /\ joined.route = run.route
      /\ joined.intents = run.intents /\ joined.process = run.process
  BY <1>1, <1>6, <1>7 DEF Runs
<1>9. "researching" \in Phases /\ "extracting" \in Phases
  BY DEF Phases
<1> HIDE DEF joined
<1>10. /\ run' \in Runs /\ run'.phase = "extracting" /\ run'.step_calls = sum
       /\ run'.usage = run.usage /\ run'.report = run.report
       /\ AccountsKept /\ VerdictKept
  BY <1>1, <1>8, <1>9, PhaseCompleted DEF AccountsKept, VerdictKept
<1> HIDE DEF state
<1>11. Typed'
  <2>1. LoopBudget' = LoopBudget
    BY <1>1 DEF LoopBudget, research_loop_active
  <2>2. FanTyped'
    BY <1>1 DEF FanTyped
  <2> QED
    BY <1>1, <1>4, <1>5, <1>10, <2>1, <2>2 DEF IInv, Typed, Nodes
<1>12. Located'
  BY <1>1, <1>10 DEF Located
<1>13. Judged'
  BY <1>1, <1>10 DEF IInv, Judged, VerdictKept, Before, Reviewing, After
<1>14. Counted'
  BY <1>1, <1>10 DEF IInv, Counted, LoopWithinBounds, MayGoOn, AccountsKept,
     Before, Reviewing, research_loop_active
<1>15. Charges'
  <2> SUFFICES ASSUME NEW b \in Branches
               PROVE  /\ run'.step_calls[b] <= per_branch_cap * (run.tracker.iteration + 1)
                      /\ run'.step_calls[b] <= per_branch_cap * PlannedIterations
    BY <1>1, <1>10 DEF Charges, AccountsKept, Before, Decided, PlannedIterations,
       research_loop_active
  <2> DEFINE spent == per_branch_cap * run.tracker.iteration
             more == per_branch_cap * (run.tracker.iteration + 1)
             planned == per_branch_cap * PlannedIterations
  <2>1. /\ run.step_calls[b] \in Nat /\ run.usage[b] \in Nat /\ run.usage[b] <= per_branch_cap
        /\ per_branch_cap \in Nat
    BY <1>1, <1>3, AllocationAssumption DEF Runs
  <2>2. run.step_calls[b] <= spent
    BY <1>1 DEF IInv, Charges, Before
  <2>3. MayGoOn
    BY <1>1 DEF IInv, Counted, Before
  <2>4. spent \in Nat /\ planned \in Nat /\ more = spent + per_branch_cap /\ more <= planned
    BY <2>3, Products DEF IInv
  <2>5. run'.step_calls[b] = run.step_calls[b] + run.usage[b]
    BY <1>7, <1>10
  <2> HIDE DEF spent, more, planned
  <2>6. run'.step_calls[b] <= more /\ run'.step_calls[b] <= planned
    BY <2>1, <2>2, <2>4, <2>5
  <2> QED
    BY <2>6 DEF more, planned
<1>16. Ledgers'
  <2>1. Total(sum) = Total(run.step_calls) + Total(run.usage)
    BY <1>1, <1>3, <1>7, TotalAdds, AccountsAreCounts DEF Counts, Accounts, Runs
  <2>2. research_loop_active =>
          /\ run.intents = run.process + 1 /\ run.process \in Nat
          /\ Total(run.step_calls) = run.tracker.budget_used
    BY <1>1 DEF IInv, Ledgers, InFanOut, Before, Runs
  <2> QED
    BY <1>1, <1>10, <2>1, <2>2 DEF Ledgers, Decided, Joined, InFanOut, AccountsKept,
       Before, Reviewing, research_loop_active
<1>17. StepsCounted'
  <2>1. /\ RoundSteps' = RoundSteps /\ steps \in Nat /\ RoundSteps \in Nat /\ AllRounds \in Nat
        /\ steps <= RoundSteps + 4 /\ run'.critic_iteration = 0
        /\ RoundSteps + PerRound <= AllRounds /\ PerRound >= 8 /\ PerRound \in Nat
    BY <1>1, <1>10, Products
       DEF RoundSteps, IInv, StepsCounted, Typed, AccountsKept, VerdictKept, Before, Counted
  <2>2. steps' <= RoundSteps' + 5 /\ steps' <= AllRounds + 3
    BY <1>1, <2>1
  <2> QED
    BY <1>1, <1>10, <2>1, <2>2 DEF StepsCounted
<1> QED
  BY <1>11, <1>12, <1>13, <1>14, <1>15, <1>16, <1>17 DEF IInv

LEMMA ResearchLoopDecideKeeps ==
  ASSUME NEW metric \in [Branches -> Metrics], NEW improved \in BOOLEAN, NEW stop \in BOOLEAN
  PROVE  IInv /\ ResearchLoopDecide(metric, improved, stop) => IInv'
<1> SUFFICES ASSUME IInv, ResearchLoopDecide(metric, improved, stop) PROVE IInv'
  OBVIOUS
<1> DEFINE calls == Total(run.usage)
           tracker == Advanced(run.tracker, calls, improved)
           route == Route(tracker, stop)
           allowed == IF Created THEN RemainingCalls(budget') ELSE run.allocated_calls
           state == [run EXCEPT !.tracker = tracker, !.route = route,
                                !.process = run.process + 1, !.allocated_calls = allowed]
<1>1. /\ next = "research_loop_decide" /\ run \in Runs /\ run.phase = "reporting"
      /\ research_loop_active
      /\ settings' = settings /\ proc' = proc /\ resumes' = resumes
      /\ steps' = steps + 1 /\ fan' = fan /\ run' = state
      /\ next' = IF settings.reflection THEN "reflector"
                 ELSE IF route = "continue" THEN "research_refine" ELSE "reporter"
      /\ ~ DecideRefused
  <2>1. /\ next = "research_loop_decide" /\ run \in Runs /\ run.phase = "reporting"
        /\ research_loop_active
    BY DEF ResearchLoopDecide, At, IInv, Typed, Located
  <2> QED
    BY <2>1 DEF ResearchLoopDecide, Goto
<1>2. budget' = IF Created THEN Redistributed(budget, metric) ELSE budget
  BY DEF ResearchLoopDecide
<1>3. Created => Sound(budget', LoopBudget)
  <2>1. {} \in SUBSET Branches /\ 0 \in Nat /\ LoopBudget \in Nat
    BY BudgetSize DEF IInv
  <2> QED
    BY <1>2, <2>1, ReallocatedSound DEF Redistributed, IInv, Typed
<1>4. Created' => Created
  BY <1>2 DEF Created
<1>5. allowed \in [Branches -> 0..per_branch_cap]
  BY <1>1, <1>3, AllowanceTyped, BudgetSize DEF Runs, IInv
<1>6. calls \in Nat /\ run.usage \in Counts
  BY <1>1, AccountsAreCounts DEF Runs, Accounts
<1> HIDE DEF calls
<1>7. /\ run.tracker.iteration \in Nat /\ run.tracker.budget_used \in Nat
      /\ run.tracker.no_progress_count \in Nat /\ run.process \in Nat
      /\ max_iterations \in Nat /\ no_progress_window \in Nat /\ budget_ceiling \in Nat
  BY <1>1, LoopSpecAssumption DEF Runs, Trackers
<1>8. /\ tracker \in Trackers
      /\ tracker.iteration = run.tracker.iteration + 1
      /\ tracker.budget_used = run.tracker.budget_used + calls
      /\ tracker.no_progress_count <= run.tracker.no_progress_count + 1
  BY <1>7, <1>6 DEF Advanced, Trackers
<1> HIDE DEF tracker
<1>9. /\ route \in {"none", "continue", "stop"}
      /\ route = "continue" =>
           /\ tracker.iteration < max_iterations
           /\ tracker.no_progress_count < no_progress_window
  <2>1. route \in {"continue", "stop"}
    BY DEF Route
  <2>2. ASSUME route = "continue"
        PROVE  /\ tracker.iteration < max_iterations
               /\ tracker.no_progress_count < no_progress_window
    <3>1. Boundaries(tracker) = {}
      BY <2>2 DEF Route
    <3>2. "max_iterations" \notin Boundaries(tracker) /\ "no_progress_window" \notin Boundaries(tracker)
      BY <3>1
    <3>3. ~ (tracker.iteration >= max_iterations)
      BY <3>2 DEF Boundaries
    <3>4. ~ (tracker.no_progress_count >= no_progress_window)
      BY <3>2 DEF Boundaries
    <3>5. tracker.iteration \in Nat /\ tracker.no_progress_count \in Nat
      BY <1>8 DEF Trackers
    <3> QED
      BY <1>7, <3>3, <3>4, <3>5
  <2> QED
    BY <2>1, <2>2
<1> HIDE DEF route, allowed
<1>10. /\ run' \in Runs /\ run'.phase = "reporting" /\ run'.report = run.report
       /\ run'.tracker = tracker /\ run'.route = route
       /\ run'.process = run.process + 1 /\ run'.intents = run.intents
       /\ run'.step_status = run.step_status /\ run'.step_calls = run.step_calls
       /\ VerdictKept
  <2>1. /\ run \in Runs /\ run' = state /\ run.phase = "reporting"
        /\ allowed \in [Branches -> 0..per_branch_cap]
        /\ tracker \in Trackers /\ route \in {"none", "continue", "stop"}
        /\ run.process + 1 \in Nat
    BY <1>1, <1>5, <1>7, <1>8, <1>9
  <2>2. state \in Runs
    BY <2>1 DEF Runs
  <2>3. /\ state.phase = "reporting" /\ state.report = run.report
        /\ state.tracker = tracker /\ state.route = route
        /\ state.process = run.process + 1 /\ state.intents = run.intents
        /\ state.step_status = run.step_status /\ state.step_calls = run.step_calls
        /\ state.critic_report = run.critic_report
        /\ state.critic_iteration = run.critic_iteration
    BY <2>1 DEF Runs
  <2> HIDE DEF state
  <2> QED
    BY <2>1, <2>2, <2>3 DEF VerdictKept
<1> HIDE DEF state
<1>11. /\ next' \in {"reflector", "research_refine", "reporter"}
       /\ next' = "research_refine" => route = "continue"
  BY <1>1
<1>12. MayGoOn /\ LoopWithinBounds
  BY <1>1 DEF IInv, Counted
<1>13. Typed'
  <2>1. LoopBudget' = LoopBudget
    BY <1>1 DEF LoopBudget, research_loop_active
  <2>2. FanTyped'
    BY <1>1 DEF FanTyped, IInv, Typed
  <2> QED
    BY <1>1, <1>3, <1>4, <1>10, <1>11, <2>1, <2>2 DEF IInv, Typed, Nodes
<1>14. Located'
  BY <1>1, <1>10, <1>11 DEF Located, research_loop_active
<1>15. Judged'
  BY <1>1, <1>10 DEF IInv, Judged, VerdictKept, Before, Reviewing, After
<1>16. Counted'
  <2>1. LoopWithinBounds'
    <3>1. tracker.budget_used <= budget_ceiling
      BY <1>1, <1>6, <1>7, <1>8 DEF DecideRefused, Overspent, calls
    <3>2. run'.process = run'.tracker.iteration
      BY <1>7, <1>8, <1>10, <1>12 DEF LoopWithinBounds
    <3>3. /\ tracker.iteration <= max_iterations
          /\ tracker.no_progress_count <= no_progress_window
      <4>1. tracker.no_progress_count \in Nat
        BY <1>8 DEF Trackers
      <4> QED
        BY <1>7, <1>8, <1>12, <4>1 DEF MayGoOn
    <3> QED
      BY <1>10, <3>1, <3>2, <3>3 DEF LoopWithinBounds
  <2>2. route = "continue" => MayGoOn'
    BY <1>9, <1>10 DEF MayGoOn
  <2> QED
    BY <1>1, <1>10, <1>11, <2>1, <2>2 DEF Counted, Before, Reviewing, research_loop_active
<1>17. Charges'
  <2>1. \A b \in Branches :
          /\ run.step_calls[b] <= per_branch_cap * (run.tracker.iteration + 1)
          /\ run.step_calls[b] <= per_branch_cap * PlannedIterations
    BY <1>1 DEF IInv, Charges, Joined
  <2>2. ~ Joined' /\ PlannedIterations' = PlannedIterations
    BY <1>1, <1>10, <1>11 DEF Joined, Reviewing, PlannedIterations, research_loop_active
  <2> QED
    BY <1>8, <1>10, <2>1, <2>2 DEF Charges
<1>18. Ledgers'
  <2>1. /\ run.intents = run.process + 1
        /\ Total(run.step_calls) = run.tracker.budget_used + calls
    BY <1>1 DEF IInv, Ledgers, Joined, calls
  <2>2. ~ Joined' /\ ~ InFanOut'
    BY <1>10, <1>11 DEF Joined, InFanOut, Reviewing
  <2> QED
    BY <1>8, <1>10, <2>1, <2>2 DEF Ledgers
<1>19. StepsCounted'
  <2>1. /\ steps \in Nat /\ RoundSteps \in Nat /\ AllRounds \in Nat
        /\ steps <= RoundSteps + 3 + 4 * max_critic_iter
        /\ RoundSteps + PerRound <= AllRounds /\ PerRound \in Nat
        /\ PerRound = 4 * max_critic_iter + 4 /\ max_critic_iter \in Nat
    BY <1>1, <1>12, Products, WorkflowAssumption DEF IInv, StepsCounted, Typed, PerRound
  <2>2. RoundSteps' = RoundSteps + PerRound
    <3>1. \A c, x \in Nat : c * (x + 1) = c * x + c
      BY SMT
    <3>2. RoundSteps' = PerRound * (run.tracker.iteration + 1)
      BY <1>8, <1>10 DEF RoundSteps, PerRound
    <3> QED
      BY <1>7, <2>1, <3>1, <3>2 DEF RoundSteps
  <2>3. /\ steps' <= RoundSteps' /\ steps' <= AllRounds /\ RoundSteps' \in Nat
        /\ steps' \in Nat /\ AllRounds \in Nat
    BY <1>1, <2>1, <2>2
  <2>4. ~ (run'.phase \in Before \cup {"extracting"}) /\ research_loop_active'
    BY <1>1, <1>10 DEF Before, research_loop_active
  <2>5. next' \notin {"START", "entry", "planner", "research_prepare", "research_one",
                        "research_join", "extractor", "critic", "retry_prepare", "retry_one",
                        "retry_join", "research_loop_decide", "evaluator", "END"}
    BY <1>11
  <2>6. steps' <= RoundSteps' + 1 /\ steps' <= AllRounds + 1
    <3>1. \A x, y \in Nat : x <= y => x <= y + 1
      BY SMT
    <3> QED
      BY <2>3, <3>1
  <2> QED
    BY <2>3, <2>4, <2>5, <2>6 DEF StepsCounted
<1> QED
  BY <1>13, <1>14, <1>15, <1>16, <1>17, <1>18, <1>19 DEF IInv

(* A process that leaves, whatever status it reports: the checkpoint's     *)
(* place, work and accounts stay.  The partial report of an exhausted run  *)
(* replaces none but an empty or partial one.                              *)
LEMMA LeavingKeeps ==
  ASSUME IInv, settings' = settings, next' = next, steps' = steps, resumes' = resumes,
         proc' \in {"none", "running"}, ScopeLost,
         run' \in Runs, run'.phase = run.phase, run'.report = "full" => run.report = "full",
         AccountsKept, WorkKept, VerdictKept
  PROVE  IInv'
<1>1. Typed'
  <2>1. FanTyped'
    BY DEF ScopeLost, FanTyped
  <2>2. ~ Created'
    BY DEF ScopeLost, Created
  <2> QED
    BY <2>1, <2>2 DEF IInv, Typed
<1>2. Located'
  BY DEF IInv, Located, WorkKept, research_loop_active
<1>3. Judged'
  BY DEF IInv, Judged, VerdictKept
<1>4. Counted'
  BY DEF IInv, Counted, LoopWithinBounds, MayGoOn, AccountsKept, research_loop_active
<1>5. Charges'
  BY DEF IInv, Charges, AccountsKept, WorkKept, Decided, Joined, PlannedIterations,
     research_loop_active
<1>6. Ledgers'
  BY DEF IInv, Ledgers, AccountsKept, WorkKept, Decided, Joined, InFanOut,
     research_loop_active
<1>7. StepsCounted'
  <2>1. RoundSteps' = RoundSteps /\ research_loop_active' = research_loop_active
    BY DEF RoundSteps, AccountsKept, research_loop_active
  <2> QED
    BY <2>1 DEF IInv, StepsCounted, VerdictKept
<1> QED
  BY <1>1, <1>2, <1>3, <1>4, <1>5, <1>6, <1>7 DEF IInv

LEMMA AbortKeeps ==
  ASSUME NEW status \in Statuses, NEW report \in {"none", "partial", "full"},
         report = "full" => run.report = "full"
  PROVE  IInv /\ Abort(status, report) => IInv'
<1> SUFFICES ASSUME IInv, Abort(status, report) PROVE IInv'
  OBVIOUS
<1> DEFINE state == [run EXCEPT !.status = status, !.report = report]
<1>1. /\ run \in Runs /\ run' = state /\ proc' = "none" /\ ScopeLost
      /\ settings' = settings /\ next' = next /\ steps' = steps /\ resumes' = resumes
  BY DEF Abort, IInv, Typed
<1>2. state \in Runs
  BY <1>1 DEF Runs
<1>3. /\ state.phase = run.phase /\ state.report = report
      /\ state.step_status = run.step_status /\ state.step_calls = run.step_calls
      /\ state.usage = run.usage
      /\ state.critic_report = run.critic_report
      /\ state.critic_iteration = run.critic_iteration
      /\ state.tracker = run.tracker /\ state.route = run.route
      /\ state.intents = run.intents /\ state.process = run.process
  BY <1>1 DEF Runs
<1> HIDE DEF state
<1>4. AccountsKept /\ WorkKept /\ VerdictKept
  BY <1>1, <1>3 DEF AccountsKept, WorkKept, VerdictKept
<1> QED
  BY <1>1, <1>2, <1>3, <1>4, LeavingKeeps

LEMMA NodeFailsKeeps == IInv /\ NodeFails => IInv'
<1> SUFFICES ASSUME IInv, NodeFails PROVE IInv'
  OBVIOUS
<1>1. /\ run.report \in {"none", "partial", "full"}
      /\ "failed" \in Statuses /\ "budget_exceeded" \in Statuses
  BY DEF IInv, Typed, Runs, Statuses
<1>2. \/ Abort("failed", run.report)
      \/ Abort("budget_exceeded", run.report)
      \/ Abort("budget_exceeded", "partial")
  BY DEF NodeFails
<1>3. CASE Abort("failed", run.report)
  BY <1>1, <1>3, AbortKeeps
<1>4. CASE Abort("budget_exceeded", run.report)
  BY <1>1, <1>4, AbortKeeps
<1>5. CASE Abort("budget_exceeded", "partial")
  BY <1>1, <1>5, AbortKeeps
<1> QED
  BY <1>2, <1>3, <1>4, <1>5

LEMMA ResearchLoopDecideRaisesKeeps == IInv /\ ResearchLoopDecideRaises => IInv'
<1> SUFFICES ASSUME IInv, ResearchLoopDecideRaises PROVE IInv'
  OBVIOUS
<1>1. run.report \in {"none", "partial", "full"} /\ "failed" \in Statuses
  BY DEF IInv, Typed, Runs, Statuses
<1> QED
  BY <1>1, AbortKeeps DEF ResearchLoopDecideRaises

LEMMA CrashKeeps == IInv /\ Crash => IInv'
<1> SUFFICES ASSUME IInv, Crash PROVE IInv'
  OBVIOUS
<1>1. /\ run' = run /\ run \in Runs /\ proc' = "none" /\ ScopeLost
      /\ settings' = settings /\ next' = next /\ steps' = steps /\ resumes' = resumes
  BY DEF Crash, IInv, Typed
<1>2. AccountsKept /\ WorkKept /\ VerdictKept
  BY <1>1 DEF AccountsKept, WorkKept, VerdictKept
<1> QED
  BY <1>1, <1>2, LeavingKeeps

LEMMA ReturnKeeps == IInv /\ Return => IInv'
<1> SUFFICES ASSUME IInv, Return PROVE IInv'
  OBVIOUS
<1> DEFINE failed == [run EXCEPT !.status = "failed"]
<1>1. /\ run' = failed \/ run' = run
      /\ run \in Runs /\ proc' = "none" /\ ScopeLost
      /\ settings' = settings /\ next' = next /\ steps' = steps /\ resumes' = resumes
  BY DEF Return, IInv, Typed
<1>2. /\ failed \in Runs /\ failed.phase = run.phase /\ failed.report = run.report
      /\ failed.step_status = run.step_status /\ failed.step_calls = run.step_calls
      /\ failed.usage = run.usage
      /\ failed.critic_report = run.critic_report
      /\ failed.critic_iteration = run.critic_iteration
      /\ failed.tracker = run.tracker /\ failed.route = run.route
      /\ failed.intents = run.intents /\ failed.process = run.process
  BY <1>1 DEF Runs, Statuses
<1> HIDE DEF failed
<1>3. /\ run' \in Runs /\ run'.phase = run.phase /\ run'.report = run.report
      /\ AccountsKept /\ WorkKept /\ VerdictKept
  BY <1>1, <1>2 DEF AccountsKept, WorkKept, VerdictKept
<1> QED
  BY <1>1, <1>3, LeavingKeeps

(* An invocation that enters a finished graph starts at its entry; any     *)
(* other goes on at the node the checkpoint names.                         *)
LEMMA EnteringKeeps ==
  ASSUME IInv, NEW stop \in StopPhases,
         settings' = settings, resumes' \in 0..MaxResumes, proc' = "running",
         budget' = budget, fan' = fan,
         run' \in Runs, run'.phase = run.phase, run'.report = run.report,
         AccountsKept, WorkKept, VerdictKept,
         \/ next \in {"START", "END"} /\ next' = "entry"
         \/ next' = next,
         steps' = 0
  PROVE  IInv'
<1>1. Typed'
  BY DEF IInv, Typed, FanTyped, Created, LoopBudget, research_loop_active, Nodes
<1>2. Located'
  BY DEF IInv, Located, WorkKept, research_loop_active
<1>3. Judged'
  BY DEF IInv, Judged, VerdictKept
<1>4. Counted'
  BY DEF IInv, Counted, LoopWithinBounds, MayGoOn, AccountsKept, research_loop_active
<1>5. Charges'
  BY DEF IInv, Charges, AccountsKept, WorkKept, Decided, Joined, PlannedIterations,
     research_loop_active
<1>6. Ledgers'
  BY DEF IInv, Ledgers, AccountsKept, WorkKept, Decided, Joined, InFanOut,
     research_loop_active
<1>7. StepsCounted'
  <2>1. /\ RoundSteps' = RoundSteps /\ research_loop_active' = research_loop_active
        /\ RoundSteps \in Nat /\ AllRounds \in Nat
        /\ run'.critic_iteration = run.critic_iteration /\ run.critic_iteration \in Nat
        /\ max_critic_iter \in Nat
        /\ run'.phase \in Before \cup {"extracting"} => run.critic_iteration = 0
    BY Products, WorkflowAssumption
       DEF RoundSteps, AccountsKept, VerdictKept, research_loop_active, IInv, Typed, Runs,
       StepsCounted
  <2> QED
    BY <2>1 DEF StepsCounted
<1> QED
  BY <1>1, <1>2, <1>3, <1>4, <1>5, <1>6, <1>7 DEF IInv

LEMMA StartRunKeeps == ASSUME NEW stop \in StopPhases PROVE IInv /\ StartRun(stop) => IInv'
<1> SUFFICES ASSUME IInv, StartRun(stop) PROVE IInv'
  OBVIOUS
<1> DEFINE state == [run EXCEPT !.stop_after = stop]
<1>1. /\ run \in Runs /\ run' = state /\ next = "START" /\ next' = "entry"
      /\ proc' = "running" /\ resumes' \in 0..MaxResumes
      /\ settings' = settings /\ budget' = budget /\ fan' = fan /\ steps' = 0
  BY DEF StartRun, IInv, Typed, StepsCounted
<1>2. /\ state \in Runs /\ state.phase = run.phase /\ state.report = run.report
      /\ state.step_status = run.step_status /\ state.step_calls = run.step_calls
      /\ state.usage = run.usage
      /\ state.critic_report = run.critic_report
      /\ state.critic_iteration = run.critic_iteration
      /\ state.tracker = run.tracker /\ state.route = run.route
      /\ state.intents = run.intents /\ state.process = run.process
  BY <1>1 DEF Runs
<1> HIDE DEF state
<1>3. AccountsKept /\ WorkKept /\ VerdictKept
  BY <1>1, <1>2 DEF AccountsKept, WorkKept, VerdictKept
<1> QED
  BY <1>1, <1>2, <1>3, EnteringKeeps

LEMMA ResumeKeeps == ASSUME NEW stop \in StopPhases PROVE IInv /\ Resume(stop) => IInv'
<1> SUFFICES ASSUME IInv, Resume(stop) PROVE IInv'
  OBVIOUS
<1> DEFINE state == [run EXCEPT !.status = "running", !.stop_after = stop]
<1>1. /\ run \in Runs /\ run' = state
      /\ (next = "END" /\ next' = "entry") \/ next' = next
      /\ proc' = "running" /\ resumes' \in 0..MaxResumes
      /\ settings' = settings /\ budget' = budget /\ fan' = fan /\ steps' = 0
  BY WorkflowAssumption DEF Resume, IInv, Typed
<1>2. /\ state \in Runs /\ state.phase = run.phase /\ state.report = run.report
      /\ state.step_status = run.step_status /\ state.step_calls = run.step_calls
      /\ state.usage = run.usage
      /\ state.critic_report = run.critic_report
      /\ state.critic_iteration = run.critic_iteration
      /\ state.tracker = run.tracker /\ state.route = run.route
      /\ state.intents = run.intents /\ state.process = run.process
  BY <1>1 DEF Runs, Statuses
<1> HIDE DEF state
<1>3. AccountsKept /\ WorkKept /\ VerdictKept
  BY <1>1, <1>2 DEF AccountsKept, WorkKept, VerdictKept
<1> QED
  BY <1>1, <1>2, <1>3, EnteringKeeps

LEMMA ReflectorKeeps ==
  ASSUME NEW must_stop \in BOOLEAN
  PROVE  IInv /\ Reflector(must_stop) => IInv'
<1> SUFFICES ASSUME IInv, Reflector(must_stop) PROVE IInv'
  OBVIOUS
<1> DEFINE paused == [run EXCEPT !.status = "paused"]
<1>1. /\ next = "reflector" /\ run \in Runs /\ run.phase = "reporting"
      /\ settings' = settings /\ proc' = proc /\ resumes' = resumes
      /\ steps' = steps + 1 /\ budget' = budget /\ fan' = fan
      /\ run' \in {run, paused}
      /\ next' \in {"END", "research_refine", "reporter"}
      /\ next' = "research_refine" => run.route = "continue"
  BY DEF Reflector, At, Goto, IInv, Typed, Located
<1>2. /\ paused \in Runs /\ paused.phase = run.phase /\ paused.report = run.report
      /\ paused.step_status = run.step_status /\ paused.step_calls = run.step_calls
      /\ paused.usage = run.usage
      /\ paused.critic_report = run.critic_report
      /\ paused.critic_iteration = run.critic_iteration
      /\ paused.tracker = run.tracker /\ paused.route = run.route
      /\ paused.intents = run.intents /\ paused.process = run.process
  BY <1>1 DEF Runs, Statuses
<1> HIDE DEF paused
<1>3. /\ run' \in Runs /\ run'.phase = "reporting" /\ run'.report = run.report
      /\ AccountsKept /\ WorkKept /\ VerdictKept
  BY <1>1, <1>2 DEF AccountsKept, WorkKept, VerdictKept
<1>4. next' = "research_refine" => research_loop_active /\ MayGoOn
  BY <1>1 DEF IInv, Counted
<1>5. Typed'
  BY <1>1, <1>3 DEF IInv, Typed, FanTyped, Created, LoopBudget, research_loop_active, Nodes
<1>6. Located'
  BY <1>1, <1>3, <1>4 DEF Located, research_loop_active
<1>7. Judged'
  BY <1>1, <1>3 DEF IInv, Judged, VerdictKept, Before, Reviewing
<1>8. Counted'
  BY <1>1, <1>3, <1>4 DEF IInv, Counted, LoopWithinBounds, MayGoOn, AccountsKept,
     Before, Reviewing, research_loop_active
<1>9. Charges'
  BY <1>1, <1>3, <1>4 DEF IInv, Charges, AccountsKept, WorkKept, Decided, Joined, Before,
     Reviewing, PlannedIterations, research_loop_active
<1>10. Ledgers'
  BY <1>1, <1>3, <1>4 DEF IInv, Ledgers, AccountsKept, WorkKept, Decided, Joined, InFanOut,
     Before, Reviewing, research_loop_active
<1>11. StepsCounted'
  <2>1. /\ RoundSteps' = RoundSteps /\ steps \in Nat /\ RoundSteps \in Nat /\ AllRounds \in Nat
        /\ RoundSteps <= AllRounds /\ PerRound <= AllRounds
        /\ PerRound = 4 * max_critic_iter + 4 /\ max_critic_iter \in Nat
        /\ steps <= IF research_loop_active THEN RoundSteps ELSE 3 + 4 * max_critic_iter
    BY <1>1, <1>3, Products, WorkflowAssumption
       DEF RoundSteps, PerRound, IInv, StepsCounted, Typed, AccountsKept
  <2>2. /\ next' = "research_refine" => steps' <= RoundSteps + 1
        /\ steps' <= AllRounds + 1 /\ steps' <= AllRounds + 3
    BY <1>1, <1>4, <2>1
  <2> QED
    BY <1>1, <1>3, <2>1, <2>2 DEF StepsCounted, Before
<1> QED
  BY <1>5, <1>6, <1>7, <1>8, <1>9, <1>10, <1>11 DEF IInv

LEMMA ResearchRefineKeeps == IInv /\ ResearchRefine => IInv'
<1> SUFFICES ASSUME IInv, ResearchRefine PROVE IInv'
  OBVIOUS
<1> DEFINE state == [run EXCEPT !.critic_report = "none", !.critic_iteration = 0,
                                !.phase = "researching", !.status = "running"]
<1>1. /\ next = "research_refine" /\ run \in Runs /\ run.phase = "reporting"
      /\ research_loop_active
      /\ settings' = settings /\ proc' = proc /\ resumes' = resumes
      /\ steps' = steps + 1 /\ budget' = budget /\ fan' = fan
      /\ run' = state /\ next' = "research_prepare"
  BY DEF ResearchRefine, At, Goto, IInv, Typed, Located
<1>2. /\ run' \in Runs /\ run'.phase = "researching" /\ run'.report = run.report
      /\ run'.critic_iteration = 0
      /\ AccountsKept /\ WorkKept
  <2>1. "researching" \in Phases /\ "running" \in Statuses /\ 0 \in 0..max_critic_iter
    BY WorkflowAssumption DEF Phases, Statuses
  <2> QED
    BY <1>1, <2>1 DEF Runs, AccountsKept, WorkKept
<1> HIDE DEF state
<1>3. MayGoOn
  BY <1>1 DEF IInv, Counted
<1>4. Typed'
  BY <1>1, <1>2 DEF IInv, Typed, FanTyped, Created, LoopBudget, research_loop_active, Nodes
<1>5. Located'
  BY <1>1, <1>2 DEF Located
<1>6. Judged'
  <2>1. max_critic_iter \in Nat \ {0} /\ run.report # "full"
    BY <1>1, WorkflowAssumption DEF IInv, Judged
  <2> QED
    BY <1>2, <2>1 DEF Judged, After
<1>7. Counted'
  BY <1>1, <1>2, <1>3 DEF IInv, Counted, LoopWithinBounds, MayGoOn, AccountsKept,
     research_loop_active
<1>8. Charges'
  BY <1>1, <1>2 DEF IInv, Charges, AccountsKept, WorkKept, Decided, Joined, Reviewing,
     PlannedIterations, research_loop_active
<1>9. Ledgers'
  BY <1>1, <1>2 DEF IInv, Ledgers, AccountsKept, WorkKept, Decided, Joined, InFanOut,
     Reviewing, research_loop_active
<1>10. StepsCounted'
  <2>1. /\ RoundSteps' = RoundSteps /\ steps \in Nat /\ RoundSteps \in Nat
        /\ steps <= RoundSteps + 1
    BY <1>1, <1>2, Products DEF RoundSteps, IInv, StepsCounted, Typed, AccountsKept
  <2> QED
    BY <1>1, <1>2, <2>1 DEF StepsCounted
<1> QED
  BY <1>4, <1>5, <1>6, <1>7, <1>8, <1>9, <1>10 DEF IInv

LEMMA ReporterKeeps == IInv /\ Reporter => IInv'
<1> SUFFICES ASSUME IInv, Reporter PROVE IInv'
  OBVIOUS
<1> DEFINE reported == [run EXCEPT !.report = "full"]
           state == complete_phase(reported, "reporting", "evaluating")
<1>1. /\ next = "reporter" /\ run \in Runs /\ run.phase = "reporting"
      /\ settings' = settings /\ proc' = proc /\ resumes' = resumes
      /\ steps' = steps + 1 /\ budget' = budget /\ fan' = fan
      /\ run' = state /\ next' \in {"END", "evaluator"}
  BY DEF Reporter, At, Goto, UnlessPaused, IInv, Typed, Located
<1>2. /\ reported \in Runs
      /\ reported.step_status = run.step_status /\ reported.step_calls = run.step_calls
      /\ reported.usage = run.usage
      /\ reported.critic_report = run.critic_report
      /\ reported.critic_iteration = run.critic_iteration
      /\ reported.tracker = run.tracker /\ reported.route = run.route
      /\ reported.intents = run.intents /\ reported.process = run.process
  BY <1>1 DEF Runs
<1>3. "reporting" \in Phases /\ "evaluating" \in Phases
  BY DEF Phases
<1> HIDE DEF reported
<1>4. /\ run' \in Runs /\ run'.phase = "evaluating"
      /\ AccountsKept /\ WorkKept /\ VerdictKept
  BY <1>1, <1>2, <1>3, PhaseCompleted DEF AccountsKept, WorkKept, VerdictKept
<1> HIDE DEF state
<1>5. Typed'
  BY <1>1, <1>4 DEF IInv, Typed, FanTyped, Created, LoopBudget, research_loop_active, Nodes
<1>6. Located'
  BY <1>1, <1>4 DEF Located
<1>7. Judged'
  BY <1>1, <1>4 DEF IInv, Judged, VerdictKept, Before, Reviewing, After
<1>8. Counted'
  BY <1>1, <1>4 DEF IInv, Counted, LoopWithinBounds, AccountsKept, Before, Reviewing,
     research_loop_active
<1>9. Charges'
  BY <1>1, <1>4 DEF IInv, Charges, AccountsKept, WorkKept, Decided, Joined, Before,
     Reviewing, PlannedIterations, research_loop_active
<1>10. Ledgers'
  BY <1>1, <1>4 DEF IInv, Ledgers, AccountsKept, WorkKept, Decided, Joined, InFanOut,
     Before, Reviewing, research_loop_active
<1>11. StepsCounted'
  <2>1. /\ steps \in Nat /\ AllRounds \in Nat /\ steps <= AllRounds + 1
    BY <1>1, Products DEF IInv, StepsCounted, Typed
  <2>2. steps' <= AllRounds + 2 /\ steps' <= AllRounds + 3
    BY <1>1, <2>1
  <2> QED
    BY <1>1, <1>4, <2>2 DEF StepsCounted, Before
<1> QED
  BY <1>5, <1>6, <1>7, <1>8, <1>9, <1>10, <1>11 DEF IInv

LEMMA EvaluatorKeeps == IInv /\ Evaluator => IInv'
<1> SUFFICES ASSUME IInv, Evaluator PROVE IInv'
  OBVIOUS
<1> DEFINE state == [run EXCEPT !.phase = "done",
                                !.status = IF run.stop_after = "evaluating"
                                           THEN "paused" ELSE "done"]
<1>1. /\ next = "evaluator" /\ run \in Runs /\ run.phase = "evaluating"
      /\ settings' = settings /\ proc' = proc /\ resumes' = resumes
      /\ steps' = steps + 1 /\ budget' = budget /\ fan' = fan
      /\ run' = state /\ next' = "END"
  BY DEF Evaluator, At, Goto, IInv, Typed, Located
<1>2. /\ run' \in Runs /\ run'.phase = "done" /\ run'.report = run.report
      /\ AccountsKept /\ WorkKept /\ VerdictKept
  <2>1. "done" \in Phases /\ state.status \in Statuses
    BY <1>1 DEF Runs, Phases, Statuses
  <2>2. [run EXCEPT !.phase = "done"] \in Runs
    BY <1>1, <2>1 DEF Runs
  <2>3. run' = [[run EXCEPT !.phase = "done"] EXCEPT !.status = state.status]
    BY <1>1 DEF Runs
  <2> HIDE DEF state
  <2>4. run' \in Runs
    BY <2>1, <2>2, <2>3 DEF Runs
  <2> QED
    BY <1>1, <2>3, <2>4 DEF Runs, AccountsKept, WorkKept, VerdictKept
<1> HIDE DEF state
<1>3. Typed'
  BY <1>1, <1>2 DEF IInv, Typed, FanTyped, Created, LoopBudget, research_loop_active, Nodes
<1>4. Located'
  BY <1>1, <1>2 DEF Located
<1>5. Judged'
  BY <1>1, <1>2 DEF IInv, Judged, VerdictKept, Before, Reviewing, After
<1>6. Counted'
  BY <1>1, <1>2 DEF IInv, Counted, LoopWithinBounds, AccountsKept, Before, Reviewing,
     research_loop_active
<1>7. Charges'
  BY <1>1, <1>2 DEF IInv, Charges, AccountsKept, WorkKept, Decided, Joined, Before,
     Reviewing, PlannedIterations, research_loop_active
<1>8. Ledgers'
  BY <1>1, <1>2 DEF IInv, Ledgers, AccountsKept, WorkKept, Decided, Joined, InFanOut,
     Before, Reviewing, research_loop_active
<1>9. StepsCounted'
  <2>1. /\ steps \in Nat /\ AllRounds \in Nat /\ steps <= AllRounds + 2
    BY <1>1, Products DEF IInv, StepsCounted, Typed
  <2>2. steps' <= AllRounds + 3
    BY <1>1, <2>1
  <2> QED
    BY <1>1, <1>2, <2>2 DEF StepsCounted, Before
<1> QED
  BY <1>3, <1>4, <1>5, <1>6, <1>7, <1>8, <1>9 DEF IInv

---------------------------------------------------------------------------
(* The induction. *)

LEMMA InitIInv == Init => IInv
<1> SUFFICES ASSUME Init PROVE IInv
  OBVIOUS
<1>1. /\ settings \in [loop : BOOLEAN, critic : BOOLEAN, reflection : BOOLEAN]
      /\ run = NewRun /\ next = "START" /\ proc = "none" /\ budget = <<>> /\ fan = <<>>
      /\ steps = 0 /\ resumes = 0
  BY DEF Init
<1>2. /\ run.phase = "planning" /\ run.report = "none" /\ run.critic_iteration = 0
      /\ run.step_calls = NoCalls /\ run.usage = NoCalls
      /\ run.tracker = StartTracker /\ run.route = "none"
      /\ run.intents = 0 /\ run.process = 0
  BY <1>1 DEF NewRun
<1>3. run.tracker.iteration = 0 /\ run.tracker.budget_used = 0
      /\ run.tracker.no_progress_count = 0
  BY <1>2 DEF StartTracker
<1>4. /\ per_branch_cap \in Nat /\ max_iterations \in Nat \ {0} /\ budget_ceiling \in Nat
      /\ no_progress_window \in Nat \ {0} /\ max_critic_iter \in Nat \ {0} /\ MaxResumes \in Nat
  BY AllocationAssumption, LoopSpecAssumption, WorkflowAssumption
<1>5. Typed
  <2>1. run \in Runs
    <3>1. NoCalls \in [Branches -> Nat] /\ NoCalls \in [Branches -> 0..per_branch_cap]
      BY <1>4 DEF NoCalls
    <3>2. StartTracker \in Trackers /\ 0 \in 0..max_critic_iter
      BY <1>4 DEF StartTracker, Trackers
    <3> QED
      BY <1>1, <3>1, <3>2 DEF NewRun, Runs, Statuses, Phases
  <2>2. FanTyped /\ ~ Created
    BY <1>1 DEF FanTyped, Created
  <2> QED
    BY <1>1, <1>4, <2>1, <2>2 DEF Typed
<1>6. Located
  BY <1>1, <1>2 DEF Located
<1>7. Judged
  BY <1>2, <1>4 DEF Judged, After
<1>8. Counted
  BY <1>2, <1>3, <1>4 DEF Counted, LoopWithinBounds, MayGoOn
<1>9. Charges
  <2>1. \A b \in Branches : run.step_calls[b] = 0
    BY <1>2 DEF NoCalls
  <2>2. per_branch_cap * run.tracker.iteration \in Nat /\ per_branch_cap * PlannedIterations \in Nat
    BY <1>5, <1>8, Products
  <2>3. ~ Joined
    BY <1>1, <1>2 DEF Joined, Reviewing
  <2> QED
    BY <2>1, <2>2, <2>3 DEF Charges
<1>10. Ledgers
  BY <1>1, <1>2, <1>3, NoCallsTotal DEF Ledgers, InFanOut, Joined, Reviewing
<1>11. StepsCounted
  <2>1. RoundSteps \in Nat /\ AllRounds \in Nat
    BY <1>5, <1>8, Products
  <2> QED
    BY <1>1, <1>2, <2>1 DEF StepsCounted
<1> QED
  BY <1>5, <1>6, <1>7, <1>8, <1>9, <1>10, <1>11 DEF IInv

LEMMA StutterKeeps == IInv /\ UNCHANGED vars => IInv'
<1> SUFFICES ASSUME IInv, UNCHANGED vars PROVE IInv'
  OBVIOUS
<1>1. UNCHANGED <<settings, run, next, proc, budget, fan, steps, resumes>>
  BY DEF vars
<1>2. Typed' /\ Located' /\ Judged'
  BY <1>1 DEF IInv, Typed, FanTyped, Created, LoopBudget, Located, Judged,
     research_loop_active
<1>3. Counted' /\ Charges'
  BY <1>1 DEF IInv, Counted, LoopWithinBounds, MayGoOn, Charges, Decided, Joined,
     PlannedIterations, research_loop_active
<1>4. Ledgers' /\ StepsCounted'
  BY <1>1 DEF IInv, Ledgers, Decided, Joined, InFanOut, StepsCounted, RoundSteps,
     research_loop_active
<1> QED
  BY <1>2, <1>3, <1>4 DEF IInv

LEMMA GraphStepKeeps == IInv /\ GraphStep => IInv'
<1> SUFFICES ASSUME IInv, GraphStep PROVE IInv'
  OBVIOUS
<1>1. CASE Entry \/ Planner \/ ResearchPrepare \/ Extractor \/ CriticBypassed
  BY <1>1, EntryKeeps, PlannerKeeps, ResearchPrepareKeeps, ExtractorKeeps, CriticBypassedKeeps
<1>2. CASE \E b \in Branches, calls \in 0..per_branch_cap : ResearchOne(b, calls)
  BY <1>2, ResearchOneKeeps
<1>3. CASE \E metric \in [Branches -> Metrics] : ResearchJoin(metric)
  BY <1>3, ResearchJoinKeeps
<1>4. CASE \E passed \in BOOLEAN : Critic(passed)
  BY <1>4, CriticKeeps
<1>5. CASE RetryPrepare \/ RetryOne \/ RetryJoin
  BY <1>5, RetryKeeps
<1>6. CASE \E metric \in [Branches -> Metrics], improved, stop \in BOOLEAN :
             ResearchLoopDecide(metric, improved, stop)
  BY <1>6, ResearchLoopDecideKeeps
<1>7. CASE \E must_stop \in BOOLEAN : Reflector(must_stop)
  BY <1>7, ReflectorKeeps
<1>8. CASE ResearchLoopDecideRaises \/ ResearchRefine \/ Reporter \/ Evaluator
  BY <1>8, ResearchLoopDecideRaisesKeeps, ResearchRefineKeeps, ReporterKeeps, EvaluatorKeeps
<1> QED
  BY <1>1, <1>2, <1>3, <1>4, <1>5, <1>6, <1>7, <1>8 DEF GraphStep

LEMMA NextIInv == IInv /\ [Next]_vars => IInv'
<1> SUFFICES ASSUME IInv, [Next]_vars PROVE IInv'
  OBVIOUS
<1>1. CASE \E stop \in StopPhases : StartRun(stop) \/ Resume(stop)
  BY <1>1, StartRunKeeps, ResumeKeeps
<1>2. CASE Return \/ NodeFails \/ Crash
  BY <1>2, ReturnKeeps, NodeFailsKeeps, CrashKeeps
<1>3. CASE GraphStep
  BY <1>3, GraphStepKeeps
<1>4. CASE UNCHANGED vars
  BY <1>4, StutterKeeps
<1> QED
  BY <1>1, <1>2, <1>3, <1>4 DEF Next

LEMMA Invariance == Spec => []IInv
BY InitIInv, NextIInv, PTL DEF Spec

---------------------------------------------------------------------------
(* The theorems. *)

(* The checkpointed state and the process's counters have their types.     *)
THEOREM TypeCorrect == Spec => []TypeOK
<1>1. IInv => TypeOK
  BY DEF IInv, Typed, Runs, TypeOK
<1> QED
  BY <1>1, Invariance, PTL

(* No interleaving of rounds with crashes, failures, pauses and resumes    *)
(* takes the loop's account past its LoopSpec, and the research process    *)
(* has one entry for each iteration the loop counted.                      *)
THEOREM LoopBounded == Spec => []LoopWithinBounds
<1>1. IInv => LoopWithinBounds
  BY DEF IInv, Counted
<1> QED
  BY <1>1, Invariance, PTL

(* A full report stands on a verdict of the critic wherever it is          *)
(* switched on: there is no way round the reviews through a retry, another *)
(* round, a pause or a resume.                                             *)
THEOREM ReportEarned == Spec => []ReportIsEarned
<1>1. IInv => ReportIsEarned
  BY DEF IInv, Judged, ReportIsEarned, After
<1> QED
  BY <1>1, Invariance, PTL

(* Whenever no round is open the loop tracker and the execution plan agree *)
(* on the calls spent, although a process may die between the join, which  *)
(* writes the one, and the decision, which writes the other.               *)
THEOREM LedgersAlwaysAgree == Spec => []LedgersAgree
<1>1. IInv => LedgersAgree
  BY DEF IInv, Ledgers, LedgersAgree
<1> QED
  BY <1>1, Invariance, PTL

(* No sequence of rounds, crashes and resumes charges a step of the plan   *)
(* beyond the calls it was planned with: PlanLifecycle.consume does not    *)
(* raise.                                                                  *)
THEOREM PlanWithinCaps == Spec => []PlanNeverOverCharged
<1>1. IInv => PlanNeverOverCharged
  BY DEF IInv, Charges, PlanNeverOverCharged
<1> QED
  BY <1>1, Invariance, PTL

LEMMA StepsWithinRounds == IInv => steps <= AllRounds + 3
<1> SUFFICES ASSUME IInv PROVE steps <= AllRounds + 3
  OBVIOUS
<1> DEFINE it == run.tracker.iteration
           reviews == run.critic_iteration
<1>1. /\ steps \in Nat /\ RoundSteps \in Nat /\ AllRounds \in Nat /\ PerRound \in Nat
      /\ RoundSteps <= AllRounds /\ PerRound <= AllRounds
      /\ MayGoOn => RoundSteps + PerRound <= AllRounds
      /\ PerRound = 4 * max_critic_iter + 4 /\ max_critic_iter \in Nat /\ max_critic_iter >= 1
      /\ next \in Nodes \cup {"START", "END"}
  BY Products, WorkflowAssumption DEF IInv, Typed, PerRound
<1>2. /\ reviews \in Nat
      /\ run.phase \in Before \cup Reviewing => reviews + 1 <= max_critic_iter
  BY WorkflowAssumption DEF IInv, Typed, Runs, Judged
<1>3. /\ run.phase \in Before \cup Reviewing => MayGoOn
      /\ next = "research_loop_decide" => MayGoOn
  BY DEF IInv, Counted
<1> HIDE DEF reviews
<1>4. CASE next \in {"research_prepare", "research_one", "research_join", "extractor"}
  <2>1. MayGoOn /\ steps <= RoundSteps + 5
    BY <1>1, <1>3, <1>4 DEF IInv, Located, StepsCounted, Before, Reviewing
  <2> QED
    BY <1>1, <2>1
<1>5. CASE next \in {"critic", "retry_prepare", "retry_one", "retry_join"}
  <2>1. /\ MayGoOn /\ reviews + 1 <= max_critic_iter
        /\ steps <= RoundSteps + 6 + 4 * reviews
    BY <1>1, <1>2, <1>3, <1>5 DEF IInv, Located, StepsCounted, Reviewing, reviews
  <2> QED
    BY <1>1, <1>2, <2>1
<1>6. CASE next = "research_loop_decide"
  BY <1>1, <1>3, <1>6 DEF IInv, StepsCounted
<1>7. CASE next \in {"START", "entry", "planner", "reporter", "evaluator", "END"}
  BY <1>1, <1>7 DEF IInv, StepsCounted
<1>8. CASE next \in {"reflector", "research_refine"}
  BY <1>1, <1>8 DEF IInv, StepsCounted
<1> QED
  BY <1>1, <1>4, <1>5, <1>6, <1>7, <1>8 DEF Nodes

(* A round, its reviews and retries included, takes 4 * max_critic_iter +  *)
(* 4 supersteps; three more go to the entry, the reporter and the          *)
(* evaluator.                                                              *)
StepsBound == steps <= max_iterations * (4 * max_critic_iter + 4) + 3

(* No invocation takes more supersteps than its rounds account for: no     *)
(* path through the retries and the loop turns in place.                   *)
THEOREM StepsBounded == Spec => []StepsBound
<1>1. IInv => StepsBound
  <2>1. \A c, x \in Nat : c * x = x * c
    BY SMT
  <2>2. PerRound \in Nat /\ max_iterations \in Nat
    BY LoopSpecAssumption, WorkflowAssumption DEF PerRound
  <2>3. AllRounds = max_iterations * (4 * max_critic_iter + 4)
    BY <2>1, <2>2 DEF AllRounds, PerRound
  <2> QED
    BY <2>3, StepsWithinRounds DEF StepsBound
<1> QED
  BY <1>1, Invariance, PTL

(* Up to four reviews a round (the default is three) the recursion limit   *)
(* the engine sets leaves room for every legal run: LangGraph cuts none    *)
(* off.                                                                    *)
THEOREM RecursionLimitSuffices ==
  ASSUME max_critic_iter <= 4
  PROVE  Spec => []RecursionLimitNeverHit
<1>1. IInv => RecursionLimitNeverHit
  <2> SUFFICES ASSUME IInv PROVE RecursionLimitNeverHit
    OBVIOUS
  <2>1. /\ PerRound \in Nat /\ PerRound <= 20 /\ max_iterations \in Nat
        /\ AllRounds \in Nat /\ steps \in Nat
    BY Products, LoopSpecAssumption, WorkflowAssumption DEF PerRound, IInv, Typed
  <2>2. PerRound * max_iterations <= 20 * max_iterations
    <3>1. \A c, d, x \in Nat : c <= d => c * x <= d * x
      BY SMT
    <3> QED
      BY <2>1, <3>1
  <2>3. 20 * max_iterations = max_iterations * 20 /\ 20 * max_iterations \in Nat
    BY <2>1
  <2>4. RecursionLimit >= 20 * max_iterations + 20 /\ RecursionLimit \in Nat
    BY <2>3 DEF RecursionLimit, Most
  <2>5. AllRounds <= 20 * max_iterations
    BY <2>2 DEF AllRounds
  <2>6. steps <= AllRounds + 3
    BY StepsWithinRounds
  <2> QED
    BY <2>1, <2>3, <2>4, <2>5, <2>6 DEF RecursionLimitNeverHit
<1> QED
  BY <1>1, Invariance, PTL

---------------------------------------------------------------------------
(* The graph implements the run a caller sees. *)

(* A step that leaves the place, the rounds and the report is a stutter.   *)
LEMMA StepsInPlace ==
  ASSUME proc' = proc, settings' = settings,
         run'.phase = run.phase, run'.report = run.report,
         run'.tracker.iteration = run.tracker.iteration,
         run'.intents = run.intents \/ run.phase \in Before
  PROVE  UNCHANGED Lifecycle!lifecycle
<1>1. RoundsBegun' = RoundsBegun
  BY DEF RoundsBegun, research_loop_active, Before
<1> QED
  BY <1>1 DEF Lifecycle!lifecycle

LEMMA StepsOver ==
  ASSUME IInv, proc = "running", proc' = proc, settings' = settings,
         <<run.phase, run'.phase>> \in Lifecycle!Following,
         run'.tracker = run.tracker, run'.intents = run.intents,
         InFanOut \/ run.phase # "researching",
         run'.report = IF run.phase = "reporting" THEN "full" ELSE run.report
  PROVE  Lifecycle!Proceed
<1>1. RoundsBegun' = RoundsBegun
  <2>1. CASE ~ research_loop_active
    BY <2>1 DEF RoundsBegun, research_loop_active
  <2>2. CASE research_loop_active /\ run.phase = "planning"
    BY <2>2 DEF RoundsBegun, research_loop_active, Lifecycle!Following
  <2>3. CASE research_loop_active /\ run.phase = "researching"
    <3>1. /\ run.intents = run.process + 1 /\ run.process = run.tracker.iteration
          /\ run.process \in Nat
      BY <2>3 DEF IInv, Ledgers, Counted, LoopWithinBounds, Typed, Runs
    <3>2. run'.phase = "extracting"
      BY <2>3 DEF Lifecycle!Following
    <3> QED
      BY <2>3, <3>1, <3>2 DEF RoundsBegun, research_loop_active
  <2>4. CASE research_loop_active /\ run.phase \notin {"planning", "researching"}
    <3>1. run'.phase \notin {"planning", "researching"}
      BY <2>4 DEF Lifecycle!Following
    <3> QED
      BY <2>4, <3>1 DEF RoundsBegun, research_loop_active
  <2> QED
    BY <2>1, <2>2, <2>3, <2>4
<1>2. (run'.report = "full") = ((run.report = "full") \/ (run.phase = "reporting"))
  OBVIOUS
<1>3. (proc' = "running") = (proc = "running")
  OBVIOUS
<1> QED
  BY <1>1, <1>2, <1>3 DEF Lifecycle!Proceed

LEMMA StepsOut ==
  ASSUME proc = "running", proc' = "none", settings' = settings,
         run'.phase = run.phase, (run'.report = "full") = (run.report = "full"),
         run'.tracker = run.tracker, run'.intents = run.intents
  PROVE  Lifecycle!Leave
<1>1. RoundsBegun' = RoundsBegun
  BY DEF RoundsBegun, research_loop_active
<1> QED
  BY <1>1 DEF Lifecycle!Leave

(* The nodes that change no phase. *)
LEMMA InPlaceMaps ==
  ASSUME IInv,
         \/ Entry \/ ResearchPrepare \/ RetryPrepare \/ RetryOne \/ RetryJoin
         \/ \E b \in Branches, calls \in 0..per_branch_cap : ResearchOne(b, calls)
         \/ \E metric \in [Branches -> Metrics], improved, stop \in BOOLEAN :
              ResearchLoopDecide(metric, improved, stop)
         \/ \E must_stop \in BOOLEAN : Reflector(must_stop)
  PROVE  UNCHANGED Lifecycle!lifecycle
<1>1. run \in Runs
  BY DEF IInv, Typed
<1>2. CASE Entry \/ RetryPrepare \/ RetryOne
  <2>1. proc' = proc /\ settings' = settings /\ run' = run
    BY <1>2 DEF Entry, RetryPrepare, RetryOne, Goto
  <2> QED
    BY <2>1, StepsInPlace
<1>3. CASE ResearchPrepare
  <2>1. /\ proc' = proc /\ settings' = settings /\ run.phase \in Before
        /\ run'.phase = run.phase /\ run'.report = run.report /\ run'.tracker = run.tracker
    BY <1>1, <1>3 DEF ResearchPrepare, At, Goto, Runs, IInv, Located, Before
  <2> QED
    BY <2>1, StepsInPlace
<1>4. CASE RetryJoin
  <2>1. /\ proc' = proc /\ settings' = settings /\ run.phase = "critiquing"
        /\ run' = [run EXCEPT !.phase = "critiquing", !.status = "running"]
    BY <1>4 DEF RetryJoin, At, Goto, IInv, Located
  <2>2. /\ run'.phase = run.phase /\ run'.report = run.report
        /\ run'.tracker = run.tracker /\ run'.intents = run.intents
    BY <1>1, <2>1 DEF Runs
  <2> QED
    BY <2>1, <2>2, StepsInPlace
<1>5. CASE \E b \in Branches, calls \in 0..per_branch_cap : ResearchOne(b, calls)
  <2>1. /\ proc' = proc /\ settings' = settings
        /\ run' = run \/ run' = [run EXCEPT !.usage = fan']
    BY <1>5 DEF ResearchOne, Goto
  <2>2. /\ run'.phase = run.phase /\ run'.report = run.report
        /\ run'.tracker = run.tracker /\ run'.intents = run.intents
    BY <1>1, <2>1 DEF Runs
  <2> QED
    BY <2>1, <2>2, StepsInPlace
<1>6. CASE \E metric \in [Branches -> Metrics], improved, stop \in BOOLEAN :
             ResearchLoopDecide(metric, improved, stop)
  <2>1. PICK metric \in [Branches -> Metrics], improved \in BOOLEAN, stop \in BOOLEAN :
          ResearchLoopDecide(metric, improved, stop)
    BY <1>6
  <2>2. /\ proc' = proc /\ settings' = settings /\ research_loop_active
        /\ run.phase = "reporting"
        /\ run'.phase = run.phase /\ run'.report = run.report /\ run'.intents = run.intents
    BY <1>1, <2>1 DEF ResearchLoopDecide, At, Goto, Runs, IInv, Located
  <2>3. RoundsBegun' = RoundsBegun
    BY <2>2 DEF RoundsBegun, research_loop_active
  <2> QED
    BY <2>2, <2>3 DEF Lifecycle!lifecycle
<1>7. CASE \E must_stop \in BOOLEAN : Reflector(must_stop)
  <2>1. /\ proc' = proc /\ settings' = settings
        /\ run' = run \/ run' = [run EXCEPT !.status = "paused"]
    BY <1>7 DEF Reflector, Goto
  <2>2. /\ run'.phase = run.phase /\ run'.report = run.report
        /\ run'.tracker = run.tracker /\ run'.intents = run.intents
    BY <1>1, <2>1 DEF Runs
  <2> QED
    BY <2>1, <2>2, StepsInPlace
<1> QED
  BY <1>2, <1>3, <1>4, <1>5, <1>6, <1>7

(* The nodes that complete a phase, or send the review back. *)
LEMMA PhaseMaps ==
  ASSUME IInv,
         \/ Planner \/ Extractor \/ CriticBypassed \/ Reporter \/ Evaluator
         \/ \E metric \in [Branches -> Metrics] : ResearchJoin(metric)
         \/ \E passed \in BOOLEAN : Critic(passed)
  PROVE  Lifecycle!Proceed \/ UNCHANGED Lifecycle!lifecycle
<1> DEFINE Kept == /\ proc = "running" /\ proc' = proc /\ settings' = settings
                   /\ run'.tracker = run.tracker /\ run'.intents = run.intents
<1>1. run \in Runs
  BY DEF IInv, Typed
<1>2. CASE Planner
  <2>1. /\ Kept /\ run.phase = "planning" /\ run'.phase = "researching"
        /\ run'.report = run.report
    BY <1>1, <1>2 DEF Planner, At, Goto, complete_phase, Runs, IInv, Located
  <2>2. <<run.phase, run'.phase>> \in Lifecycle!Following
    BY <2>1 DEF Lifecycle!Following
  <2> QED
    BY <2>1, <2>2, StepsOver
<1>3. CASE \E metric \in [Branches -> Metrics] : ResearchJoin(metric)
  <2>1. /\ Kept /\ run.phase = "researching" /\ run'.phase = "extracting"
        /\ run'.report = run.report /\ InFanOut
    BY <1>1, <1>3 DEF ResearchJoin, At, Goto, complete_phase, Runs, IInv, Located, InFanOut
  <2>2. <<run.phase, run'.phase>> \in Lifecycle!Following
    BY <2>1 DEF Lifecycle!Following
  <2> QED
    BY <2>1, <2>2, StepsOver
<1>4. CASE Extractor
  <2>1. /\ Kept /\ run.phase = "extracting" /\ run'.phase = "critiquing"
        /\ run'.report = run.report
    BY <1>1, <1>4 DEF Extractor, At, Goto, complete_phase, Runs, IInv, Located
  <2>2. <<run.phase, run'.phase>> \in Lifecycle!Following
    BY <2>1 DEF Lifecycle!Following
  <2> QED
    BY <2>1, <2>2, StepsOver
<1>5. CASE CriticBypassed
  <2>1. /\ Kept /\ run.phase = "critiquing" /\ run'.phase = "reporting"
        /\ run'.report = run.report
    BY <1>1, <1>5 DEF CriticBypassed, At, Goto, complete_phase, Runs, IInv, Located
  <2>2. <<run.phase, run'.phase>> \in Lifecycle!Following
    BY <2>1 DEF Lifecycle!Following
  <2> QED
    BY <2>1, <2>2, StepsOver
<1>6. CASE \E passed \in BOOLEAN : Critic(passed)
  <2>1. PICK passed \in BOOLEAN : Critic(passed)
    BY <1>6, Zenon
  <2> DEFINE judged == [run EXCEPT !.critic_report = CriticVerdict(passed),
                                   !.critic_iteration = run.critic_iteration + 1]
             back == [judged EXCEPT !.phase = "critiquing", !.status = "running"]
             state == complete_phase(judged, "critiquing", "reporting")
  <2>2. /\ proc = "running" /\ proc' = proc /\ settings' = settings
        /\ run.phase = "critiquing" /\ run' \in {back, state}
    BY <2>1 DEF Critic, At, Goto, IInv, Located
  <2>3. /\ back.phase = "critiquing" /\ back.report = run.report
        /\ back.tracker = run.tracker /\ back.intents = run.intents
    BY <1>1 DEF Runs
  <2>4. /\ state.phase = "reporting" /\ state.report = run.report
        /\ state.tracker = run.tracker /\ state.intents = run.intents
    BY <1>1 DEF Runs, complete_phase
  <2> HIDE DEF back, state
  <2>5. CASE run' = back
    BY <2>2, <2>3, <2>5, StepsInPlace
  <2>6. CASE run' = state
    <3>1. <<run.phase, run'.phase>> \in Lifecycle!Following
      BY <2>2, <2>4, <2>6 DEF Lifecycle!Following
    <3> QED
      BY <2>2, <2>4, <2>6, <3>1, StepsOver
  <2> QED
    BY <2>2, <2>5, <2>6
<1>7. CASE Reporter
  <2>1. /\ Kept /\ run.phase = "reporting" /\ run'.phase = "evaluating"
        /\ run'.report = "full"
    BY <1>1, <1>7 DEF Reporter, At, Goto, complete_phase, Runs, IInv, Located
  <2>2. <<run.phase, run'.phase>> \in Lifecycle!Following
    BY <2>1 DEF Lifecycle!Following
  <2> QED
    BY <2>1, <2>2, StepsOver
<1>8. CASE Evaluator
  <2>1. /\ Kept /\ run.phase = "evaluating" /\ run'.phase = "done"
        /\ run'.report = run.report
    BY <1>1, <1>8 DEF Evaluator, At, Goto, Runs, IInv, Located
  <2>2. <<run.phase, run'.phase>> \in Lifecycle!Following
    BY <2>1 DEF Lifecycle!Following
  <2> QED
    BY <2>1, <2>2, StepsOver
<1> QED
  BY <1>2, <1>3, <1>4, <1>5, <1>6, <1>7, <1>8

(* The one way back is another research round. *)
LEMMA RefineMaps == IInv /\ ResearchRefine => Lifecycle!ResearchAgain
<1> SUFFICES ASSUME IInv, ResearchRefine PROVE Lifecycle!ResearchAgain
  OBVIOUS
<1>1. /\ run \in Runs /\ proc = "running" /\ proc' = proc /\ settings' = settings
      /\ next = "research_refine" /\ research_loop_active /\ run.phase = "reporting"
      /\ run' = [run EXCEPT !.critic_report = "none", !.critic_iteration = 0,
                            !.phase = "researching", !.status = "running"]
  BY DEF ResearchRefine, At, Goto, IInv, Typed, Located
<1>2. /\ run'.phase = "researching" /\ run'.report = run.report
      /\ run'.tracker = run.tracker
  BY <1>1 DEF Runs
<1>3. run.report # "full"
  BY <1>1 DEF IInv, Judged
<1>4. /\ run.tracker.iteration \in Nat /\ run.tracker.iteration < max_iterations
      /\ run.intents = run.tracker.iteration
  BY <1>1 DEF IInv, Typed, Runs, Trackers, Counted, LoopWithinBounds, MayGoOn, Ledgers, Decided
<1>5. RoundsBegun = run.tracker.iteration - 1 /\ RoundsBegun' = run.tracker.iteration
  BY <1>1, <1>2, <1>4 DEF RoundsBegun
<1>6. RoundsBegun' = RoundsBegun + 1 /\ RoundsBegun + 1 < max_iterations
  BY <1>4, <1>5
<1>7. UNCHANGED <<proc = "running", run.report = "full">>
  BY <1>1, <1>2
<1> QED
  BY <1>1, <1>2, <1>3, <1>6, <1>7 DEF Lifecycle!ResearchAgain

(* A process that leaves takes no report back and writes none: the partial *)
(* report of an exhausted run never replaces a full one.                   *)
LEMMA LeavingMaps ==
  ASSUME IInv, Return \/ NodeFails \/ Crash \/ ResearchLoopDecideRaises
  PROVE  Lifecycle!Leave
<1> DEFINE Ended(state) == [run EXCEPT !.status = state]
<1>1. /\ run \in Runs /\ proc = "running" /\ proc' = "none" /\ settings' = settings
  BY DEF Return, NodeFails, Crash, ResearchLoopDecideRaises, Abort, At, IInv, Typed
<1>2. CASE Return \/ Crash
  <2>1. run' = run \/ run' = Ended("failed")
    BY <1>2 DEF Return, Crash
  <2>2. /\ run'.phase = run.phase /\ run'.report = run.report
        /\ run'.tracker = run.tracker /\ run'.intents = run.intents
    BY <1>1, <2>1 DEF Runs
  <2> QED
    BY <1>1, <2>2, StepsOut
<1>3. CASE NodeFails \/ ResearchLoopDecideRaises
  <2>1. \/ Abort("failed", run.report) \/ Abort("budget_exceeded", run.report)
        \/ next \in ToolNodes /\ Abort("budget_exceeded", "partial")
    BY <1>3 DEF NodeFails, ResearchLoopDecideRaises
  <2>2. next \in ToolNodes => run.report # "full"
    BY DEF IInv, Located, Judged, ToolNodes
  <2>3. PICK status \in {"failed", "budget_exceeded"}, report \in {run.report, "partial"} :
          /\ Abort(status, report)
          /\ (report = "full") = (run.report = "full")
    BY <2>1, <2>2
  <2>4. /\ run'.phase = run.phase /\ run'.report = report
        /\ run'.tracker = run.tracker /\ run'.intents = run.intents
    BY <1>1, <2>3 DEF Abort, Runs
  <2> QED
    BY <1>1, <2>3, <2>4, StepsOut
<1> QED
  BY <1>2, <1>3

LEMMA EnteringMaps ==
  ASSUME IInv, NEW stop \in StopPhases, StartRun(stop) \/ Resume(stop)
  PROVE  Lifecycle!Invoke
<1>1. /\ run \in Runs /\ proc = "none" /\ proc' = "running" /\ settings' = settings
      /\ \/ run' = [run EXCEPT !.stop_after = stop]
         \/ run' = [run EXCEPT !.status = "running", !.stop_after = stop]
  BY DEF StartRun, Resume, IInv, Typed
<1>2. /\ run'.phase = run.phase /\ run'.report = run.report
      /\ run'.tracker = run.tracker /\ run'.intents = run.intents
  BY <1>1 DEF Runs
<1>3. RoundsBegun' = RoundsBegun
  BY <1>1, <1>2 DEF RoundsBegun, research_loop_active
<1> QED
  BY <1>1, <1>2, <1>3 DEF Lifecycle!Invoke

LEMMA InitMaps == Init => Lifecycle!Init
<1> SUFFICES ASSUME Init PROVE Lifecycle!Init
  OBVIOUS
<1>1. /\ run.phase = "planning" /\ run.report = "none" /\ run.tracker.iteration = 0
      /\ proc = "none"
  BY DEF Init, NewRun, StartTracker
<1>2. RoundsBegun = 0
  BY <1>1 DEF RoundsBegun
<1> QED
  BY <1>1, <1>2 DEF Lifecycle!Init

LEMMA NextMaps == IInv /\ [Next]_vars => [Lifecycle!Next]_(Lifecycle!lifecycle)
<1> SUFFICES ASSUME IInv, [Next]_vars
             PROVE  Lifecycle!Next \/ UNCHANGED Lifecycle!lifecycle
  OBVIOUS
<1>1. CASE \E stop \in StopPhases : StartRun(stop) \/ Resume(stop)
  BY <1>1, EnteringMaps DEF Lifecycle!Next
<1>2. CASE Return \/ NodeFails \/ Crash \/ ResearchLoopDecideRaises
  BY <1>2, LeavingMaps DEF Lifecycle!Next
<1>3. CASE ResearchRefine
  BY <1>3, RefineMaps DEF Lifecycle!Next
<1>4. CASE \/ Planner \/ Extractor \/ CriticBypassed \/ Reporter \/ Evaluator
           \/ \E metric \in [Branches -> Metrics] : ResearchJoin(metric)
           \/ \E passed \in BOOLEAN : Critic(passed)
  BY <1>4, PhaseMaps DEF Lifecycle!Next
<1>5. CASE \/ Entry \/ ResearchPrepare \/ RetryPrepare \/ RetryOne \/ RetryJoin
           \/ \E b \in Branches, calls \in 0..per_branch_cap : ResearchOne(b, calls)
           \/ \E metric \in [Branches -> Metrics], improved, stop \in BOOLEAN :
                ResearchLoopDecide(metric, improved, stop)
           \/ \E must_stop \in BOOLEAN : Reflector(must_stop)
  BY <1>5, InPlaceMaps
<1>6. CASE UNCHANGED vars
  <2>1. UNCHANGED <<settings, run, proc>>
    BY <1>6 DEF vars
  <2>2. RoundsBegun' = RoundsBegun
    BY <2>1 DEF RoundsBegun, research_loop_active
  <2> QED
    BY <2>1, <2>2 DEF Lifecycle!lifecycle
<1> QED
  BY <1>1, <1>2, <1>3, <1>4, <1>5, <1>6 DEF Next, GraphStep

(* The graph implements the safety of RunLifecycle: phases in order and    *)
(* none skipped, no research after the report, rounds within the bound, at *)
(* every pause, crash, failure, resume, retry and loop.  That every        *)
(* invocation ends is the liveness half and stays with the model checker.  *)
THEOREM LifecycleImplemented == Spec => Lifecycle!Safety
BY InitMaps, NextMaps, Invariance, PTL DEF Spec, Lifecycle!Safety
=============================================================================
