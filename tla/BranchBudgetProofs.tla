------------------------- MODULE BranchBudgetProofs -------------------------
(***************************************************************************)
(* Theorems about BranchBudget for any set of branches, any budget, cap,   *)
(* number of planned rounds and metrics.                                   *)
(***************************************************************************)
EXTENDS BranchBudget, BranchAllocationProofs

---------------------------------------------------------------------------
(* The inductive invariant. *)

IInv ==
  /\ TypeOK
  /\ Created => Sound(budget, total_budget)
  /\ ExhaustionIsReported

---------------------------------------------------------------------------
(* The invariant is inductive. *)

LEMMA InitIInv == Init => IInv
<1> SUFFICES ASSUME Init PROVE IInv
  OBVIOUS
<1>1. ~ Created
  BY DEF Init, Created
<1> QED
  BY <1>1 DEF Init, IInv, TypeOK, ExhaustionIsReported

LEMMA NextIInv == IInv /\ [Next]_vars => IInv'
<1> SUFFICES ASSUME IInv, [Next]_vars PROVE IInv'
  OBVIOUS
<1>1. ASSUME NEW ordered \in Orders, Allocate(ordered) PROVE IInv'
  <2>1. Sound(budget', total_budget) /\ \A b \in Branches : ~ budget'.exhausted[b]
    BY <1>1, AllocatedSound, BudgetAssumption DEF Allocate
  <2>2. TypeOK'
    BY <1>1, <2>1 DEF Allocate, IInv, TypeOK, Sound
  <2> QED
    BY <2>1, <2>2 DEF IInv, ExhaustionIsReported
<1>2. ASSUME NEW b \in Branches, NEW amount \in 0..MaxCharge, Consume(b, amount)
      PROVE  IInv'
  <2>1. amount \in Nat /\ Sound(budget, total_budget)
    BY <1>2, BudgetAssumption DEF Consume, IInv
  <2>2. /\ Sound(budget', total_budget)
        /\ \A c \in Branches : budget'.exhausted[c] =
             (budget.exhausted[c] \/ (c = b /\ Marked(budget, b, amount, total_budget)))
    BY <1>2, <2>1, ConsumedSound, BudgetAssumption DEF Consume
  <2>3. TypeOK'
    <3>1. coverage_warnings' \subseteq Branches
      BY <1>2 DEF Consume, IInv, TypeOK
    <3>2. total_exhausted' \in BOOLEAN
      BY <1>2 DEF Consume
    <3> QED
      BY <2>2, <3>1, <3>2 DEF TypeOK, Sound
  <2>4. ExhaustionIsReported'
    <3>1. \A c \in Branches : budget.exhausted[c] => c \in coverage_warnings
      BY <1>2 DEF Consume, IInv, ExhaustionIsReported
    <3>2. /\ \A c \in Branches : c \in coverage_warnings => c \in coverage_warnings'
          /\ Marked(budget, b, amount, total_budget) => b \in coverage_warnings'
      BY <1>2 DEF Consume
    <3> QED
      BY <2>2, <3>1, <3>2 DEF ExhaustionIsReported
  <2> QED
    BY <2>2, <2>3, <2>4 DEF IInv
<1>3. ASSUME NEW metric \in [Branches -> Metrics], NEW verify \in SUBSET Branches,
             Reallocate(metric, verify)
      PROVE  IInv'
  <2>1. Created /\ Sound(budget, total_budget)
    BY <1>3 DEF Reallocate, IInv
  <2>2. /\ Sound(budget', total_budget)
        /\ \A b \in Branches : budget'.exhausted[b] => budget.exhausted[b]
    BY <1>3, <2>1, ReallocatedSound, BudgetAssumption DEF Reallocate, Redistributed
  <2>3. TypeOK'
    BY <1>3, <2>2 DEF Reallocate, IInv, TypeOK, Sound
  <2>4. ExhaustionIsReported'
    <3>1. \A b \in Branches : budget'.exhausted[b] => b \notin Lifted(budget, budget')
      BY DEF Lifted
    <3>2. coverage_warnings' = coverage_warnings \ Lifted(budget, budget')
      BY <1>3 DEF Reallocate
    <3>3. \A b \in Branches : budget.exhausted[b] => b \in coverage_warnings
      BY <2>1 DEF IInv, ExhaustionIsReported
    <3> QED
      BY <2>2, <3>1, <3>2, <3>3 DEF ExhaustionIsReported
  <2> QED
    BY <2>2, <2>3, <2>4 DEF IInv
<1>4. CASE ScopeLost
  <2>1. ~ Created'
    BY <1>4 DEF ScopeLost, Created
  <2> QED
    BY <1>4, <2>1 DEF ScopeLost, IInv, TypeOK, ExhaustionIsReported
<1>5. CASE UNCHANGED vars
  BY <1>5 DEF vars, IInv, TypeOK, ExhaustionIsReported, Created
<1> QED
  BY <1>1, <1>2, <1>3, <1>4, <1>5 DEF Next

LEMMA Invariance == Spec => []IInv
BY InitIInv, NextIInv, PTL DEF Spec

---------------------------------------------------------------------------
(* The theorems. *)

(* Accounts are naturals within the per-branch cap in every state. *)
THEOREM TypeCorrect == Spec => []TypeOK
<1>1. IInv => TypeOK
  BY DEF IInv
<1> QED
  BY <1>1, Invariance, PTL

(* Allocation, charging and redistribution, in any order and over lost     *)
(* processes, never let the branches hold or use more than the run's       *)
(* search calls, nor a branch more than it was given.                      *)
THEOREM BudgetIsKept == Spec => []WithinBudget
<1>1. IInv => WithinBudget
  BY SoundWithinBudget, BudgetAssumption DEF IInv, WithinBudget, Sound
<1> QED
  BY <1>1, Invariance, PTL

(* A branch marked exhausted always has its warning on the run's list. *)
THEOREM ExhaustionReported == Spec => []ExhaustionIsReported
<1>1. IInv => ExhaustionIsReported
  BY DEF IInv
<1> QED
  BY <1>1, Invariance, PTL

(* In every state, redistribution with any metrics would give a branch no  *)
(* fewer new calls than a better covered one, short of its cap: the weakest *)
(* coverage is served first.                                               *)
THEOREM WeakestServedFirst == Spec => []WeakestFirst
<1>1. IInv => WeakestFirst
  <2> SUFFICES ASSUME IInv, Created,
                      NEW metric \in [Branches -> Metrics], NEW verify \in SUBSET Branches,
                      NEW b \in Branches, NEW c \in Branches \ verify, Weaker(metric, b, c)
               PROVE  LET fresh == Redistributed(metric, verify).allocated
                      IN  \/ fresh[b] - budget.used[b] >= fresh[c] - budget.used[c]
                          \/ fresh[b] = per_branch_cap
    BY DEF WeakestFirst
  <2>1. Sound(budget, total_budget) /\ total_budget \in Nat /\ verify_min \in Nat
    BY BudgetAssumption DEF IInv
  <2> QED
    BY <2>1, ReallocatedServesWeakest DEF Redistributed
<1> QED
  BY <1>1, Invariance, PTL

(* In every state, redistribution with any metrics would allocate the      *)
(* whole run budget or bring every branch to its cap.                      *)
THEOREM NothingLeftStranded == Spec => []NothingStranded
<1>1. IInv => NothingStranded
  <2> SUFFICES ASSUME IInv, Created,
                      NEW metric \in [Branches -> Metrics], NEW verify \in SUBSET Branches
               PROVE  LET fresh == Redistributed(metric, verify).allocated
                      IN  \/ Total(fresh) = total_budget
                          \/ \A b \in Branches : fresh[b] = per_branch_cap
    BY DEF NothingStranded
  <2>1. Sound(budget, total_budget) /\ total_budget \in Nat /\ verify_min \in Nat
    BY BudgetAssumption DEF IInv
  <2> QED
    BY <2>1, ReallocatedFills DEF Redistributed
<1> QED
  BY <1>1, Invariance, PTL
=============================================================================
