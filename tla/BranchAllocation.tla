------------------------- MODULE BranchAllocation -------------------------
(***************************************************************************)
(* The arithmetic of orchestration/budget.py: how BranchBudget divides a   *)
(* run's search calls among the sub-question branches before the fan-out,  *)
(* how it redistributes what is left, and how a branch is charged.         *)
(*                                                                         *)
(* A budget is a record of three functions on branch ids: the calls        *)
(* allocated to a branch, the calls it has used, and whether it carries    *)
(* the "branch budget exhausted" mark.  The code sets and clears           *)
(* item.exhausted and item.coverage_warning together, so one flag stands   *)
(* for both.  Branch ids are naturals, ordered as the code orders the id   *)
(* strings it sorts.                                                       *)
(*                                                                         *)
(* A call to be granted is a "unit" <<b, k>>: the k-th extra call of       *)
(* branch b.  The two greedy loops of reallocate hand out units in a       *)
(* fixed order until none is available, so a unit is granted exactly when  *)
(* fewer units than are available come before it.                          *)
(***************************************************************************)
EXTENDS Integers, Sequences, FiniteSets

CONSTANTS
  Branches,        \* ids of the plan's sub-questions
  per_branch_cap,  \* branch_single_cap
  Metrics          \* the coverage metrics a branch may report

ASSUME AllocationAssumption ==
  /\ Branches \subseteq Nat /\ IsFiniteSet(Branches) /\ Branches # {}
  /\ per_branch_cap \in Nat \ {0}
  /\ Metrics \subseteq Int

(* The orders of a plan's branches, and the budgets the code may hold. *)
Orders == {s \in [1..Cardinality(Branches) -> Branches] :
             \A i, j \in DOMAIN s : s[i] = s[j] => i = j}

Budgets == [ allocated : [Branches -> 0..per_branch_cap],
             used      : [Branches -> 0..per_branch_cap],
             exhausted : [Branches -> BOOLEAN] ]

Least(a, b) == IF a <= b THEN a ELSE b
Most(a, b) == IF a >= b THEN a ELSE b

(* The units of a function from branches to counts; their number is the    *)
(* sum that total_used computes.                                           *)
Units(count) == UNION {{b} \X (1..count[b]) : b \in DOMAIN count}
Total(count) == Cardinality(Units(count))

remaining(bb, b) == Most(0, bb.allocated[b] - bb.used[b])
total_used(bb) == Total(bb.used)
total_remaining(bb, total) == Most(0, total - total_used(bb))

---------------------------------------------------------------------------
(* BranchBudget.allocate.  "ordered" is the duplicate-free sequence of     *)
(* branch ids; an earlier branch takes a unit of the division's remainder. *)

Distributable(n, total, cap, planned) ==
  Least(Least(total, Most(n, total \div planned)), cap * n)

Place(ordered, b) == CHOOSE i \in DOMAIN ordered : ordered[i] = b

EqualShare(ordered, d, cap) ==
  [b \in {ordered[i] : i \in DOMAIN ordered} |->
     Least(cap, d \div Len(ordered)
                  + (IF Place(ordered, b) <= d % Len(ordered) THEN 1 ELSE 0))]

Allocated(ordered, total, cap, planned) ==
  LET share == EqualShare(ordered,
                          Distributable(Len(ordered), total, cap, planned), cap)
  IN  [ allocated |-> share,
        used      |-> [b \in DOMAIN share |-> 0],
        exhausted |-> [b \in DOMAIN share |-> FALSE] ]

---------------------------------------------------------------------------
(* BranchBudget.reallocate.                                                *)

(* Mutant: the loop stops one call early (available > 1 for > 0). *)
GrantStoppingEarly(room, ahead, available) ==
  [b \in DOMAIN room |->
     Cardinality({k \in 1..room[b] : Cardinality(ahead[<<b, k>>]) < available - 1})]

Grant(room, ahead, available) ==
  [b \in DOMAIN room |->
     Cardinality({k \in 1..room[b] : Cardinality(ahead[<<b, k>>]) < available})]

(* The floor of the branches that re-verify a prior conclusion: each in    *)
(* id order, up to its whole need before the next is served.               *)
VerifyAhead(room) ==
  [u \in Units(room) |->
     {w \in Units(room) : w[1] < u[1] \/ (w[1] = u[1] /\ w[2] < u[2])}]

(* The round robin: one unit per branch and round, weakest metric first.   *)
Weaker(metric, b, c) == metric[b] < metric[c] \/ (metric[b] = metric[c] /\ b < c)

(* Mutant: the round robin sorts by descending metric. *)
RoundAheadStrongestFirst(room, metric) ==
  [u \in Units(room) |->
     {w \in Units(room) : w[2] < u[2] \/ (w[2] = u[2] /\ Weaker(metric, u[1], w[1]))}]

RoundAhead(room, metric) ==
  [u \in Units(room) |->
     {w \in Units(room) : w[2] < u[2] \/ (w[2] = u[2] /\ Weaker(metric, w[1], u[1]))}]

(* Mutant: the calls already used are not subtracted. *)
AvailableIgnoringUsed(bb, total, cap) ==
  Least(total, cap * Cardinality(DOMAIN bb.used))

Available(bb, total, cap) ==
  Most(0, Least(total, cap * Cardinality(DOMAIN bb.used)) - total_used(bb))

Floor(bb, verify, verifyMin, total, cap) ==
  LET need == [b \in DOMAIN bb.used |->
                 IF b \in verify THEN Most(0, Least(verifyMin, cap) - bb.used[b])
                                 ELSE 0]
  IN  Grant(need, VerifyAhead(need), Available(bb, total, cap))

(* Mutant: a branch's room is computed before its floor was granted. *)
TopupBesideFloor(bb, floor, metric, total, cap) ==
  LET room == [b \in DOMAIN bb.used |-> Most(0, cap - bb.used[b])]
  IN  Grant(room, RoundAhead(room, metric),
            Available(bb, total, cap) - Total(floor))

Topup(bb, floor, metric, total, cap) ==
  LET room == [b \in DOMAIN bb.used |-> Most(0, cap - bb.used[b] - floor[b])]
  IN  Grant(room, RoundAhead(room, metric),
            Available(bb, total, cap) - Total(floor))

Reallocated(bb, metric, verify, verifyMin, total, cap) ==
  LET floor == Floor(bb, verify, verifyMin, total, cap)
      topup == Topup(bb, floor, metric, total, cap)
      fresh == [b \in DOMAIN bb.used |-> bb.used[b] + floor[b] + topup[b]]
  IN  [ allocated |-> fresh,
        used      |-> bb.used,
        exhausted |-> [b \in DOMAIN bb.used |->
                         bb.exhausted[b] /\ fresh[b] = bb.used[b]] ]

(* Mutant: every marked branch loses its warning, refilled or not. *)
LiftedFromAll(before, after) == {b \in DOMAIN before.used : before.exhausted[b]}

(* The warnings reallocate takes off the run's list: those of the branches *)
(* it gives calls to.                                                      *)
Lifted(before, after) ==
  {b \in DOMAIN before.used : before.exhausted[b] /\ ~ after.exhausted[b]}

---------------------------------------------------------------------------
(* BranchBudget.consume.  A charge above what the branch or the run has    *)
(* left is refused as a whole: the branch is marked and nothing is spent.  *)

Refused(bb, b, amount, total) ==
  amount > remaining(bb, b) \/ amount > total_remaining(bb, total)

Marked(bb, b, amount, total) ==
  Refused(bb, b, amount, total) \/ bb.used[b] + amount = bb.allocated[b]

Consumed(bb, b, amount, total) ==
  [bb EXCEPT !.used[b] = IF Refused(bb, b, amount, total) THEN @ ELSE @ + amount,
             !.exhausted[b] = @ \/ Marked(bb, b, amount, total)]
=============================================================================
