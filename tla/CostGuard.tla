----------------------------- MODULE CostGuard -----------------------------
(***************************************************************************)
(* The daily limit on paid runs: DailyCostGuard of api/demo.py, a file with *)
(* the money spent and reserved today, and its callers, the demo pipeline  *)
(* (DemoService._run_llm_pipeline, one run at a time under _run_lock) and  *)
(* the research endpoint (run_research of api/main.py, any number at once). *)
(* Every method of the guard holds its lock and starts by loading the file, *)
(* which begins a new day's account when the date has changed.             *)
(***************************************************************************)
EXTENDS Integers, FiniteSets

CONSTANTS
  DemoCallers,      \* threads that run the demo pipeline
  ResearchCallers,  \* threads that serve POST /research in llm mode
  None,             \* "no thread"
  limit,            \* demo_daily_llm_limit_cny
  llm_budget,       \* llm_budget_cny, what a run reserves and is to stay within
  MaxRunCost,       \* bound: the most a run costs, over its budget or not
  MaxDays           \* bound: midnights

Callers == DemoCallers \cup ResearchCallers

ASSUME GuardAssumption ==
  /\ IsFiniteSet(DemoCallers) /\ IsFiniteSet(ResearchCallers)
  /\ DemoCallers \cap ResearchCallers = {} /\ None \notin DemoCallers
  /\ limit \in Nat /\ llm_budget \in Nat \ {0} /\ MaxDays \in Nat
  /\ MaxRunCost \in Nat /\ MaxRunCost >= llm_budget

VARIABLES
  today,      \* date.today()
  file,       \* the guard's state file
  caller,     \* where each caller is, the day it reserved on, what it cost
  run_lock,   \* who holds DemoService._run_lock
  carried,    \* history: settlements today of reservations of an earlier day
  over,       \* history: what the runs settled today cost above their reservations
  killed      \* history: runs of today the server died under

vars == <<today, file, caller, run_lock, carried, over, killed>>

NewDay == [date |-> today, spent |-> 0, reserved |-> 0]
load_current_state == IF file.date = today THEN file ELSE NewDay

(* Mutant: what the run itself may cost is not counted. *)
AdmitsAnything(state) == state.spent + state.reserved <= limit

Admits(state) == state.spent + state.reserved + llm_budget <= limit

Reserved(state) == [state EXCEPT !.reserved = @ + llm_budget]

(* Mutant: the reservation is taken back without the floor at zero. *)
SettledBelowZero(state, actual) ==
  [state EXCEPT !.reserved = @ - llm_budget, !.spent = @ + actual]

Settled(state, actual) ==
  [state EXCEPT !.reserved = IF @ >= llm_budget THEN @ - llm_budget ELSE 0,
                !.spent = @ + actual]

Idle == [at |-> "idle", day |-> 0, cost |-> 0]

Init ==
  /\ today = 0
  /\ file = NewDay
  /\ caller = [c \in Callers |-> Idle]
  /\ run_lock = None
  /\ carried = 0 /\ over = 0 /\ killed = 0

---------------------------------------------------------------------------
AssertCanStart(c) ==
  /\ c \in DemoCallers /\ caller[c].at = "idle"
  /\ file' = load_current_state
  /\ caller' = [caller EXCEPT ![c].at = IF file'.spent + file'.reserved >= limit
                                        THEN "idle" ELSE "checked"]
  /\ UNCHANGED <<today, run_lock, carried, over, killed>>

(* The demo pipeline reserves after its check and with the lock, the       *)
(* research endpoint at once.                                              *)
MayReserve(c) ==
  \/ c \in DemoCallers /\ caller[c].at = "checked" /\ run_lock = None
  \/ c \in ResearchCallers /\ caller[c].at = "idle"

Reserve(c) ==
  /\ MayReserve(c)
  /\ Admits(load_current_state)
  /\ file' = Reserved(load_current_state)
  /\ caller' = [caller EXCEPT ![c] = [at |-> "running", day |-> today, cost |-> 0]]
  /\ run_lock' = IF c \in DemoCallers THEN c ELSE run_lock
  /\ UNCHANGED <<today, carried, over, killed>>

Refuse(c) ==
  /\ MayReserve(c)
  /\ ~ Admits(load_current_state)
  /\ file' = load_current_state
  /\ caller' = [caller EXCEPT ![c] = Idle]
  /\ UNCHANGED <<today, run_lock, carried, over, killed>>

Unlock(c) == run_lock' = IF run_lock = c THEN None ELSE run_lock

Over(actual) == IF actual > llm_budget THEN actual - llm_budget ELSE 0

Settle(c, actual) ==
  /\ file' = Settled(load_current_state, actual)
  /\ caller' = [caller EXCEPT ![c] = Idle]
  /\ carried' = IF caller[c].day = today THEN carried ELSE carried + 1
  /\ over' = over + Over(actual)
  /\ UNCHANGED <<today, killed>>

(* Mutant: a failing run's reservation is left in place. *)
RunRaisesUnsettled(c) ==
  /\ caller[c].at = "running"
  /\ file' = load_current_state
  /\ caller' = [caller EXCEPT ![c] = Idle]
  /\ Unlock(c)
  /\ UNCHANGED <<today, carried, over, killed>>

(* A failed run is taken to have spent its whole reservation, and settles  *)
(* before the lock is released.                                            *)
RunRaises(c) ==
  /\ caller[c].at = "running"
  /\ Settle(c, llm_budget)
  /\ Unlock(c)

(* One that returns settles after it, so the next run may reserve first.   *)
(* It may have cost more than it reserved: the client raises only once the *)
(* answer over the budget is charged, and the engine catches that and      *)
(* returns a partial state (client.py:671-672, engine.py:587-621).         *)
RunReturns(c, cost) ==
  /\ caller[c].at = "running"
  /\ caller' = [caller EXCEPT ![c].at = "returned", ![c].cost = cost]
  /\ Unlock(c)
  /\ UNCHANGED <<today, file, carried, over, killed>>

SettleReturned(c) ==
  /\ caller[c].at = "returned"
  /\ Settle(c, caller[c].cost)
  /\ UNCHANGED run_lock

Midnight ==
  /\ today < MaxDays
  /\ today' = today + 1
  /\ carried' = 0 /\ over' = 0 /\ killed' = 0
  /\ UNCHANGED <<file, caller, run_lock>>

(* The runs whose reservation of today is not settled yet. *)
Open == {c \in Callers : caller[c].at \in {"running", "returned"} /\ caller[c].day = today}

(* The server dies and is started again on the same file. *)
Restart ==
  /\ caller' = [c \in Callers |-> Idle]
  /\ run_lock' = None
  /\ killed' = killed + Cardinality(Open)
  /\ UNCHANGED <<today, file, carried, over>>

Next ==
  \/ \E c \in Callers :
       \/ AssertCanStart(c) \/ Reserve(c) \/ Refuse(c)
       \/ RunRaises(c) \/ SettleReturned(c)
       \/ \E cost \in 0..MaxRunCost : RunReturns(c, cost)
  \/ Midnight
  \/ Restart

Spec == Init /\ [][Next]_vars

---------------------------------------------------------------------------
(* Properties. *)

(* The budgets of today's runs that the file does not count as spent: of   *)
(* those that are not settled yet, and of those that were killed.          *)
Owed == llm_budget * (Cardinality(Open) + killed)

TypeOK ==
  /\ today \in 0..MaxDays
  /\ file \in [date : 0..MaxDays, spent : Nat, reserved : Nat]
  /\ caller \in [Callers -> [at : {"idle", "checked", "running", "returned"},
                             day : 0..MaxDays, cost : 0..MaxRunCost]]
  /\ run_lock \in DemoCallers \cup {None}
  /\ carried \in Nat /\ over \in Nat /\ killed \in Nat

(* What the file counts as spent today, with the budgets of today's open   *)
(* and killed runs, exceeds the limit by no more than two things: a run's  *)
(* budget for every run that settled today what it reserved on an earlier  *)
(* day, and what the runs settled today cost above their reservations.     *)
(* On a day without either, the limit holds, whatever fails or restarts;   *)
(* a run that raised counts at its reservation, which is all that is known *)
(* of it (api/demo.py:57-87, 525-546, api/main.py:84-98).                  *)
CapUpToCarriedRuns ==
  file.date = today => file.spent + Owed <= limit + llm_budget * carried + over

(* The reservations in the file are those of today's open and killed runs: *)
(* none is kept for a run that has settled, and none is missing unless a   *)
(* run of an earlier day took it back.                                     *)
ReservedIsOwed ==
  file.date = today =>
    /\ file.reserved <= Owed
    /\ file.reserved + llm_budget * carried >= Owed

(* docs/deployment.md: the paid layers share the guard and are capped by   *)
(* the daily limit.                                                        *)
DailyCap == file.spent <= limit
=============================================================================
