-------------------------- MODULE CostGuardProofs --------------------------
(***************************************************************************)
(* Theorems about CostGuard for any callers, limit, run budget and number  *)
(* of days.                                                                *)
(***************************************************************************)
EXTENDS CostGuard, FiniteSetTheorems, TLAPS

---------------------------------------------------------------------------
(* The inductive invariant. *)

(* Until something is reserved today, the file may still be yesterday's and *)
(* today owes nothing.                                                     *)
StaleFileOwesNothing ==
  /\ file.date <= today
  /\ \A c \in Callers : caller[c].day <= today
  /\ file.date # today => Open = {} /\ carried = 0 /\ over = 0 /\ killed = 0

IInv == TypeOK /\ StaleFileOwesNothing /\ CapUpToCarriedRuns /\ ReservedIsOwed

LEMMA CallersFinite == IsFiniteSet(Callers)
BY GuardAssumption, FS_Union DEF Callers

LEMMA OpenFinite ==
  /\ IsFiniteSet(Open) /\ Cardinality(Open) \in Nat
  /\ IsFiniteSet(Open)' /\ Cardinality(Open)' \in Nat
<1>1. Open \in SUBSET Callers /\ Open' \in SUBSET Callers
  BY DEF Open
<1> QED
  BY <1>1, CallersFinite, FS_Subset, FS_CardinalityType

(* The arithmetic of budgets: one more run owes one more budget. *)
LEMMA OneMore ==
  ASSUME NEW n \in Int, NEW b \in Nat
  PROVE  b * n \in Int /\ b * (n + 1) = b * n + b /\ b * (n - 1) = b * n - b
         /\ b * 0 = 0 /\ (n >= 0 => b * n >= 0)
<1>1. b * n \in Int
  OBVIOUS
<1>2. b * (n + 1) = b * n + b
  OBVIOUS
<1>3. b * (n - 1) = b * n - b
  OBVIOUS
<1>4. n >= 0 => b * n >= 0
  OBVIOUS
<1> QED
  BY <1>1, <1>2, <1>3, <1>4

(* The state every method of the guard starts from: the invariant holds of *)
(* it whether or not the day is new.                                       *)
LEMMA Loaded ==
  ASSUME IInv
  PROVE  LET state == load_current_state
         IN  /\ state \in [date : 0..MaxDays, spent : Nat, reserved : Nat]
             /\ state.date = today
             /\ Owed \in Nat
             /\ state.spent + Owed <= limit + llm_budget * carried + over
             /\ state.reserved <= Owed
             /\ state.reserved + llm_budget * carried >= Owed
<1>0. /\ limit \in Nat /\ llm_budget \in Nat /\ carried \in Nat /\ killed \in Nat /\ over \in Nat
      /\ Cardinality(Open) \in Nat
  BY GuardAssumption, OpenFinite DEF IInv, TypeOK
<1>1. Owed \in Nat
  <2>1. Cardinality(Open) + killed \in Nat
    BY <1>0
  <2> QED
    BY <1>0, <2>1 DEF Owed
<1>2. CASE file.date = today
  BY <1>1, <1>2 DEF load_current_state, IInv, TypeOK, CapUpToCarriedRuns, ReservedIsOwed
<1>3. CASE file.date # today
  <2>1. Open = {} /\ carried = 0 /\ over = 0 /\ killed = 0
    BY <1>3 DEF IInv, StaleFileOwesNothing
  <2>2. Cardinality(Open) = 0
    BY <2>1, FS_EmptySet
  <2>3. Owed = 0 /\ llm_budget * carried = 0
    BY <1>0, <2>1, <2>2, OneMore DEF Owed
  <2> QED
    BY <1>0, <1>3, <2>3 DEF load_current_state, NewDay, IInv, TypeOK
<1> QED
  BY <1>1, <1>2, <1>3

---------------------------------------------------------------------------
(* The invariant is inductive. *)

LEMMA InitIInv == Init => IInv
<1> SUFFICES ASSUME Init PROVE IInv
  OBVIOUS
<1>1. Open = {}
  BY DEF Init, Open, Idle
<1>2. Cardinality(Open) = 0
  BY <1>1, FS_EmptySet
<1>3. TypeOK
  BY GuardAssumption DEF Init, TypeOK, Idle, NewDay
<1>4. StaleFileOwesNothing
  BY <1>1 DEF Init, StaleFileOwesNothing, Idle, NewDay
<1>5. Owed = 0 /\ llm_budget * carried = 0
  BY <1>2, OneMore, GuardAssumption DEF Init, Owed
<1>6. CapUpToCarriedRuns /\ ReservedIsOwed
  BY <1>5, GuardAssumption DEF Init, CapUpToCarriedRuns, ReservedIsOwed, NewDay
<1> QED
  BY <1>3, <1>4, <1>6 DEF IInv

(* A step that only loads the file, and opens and settles no run. *)
LEMMA LoadKeepsIInv ==
  ASSUME IInv, file' = load_current_state \/ file' = file, TypeOK',
         Open' = Open, UNCHANGED <<today, carried, over, killed>>,
         \A c \in Callers : caller'[c].day <= today
  PROVE  IInv'
<1>1. Owed' = Owed
  BY DEF Owed
<1>2. file'.date <= today /\ (file'.date # today => file' = file)
  BY Loaded DEF IInv, StaleFileOwesNothing
<1>3. StaleFileOwesNothing'
  BY <1>2 DEF IInv, StaleFileOwesNothing
<1>4. CapUpToCarriedRuns' /\ ReservedIsOwed'
  BY <1>1, Loaded DEF IInv, CapUpToCarriedRuns, ReservedIsOwed
<1> QED
  BY <1>3, <1>4 DEF IInv

(* A run that reserves is admitted with its whole budget. *)
LEMMA ReserveKeepsIInv ==
  ASSUME IInv, NEW c \in Callers, Reserve(c)
  PROVE  IInv'
<1> DEFINE state == load_current_state
           n == Cardinality(Open) + killed
<1>0. /\ limit \in Nat /\ llm_budget \in Nat /\ carried \in Nat /\ killed \in Nat /\ over \in Nat
      /\ MaxRunCost \in Nat
      /\ Cardinality(Open) \in Nat /\ IsFiniteSet(Open) /\ today \in 0..MaxDays
  BY GuardAssumption, OpenFinite DEF IInv, TypeOK
<1>1. /\ state \in [date : 0..MaxDays, spent : Nat, reserved : Nat] /\ state.date = today
      /\ Owed \in Nat /\ state.spent + Owed <= limit + llm_budget * carried + over
      /\ state.reserved <= Owed /\ state.reserved + llm_budget * carried >= Owed
  BY Loaded
<1> HIDE DEF state
<1>2. /\ state.spent + state.reserved + llm_budget <= limit
      /\ file' = [state EXCEPT !.reserved = @ + llm_budget]
      /\ caller' = [caller EXCEPT ![c] = [at |-> "running", day |-> today, cost |-> 0]]
      /\ UNCHANGED <<today, carried, over, killed>>
      /\ run_lock' \in DemoCallers \cup {None}
      /\ caller[c].at \notin {"running", "returned"}
  BY DEF Reserve, MayReserve, Admits, Reserved, state, IInv, TypeOK
<1>3. Open' = Open \cup {c} /\ c \notin Open
  BY <1>2 DEF Open, IInv, TypeOK
<1>4. Cardinality(Open)' = Cardinality(Open) + 1
  BY <1>0, <1>3, FS_AddElement
<1>5. Owed' = Owed + llm_budget
  <2>1. n \in Int /\ Cardinality(Open)' + killed' = n + 1
    BY <1>0, <1>2, <1>4
  <2> HIDE DEF n
  <2>2. Owed' = llm_budget * (n + 1)
    BY <2>1 DEF Owed
  <2> QED
    BY <1>0, <2>1, <2>2, OneMore DEF Owed, n
<1>6. /\ file'.date = today /\ file'.spent = state.spent
      /\ file'.reserved = state.reserved + llm_budget
      /\ file' \in [date : 0..MaxDays, spent : Nat, reserved : Nat]
  BY <1>0, <1>1, <1>2
<1>7. TypeOK'
  BY <1>0, <1>2, <1>6 DEF IInv, TypeOK
<1>8. StaleFileOwesNothing'
  BY <1>0, <1>2, <1>6 DEF IInv, StaleFileOwesNothing, TypeOK
<1>9. llm_budget * carried \in Nat
  BY <1>0
<1>10. CapUpToCarriedRuns' /\ ReservedIsOwed'
  BY <1>0, <1>1, <1>2, <1>5, <1>6, <1>9 DEF CapUpToCarriedRuns, ReservedIsOwed
<1> QED
  BY <1>7, <1>8, <1>10 DEF IInv

(* A run that settles gives its budget back for what it spent, or, when it *)
(* reserved on an earlier day, counts as carried.                          *)
LEMMA SettleKeepsIInv ==
  ASSUME IInv, NEW c \in Callers, caller[c].at \in {"running", "returned"},
         NEW actual \in 0..MaxRunCost, Settle(c, actual),
         run_lock' \in DemoCallers \cup {None}
  PROVE  IInv'
<1> DEFINE state == load_current_state
           n == Cardinality(Open) + killed
<1>0. /\ limit \in Nat /\ llm_budget \in Nat /\ carried \in Nat /\ killed \in Nat /\ over \in Nat
      /\ Cardinality(Open) \in Nat /\ IsFiniteSet(Open) /\ today \in 0..MaxDays
      /\ actual \in Nat /\ Over(actual) \in Nat /\ actual <= llm_budget + Over(actual)
  BY GuardAssumption, OpenFinite DEF IInv, TypeOK, Over
<1>1. /\ state \in [date : 0..MaxDays, spent : Nat, reserved : Nat] /\ state.date = today
      /\ Owed \in Nat /\ state.spent + Owed <= limit + llm_budget * carried + over
      /\ state.reserved <= Owed /\ state.reserved + llm_budget * carried >= Owed
  BY Loaded
<1> HIDE DEF state
<1>2. /\ file' = [state EXCEPT !.reserved = IF @ >= llm_budget THEN @ - llm_budget ELSE 0,
                               !.spent = @ + actual]
      /\ caller' = [caller EXCEPT ![c] = Idle]
      /\ carried' = (IF caller[c].day = today THEN carried ELSE carried + 1)
      /\ over' = over + Over(actual)
      /\ UNCHANGED <<today, killed>>
  BY DEF Settle, Settled, state
<1>3. /\ file'.date = today /\ file'.spent = state.spent + actual
      /\ file'.reserved = (IF state.reserved >= llm_budget THEN state.reserved - llm_budget ELSE 0)
      /\ file' \in [date : 0..MaxDays, spent : Nat, reserved : Nat]
  <2>1. state.reserved \in Nat /\ state.spent \in Nat
    BY <1>1
  <2>2. (IF state.reserved >= llm_budget THEN state.reserved - llm_budget ELSE 0) \in Nat
        /\ state.spent + actual \in Nat
    BY <1>0, <2>1
  <2>3. /\ file'.date = state.date /\ file'.spent = state.spent + actual
        /\ file'.reserved = (IF state.reserved >= llm_budget
                             THEN state.reserved - llm_budget ELSE 0)
    BY <1>1, <1>2
  <2>4. file' = [date |-> file'.date, spent |-> file'.spent, reserved |-> file'.reserved]
    BY <1>1, <1>2
  <2> QED
    BY <1>0, <1>1, <2>2, <2>3, <2>4
<1>4. TypeOK'
  <2>1. Idle \in [at : {"idle", "checked", "running", "returned"},
                  day : 0..MaxDays, cost : 0..MaxRunCost]
    BY <1>0, GuardAssumption DEF Idle
  <2>2. caller' \in [Callers -> [at : {"idle", "checked", "running", "returned"},
                                 day : 0..MaxDays, cost : 0..MaxRunCost]]
    BY <1>2, <2>1 DEF IInv, TypeOK
  <2>3. carried' \in Nat /\ over' \in Nat
    BY <1>0, <1>2
  <2> QED
    BY <1>0, <1>2, <1>3, <2>2, <2>3 DEF IInv, TypeOK
<1>5. StaleFileOwesNothing'
  BY <1>0, <1>2, <1>3 DEF IInv, StaleFileOwesNothing, TypeOK, Idle
<1>6. Open' = Open \ {c}
  BY <1>2 DEF Open, IInv, TypeOK, Idle
<1>7. llm_budget * carried \in Nat /\ llm_budget * (carried + 1) = llm_budget * carried + llm_budget
  BY <1>0, OneMore
<1>8. CASE caller[c].day = today
  <2>1. c \in Open
    BY <1>8 DEF Open
  <2>2. Cardinality(Open)' = Cardinality(Open) - 1
    BY <1>0, <1>6, <2>1, FS_RemoveElement
  <2>3. n \in Int /\ Cardinality(Open)' + killed' = n - 1
    BY <1>0, <1>2, <2>2
  <2>4. Owed' = Owed - llm_budget
    <3> HIDE DEF n
    <3>1. Owed' = llm_budget * (n - 1)
      BY <2>3 DEF Owed
    <3> QED
      BY <1>0, <2>3, <3>1, OneMore DEF Owed, n
  <2>5. carried' = carried
    BY <1>2, <1>8
  <2>6. Owed' \in Nat
    <3>1. Cardinality(Open)' + killed' \in Nat
      BY <1>0, <1>2, OpenFinite
    <3> QED
      BY <1>0, <3>1 DEF Owed
  <2> QED
    BY <1>0, <1>1, <1>2, <1>3, <1>4, <1>5, <1>7, <2>4, <2>5, <2>6
       DEF IInv, CapUpToCarriedRuns, ReservedIsOwed
<1>9. CASE caller[c].day # today
  <2>1. Open' = Open
    BY <1>6, <1>9 DEF Open
  <2>2. Owed' = Owed
    BY <1>2, <2>1 DEF Owed
  <2>3. carried' = carried + 1
    BY <1>2, <1>9
  <2> QED
    BY <1>0, <1>1, <1>2, <1>3, <1>4, <1>5, <1>7, <2>2, <2>3
       DEF IInv, CapUpToCarriedRuns, ReservedIsOwed
<1> QED
  BY <1>8, <1>9

LEMMA NextIInv == IInv /\ [Next]_vars => IInv'
<1> SUFFICES ASSUME IInv, [Next]_vars PROVE IInv'
  OBVIOUS
<1>0. /\ TypeOK /\ llm_budget \in Nat /\ today \in 0..MaxDays /\ MaxDays \in Nat
      /\ MaxRunCost \in Nat
      /\ load_current_state \in [date : 0..MaxDays, spent : Nat, reserved : Nat]
      /\ \A c \in Callers : caller[c].day <= today
  BY GuardAssumption, Loaded DEF IInv, TypeOK, StaleFileOwesNothing
<1>1. ASSUME NEW c \in Callers, AssertCanStart(c) PROVE IInv'
  <2>1. TypeOK'
    BY <1>0, <1>1 DEF AssertCanStart, TypeOK
  <2>2. Open' = Open
    BY <1>0, <1>1 DEF AssertCanStart, Open, TypeOK
  <2>3. \A d \in Callers : caller'[d].day <= today
    BY <1>0, <1>1 DEF AssertCanStart, TypeOK
  <2> QED
    BY <1>1, <2>1, <2>2, <2>3, LoadKeepsIInv DEF AssertCanStart
<1>2. ASSUME NEW c \in Callers, Reserve(c) PROVE IInv'
  BY <1>2, ReserveKeepsIInv
<1>3. ASSUME NEW c \in Callers, Refuse(c) PROVE IInv'
  <2>1. TypeOK'
    BY <1>0, <1>3 DEF Refuse, TypeOK, Idle
  <2>2. Open' = Open
    BY <1>0, <1>3 DEF Refuse, MayReserve, Open, TypeOK, Idle
  <2>3. \A d \in Callers : caller'[d].day <= today
    BY <1>0, <1>3 DEF Refuse, TypeOK, Idle
  <2> QED
    BY <1>3, <2>1, <2>2, <2>3, LoadKeepsIInv DEF Refuse
<1>4. ASSUME NEW c \in Callers, RunRaises(c) PROVE IInv'
  <2>1. run_lock' \in DemoCallers \cup {None} /\ llm_budget \in 0..MaxRunCost
    BY <1>0, <1>4, GuardAssumption DEF RunRaises, Unlock, TypeOK
  <2> QED
    BY <1>4, <2>1, SettleKeepsIInv DEF RunRaises
<1>5. ASSUME NEW c \in Callers, SettleReturned(c) PROVE IInv'
  <2>1. run_lock' \in DemoCallers \cup {None} /\ caller[c].cost \in 0..MaxRunCost
    BY <1>0, <1>5 DEF SettleReturned, TypeOK
  <2> QED
    BY <1>5, <2>1, SettleKeepsIInv DEF SettleReturned
<1>6. ASSUME NEW c \in Callers, NEW cost \in 0..MaxRunCost, RunReturns(c, cost) PROVE IInv'
  <2>1. TypeOK'
    BY <1>0, <1>6 DEF RunReturns, Unlock, TypeOK
  <2>2. Open' = Open
    BY <1>0, <1>6 DEF RunReturns, Open, TypeOK
  <2>3. \A d \in Callers : caller'[d].day <= today
    BY <1>0, <1>6 DEF RunReturns, TypeOK
  <2> QED
    BY <1>6, <2>1, <2>2, <2>3, LoadKeepsIInv DEF RunReturns
<1>7. CASE Midnight
  <2>1. Open' = {}
    BY <1>0, <1>7 DEF Midnight, Open, TypeOK
  <2>2. TypeOK'
    BY <1>0, <1>7 DEF Midnight, TypeOK
  <2>3. file.date <= today /\ file.date \in Nat
    BY <1>0 DEF IInv, TypeOK, StaleFileOwesNothing
  <2>4. file'.date # today' /\ file'.date <= today'
    BY <1>0, <1>7, <2>3 DEF Midnight
  <2>5. \A c \in Callers : caller'[c].day <= today'
    BY <1>0, <1>7 DEF Midnight, TypeOK
  <2> QED
    BY <1>7, <2>1, <2>2, <2>4, <2>5
       DEF Midnight, IInv, StaleFileOwesNothing, CapUpToCarriedRuns, ReservedIsOwed
<1>8. CASE Restart
  <2>1. Open' = {}
    BY <1>8 DEF Restart, Open, Idle
  <2>2. Cardinality(Open)' = 0
    BY <2>1, FS_EmptySet
  <2>3. killed' = killed + Cardinality(Open) /\ killed \in Nat /\ Cardinality(Open) \in Nat
    BY <1>8, OpenFinite DEF Restart, IInv, TypeOK
  <2>4. Owed' = Owed
    <3>1. Cardinality(Open)' + killed' = Cardinality(Open) + killed
      BY <2>2, <2>3
    <3> QED
      BY <3>1 DEF Owed
  <2>5. TypeOK'
    BY <1>0, <1>8, <2>3 DEF Restart, TypeOK, Idle
  <2>6. StaleFileOwesNothing'
    <3>1. Open = {} => Cardinality(Open) = 0
      BY FS_EmptySet
    <3> QED
      BY <1>0, <1>8, <2>1, <2>3, <3>1 DEF Restart, IInv, StaleFileOwesNothing, Idle, TypeOK
  <2> QED
    BY <1>8, <2>4, <2>5, <2>6 DEF Restart, IInv, CapUpToCarriedRuns, ReservedIsOwed
<1>9. CASE UNCHANGED vars
  <2>1. Open' = Open
    BY <1>9 DEF vars, Open
  <2> QED
    BY <1>9, <2>1 DEF vars, IInv, TypeOK, StaleFileOwesNothing, CapUpToCarriedRuns,
       ReservedIsOwed, Owed
<1> QED
  BY <1>1, <1>2, <1>3, <1>4, <1>5, <1>6, <1>7, <1>8, <1>9 DEF Next

LEMMA Invariance == Spec => []IInv
BY InitIInv, NextIInv, PTL DEF Spec

---------------------------------------------------------------------------
(* The theorems. *)

(* Every state of the guard is well typed: no balance is ever negative. *)
THEOREM TypeCorrect == Spec => []TypeOK
<1>1. IInv => TypeOK
  BY DEF IInv
<1> QED
  BY <1>1, Invariance, PTL

(* On every day, what the file counts as spent and the budgets of the open *)
(* and killed runs stay within the limit, up to one run's budget for each  *)
(* run that crossed midnight and what settled runs cost above what they    *)
(* reserved, however much that is (api/demo.py:57-87, 525-546,             *)
(* api/main.py:84-98).                                                     *)
THEOREM CapHolds == Spec => []CapUpToCarriedRuns
<1>1. IInv => CapUpToCarriedRuns
  BY DEF IInv
<1> QED
  BY <1>1, Invariance, PTL

(* The file reserves what today's open and killed runs may spend, less what *)
(* runs of an earlier day took back.                                       *)
THEOREM ReservationsAreOwed == Spec => []ReservedIsOwed
<1>1. IInv => ReservedIsOwed
  BY DEF IInv
<1> QED
  BY <1>1, Invariance, PTL
=============================================================================
