--------------------------- MODULE LLMClientProofs ---------------------------
(***************************************************************************)
(* Theorems about LLMClient for any number of clients and callers, any     *)
(* budget, estimate and costs, and any number of attempts and restarts.    *)
(***************************************************************************)
EXTENDS LLMClient, FiniteSetTheorems, TLAPS

---------------------------------------------------------------------------
(* Sizes and sums. *)

LEMMA SetsFinite ==
  \A S \in SUBSET Callers : IsFiniteSet(S) /\ Cardinality(S) \in Nat
BY ClientAssumption, FS_Subset, FS_CardinalityType

LEMMA SizeSteps ==
  ASSUME NEW S \in SUBSET Callers, NEW t \in Callers
  PROVE  /\ t \in S => Cardinality(S \ {t}) = Cardinality(S) - 1
         /\ t \notin S => Cardinality(S \cup {t}) = Cardinality(S) + 1
BY SetsFinite, FS_AddElement, FS_RemoveElement

LEMMA SizeMonotone ==
  ASSUME NEW S \in SUBSET Callers, NEW T \in SUBSET S
  PROVE  Cardinality(T) <= Cardinality(S)
BY SetsFinite, FS_Subset

Cents(states, S) == UNION {{t} \X (1..states[t].cost) : t \in S}

LEMMA CentsMembers ==
  ASSUME NEW f \in [Callers -> CallStates], NEW S \in SUBSET Callers
  PROVE  Cents(f, S) = {u \in S \X Nat : u[2] \in 1..f[u[1]].cost}
<1>1. \A t \in S : f[t].cost \in Nat
  BY DEF CallStates
<1>2. ASSUME NEW u \in Cents(f, S) PROVE u \in S \X Nat /\ u[2] \in 1..f[u[1]].cost
  <2>1. PICK t \in S : u \in {t} \X (1..f[t].cost)
    BY DEF Cents
  <2> QED
    BY <1>1, <2>1
<1>3. ASSUME NEW u \in S \X Nat, u[2] \in 1..f[u[1]].cost PROVE u \in Cents(f, S)
  <2>1. u \in {u[1]} \X (1..f[u[1]].cost) /\ u[1] \in S
    BY <1>3
  <2> QED
    BY <2>1 DEF Cents
<1> QED
  BY <1>2, <1>3

LEMMA BlockSize ==
  ASSUME NEW t, NEW n \in Nat
  PROVE  IsFiniteSet({t} \X (1..n)) /\ Cardinality({t} \X (1..n)) = n
<1>1. IsFiniteSet(1..n) /\ Cardinality(1..n) = n
  BY FS_Interval, 1 \in Int, n \in Int
<1>2. IsFiniteSet({t}) /\ Cardinality({t}) = 1
  BY FS_Singleton
<1>3. /\ IsFiniteSet({t} \X (1..n))
      /\ Cardinality({t} \X (1..n)) = Cardinality({t}) * Cardinality(1..n)
  BY <1>1, <1>2, FS_Product
<1> QED
  BY <1>1, <1>2, <1>3

(* A sum over a set that gains a caller gains what its answer costs. *)
LEMMA CostFinite ==
  ASSUME NEW f \in [Callers -> CallStates], NEW S \in SUBSET Callers
  PROVE  IsFiniteSet(Cents(f, S)) /\ CostOf(f, S) = Cardinality(Cents(f, S)) /\ CostOf(f, S) \in Nat
<1> DEFINE B == {{t} \X (1..f[t].cost) : t \in S}
           g == [t \in S |-> {t} \X (1..f[t].cost)]
<1>1. IsFiniteSet(B)
  <2>1. g \in Surjection(S, B)
    BY DEF Surjection
  <2>2. IsFiniteSet(S)
    BY SetsFinite
  <2> HIDE DEF g, B
  <2> QED
    BY <2>1, <2>2, FS_Surjection
<1>2. \A T \in B : IsFiniteSet(T)
  <2> SUFFICES ASSUME NEW t \in S PROVE IsFiniteSet({t} \X (1..f[t].cost))
    OBVIOUS
  <2>1. f[t].cost \in Nat
    BY DEF CallStates
  <2> QED
    BY <2>1, BlockSize
<1>3. IsFiniteSet(UNION B)
  <2> HIDE DEF B
  <2> QED
    BY <1>1, <1>2, FS_UNION
<1> QED
  BY <1>3, FS_CardinalityType DEF Cents, CostOf

LEMMA CostSteps ==
  ASSUME NEW f \in [Callers -> CallStates], NEW S \in SUBSET Callers,
         NEW t \in Callers, t \notin S
  PROVE  CostOf(f, S \cup {t}) = CostOf(f, S) + f[t].cost
<1> DEFINE block == {t} \X (1..f[t].cost)
<1>1. IsFiniteSet(block) /\ Cardinality(block) = f[t].cost /\ f[t].cost \in Nat
  <2>1. f[t].cost \in Nat
    BY DEF CallStates
  <2> QED
    BY <2>1, BlockSize
<1>2. Cents(f, S \cup {t}) = Cents(f, S) \cup block
  BY DEF Cents
<1>3. Cents(f, S) \cap block = {}
  BY CentsMembers
<1>4. /\ IsFiniteSet(Cents(f, S)) /\ CostOf(f, S) = Cardinality(Cents(f, S))
      /\ CostOf(f, S \cup {t}) = Cardinality(Cents(f, S \cup {t})) /\ CostOf(f, S) \in Nat
  BY CostFinite
<1> HIDE DEF block
<1>5. Cardinality(Cents(f, S) \cup block)
        = Cardinality(Cents(f, S)) + Cardinality(block) - Cardinality(Cents(f, S) \cap block)
  BY <1>1, <1>4, FS_Union
<1>6. Cardinality({}) = 0
  BY FS_EmptySet
<1>7. Cardinality(Cents(f, S \cup {t})) = Cardinality(Cents(f, S)) + Cardinality(block) - 0
  BY <1>2, <1>3, <1>5, <1>6
<1> QED
  BY <1>1, <1>4, <1>7

LEMMA CostSame ==
  ASSUME NEW f, NEW g, NEW S, \A t \in S : f[t].cost = g[t].cost
  PROVE  CostOf(f, S) = CostOf(g, S)
<1>1. \A t \in S : {t} \X (1..f[t].cost) = {t} \X (1..g[t].cost)
  OBVIOUS
<1>2. {{t} \X (1..f[t].cost) : t \in S} = {{t} \X (1..g[t].cost) : t \in S}
  BY <1>1
<1> QED
  BY <1>2 DEF CostOf

LEMMA CostOfNone ==
  ASSUME NEW f PROVE CostOf(f, {}) = 0
<1>1. UNION {{t} \X (1..f[t].cost) : t \in {}} = {}
  OBVIOUS
<1> QED
  BY <1>1, FS_EmptySet DEF CostOf

---------------------------------------------------------------------------
(* Type correctness, and what a caller is owed.  An answer is taken off    *)
(* what is owed only while one is: neither is inductive without the other. *)

Places == {"idle", "reserve", "calling", "append", "index", "replace", "release", "add",
           "charge", "settle", "unwind"}

LEMMA InitTyped == Init => TypeOK /\ AnswersAreOwn
BY ClientAssumption
DEF Init, TypeOK, AnswersAreOwn, Down, Idle, Zero, NoIndex, EmptyDisk, IndexFiles, ClientStates,
    CallStates, Stages, Chat

LEMMA CallTyped ==
  ASSUME TypeOK, NEW t \in Callers
  PROVE  /\ ClientOf[t] \in Clients /\ call[t] \in CallStates /\ Idle \in CallStates
         /\ client[ClientOf[t]] \in ClientStates /\ Asking(t) \in {0, 1}
         /\ owed[t] \in Nat
BY ClientAssumption DEF TypeOK, Idle, CallStates, Stages, Asking

(* Parts of a caller's and of a client's state may be replaced. *)
LEMMA CallUpdates ==
  ASSUME NEW r \in CallStates
  PROVE  /\ \A place \in Places : [r EXCEPT !.at = place] \in CallStates
         /\ \A n \in 0..max_attempts : [r EXCEPT !.attempt = n] \in CallStates
         /\ \A stage \in Stages : [r EXCEPT !.stage = stage] \in CallStates
         /\ \A cost \in Nat : [r EXCEPT !.cost = cost] \in CallStates
         /\ \A next \in {"end", "no_reasoning", "repair"} : [r EXCEPT !.next = next] \in CallStates
BY DEF CallStates, Places

LEMMA ClientUpdates ==
  ASSUME NEW r \in ClientStates
  PROVE  /\ \A n \in Nat : [r EXCEPT !.pending = n] \in ClientStates
         /\ \A n \in Nat : [r EXCEPT !.cost = n] \in ClientStates
         /\ \A t \in Callers \cup {None} : [r EXCEPT !.lock = t] \in ClientStates
         /\ \A s \in {"down", "new", "up"} : [r EXCEPT !.state = s] \in ClientStates
         /\ \A index \in [Clients -> Nat] : [r EXCEPT !.index = index] \in ClientStates
         /\ \A valid \in BOOLEAN : [r EXCEPT !.valid = valid] \in ClientStates
BY DEF ClientStates

(* A caller gets to a place, with what its answer costs. *)
Moves(t, place, cost) ==
  /\ call' \in [Callers -> CallStates]
  /\ call'[t].at = place /\ call'[t].cost = cost
  /\ \A u \in Callers \ {t} : call'[u] = call[u]

LEMMA GoToMoves ==
  ASSUME TypeOK, NEW t \in Callers, NEW place \in Places, GoTo(t, place)
  PROVE  Moves(t, place, call[t].cost)
<1>1. call' = [call EXCEPT ![t] = [call[t] EXCEPT !.at = place]]
  BY DEF GoTo
<1>2. call[t] \in CallStates /\ [call[t] EXCEPT !.at = place] \in CallStates
  BY CallTyped, CallUpdates
<1>3. [call[t] EXCEPT !.at = place].at = place /\ [call[t] EXCEPT !.at = place].cost = call[t].cost
  BY <1>2 DEF CallStates
<1> QED
  BY <1>1, <1>2, <1>3 DEF TypeOK, Moves

(* Any replacement of a caller's state moves it. *)
LEMMA ReplacedMoves ==
  ASSUME TypeOK, NEW t \in Callers, NEW r \in CallStates, call' = [call EXCEPT ![t] = r]
  PROVE  Moves(t, r.at, r.cost)
BY DEF TypeOK, Moves

(* A move leaves an answer owed exactly where the caller waits for it. *)
LEMMA MoveOwns ==
  ASSUME TypeOK, AnswersAreOwn, NEW t \in Callers, NEW place, NEW cost, Moves(t, place, cost),
         NEW n \in Nat, owed' = [owed EXCEPT ![t] = n],
         t \in Chat => n = IF place = "calling" THEN 1 ELSE 0
  PROVE  owed' \in [Callers -> Nat] /\ AnswersAreOwn'
BY DEF TypeOK, AnswersAreOwn, Moves, Chat

LEMMA MoveOwnsSame ==
  ASSUME TypeOK, AnswersAreOwn, NEW t \in Callers, NEW place, NEW cost, Moves(t, place, cost),
         owed' = owed, t \in Chat => (place = "calling" <=> call[t].at = "calling")
  PROVE  AnswersAreOwn'
BY DEF TypeOK, AnswersAreOwn, Moves, Chat

LEMMA ReserveStep ==
  ASSUME TypeOK, AnswersAreOwn, NEW t \in Callers, call[t].at \in {"idle", "reserve"},
         reserve_budget(t), calls' \in [Callers -> Nat]
  PROVE  /\ TypeOK' /\ AnswersAreOwn'
         /\ UNCHANGED <<disk, starts, paid>>
         /\ \/ Moves(t, "idle", 0) /\ UNCHANGED <<client, blind>>
            \/ /\ Admits(ClientOf[t])
               /\ Moves(t, "calling", call[t].cost)
               /\ client' = [client EXCEPT ![ClientOf[t]].pending = @ + estimate]
               /\ blind' = [blind EXCEPT ![ClientOf[t]] = Released(ClientOf[t])]
<1> DEFINE c == ClientOf[t]
<1>1. c \in Clients /\ call[t] \in CallStates /\ Idle \in CallStates /\ Asking(t) \in {0, 1}
      /\ owed[t] \in Nat /\ client[c] \in ClientStates
  BY CallTyped
<1>2. Released(c) \in Nat
  BY CostFinite DEF TypeOK, Released, CallersOf
<1>3. CASE ~ Admits(c)
  <2>1. call' = [call EXCEPT ![t] = Idle] /\ UNCHANGED <<client, owed, blind, disk, starts, paid>>
    BY <1>3 DEF reserve_budget, Return
  <2>2. Idle.at = "idle" /\ Idle.cost = 0
    BY DEF Idle
  <2>3. Moves(t, "idle", 0)
    BY <1>1, <2>1, <2>2, ReplacedMoves
  <2>4. TypeOK'
    BY <2>1, <2>3 DEF TypeOK, Moves
  <2>5. AnswersAreOwn'
    BY <2>1, <2>3, MoveOwnsSame
  <2> QED
    BY <2>1, <2>3, <2>4, <2>5
<1>4. CASE Admits(c)
  <2> DEFINE r == [call[t] EXCEPT !.at = "calling", !.attempt = 1]
             m == [client[c] EXCEPT !.pending = @ + estimate]
  <2>1. /\ client' = [client EXCEPT ![c] = m]
        /\ call' = [call EXCEPT ![t] = r]
        /\ owed' = [owed EXCEPT ![t] = @ + Asking(t)]
        /\ blind' = [blind EXCEPT ![c] = Released(c)]
        /\ UNCHANGED <<disk, starts, paid>>
    BY <1>1, <1>4 DEF reserve_budget, TypeOK
  <2>2. r \in CallStates /\ r.at = "calling" /\ r.cost = call[t].cost
    <3>1. 1 \in 0..max_attempts
      BY ClientAssumption
    <3> QED
      BY <1>1, <3>1 DEF CallStates
  <2>3. m \in ClientStates
    <3>1. client[c].pending + estimate \in Nat
      BY <1>1, ClientAssumption DEF ClientStates
    <3> QED
      BY <1>1, <3>1, ClientUpdates
  <2>4. Moves(t, "calling", call[t].cost)
    <3> HIDE DEF r
    <3> QED
      BY <2>1, <2>2, ReplacedMoves
  <2>5. owed[t] + Asking(t) \in Nat /\ (t \in Chat => owed[t] + Asking(t) = 1)
    BY <1>1 DEF AnswersAreOwn, Asking, Chat
  <2>6. owed' \in [Callers -> Nat] /\ AnswersAreOwn'
    BY <2>1, <2>4, <2>5, MoveOwns
  <2>7. TypeOK'
    <3> HIDE DEF m
    <3> QED
      BY <1>1, <1>2, <2>1, <2>3, <2>4, <2>6 DEF TypeOK, Moves
  <2>8. client' = [client EXCEPT ![c].pending = @ + estimate]
    BY <2>1
  <2> QED
    BY <1>4, <2>1, <2>4, <2>6, <2>7, <2>8
<1> QED
  BY <1>3, <1>4

LEMMA AttemptStep ==
  ASSUME TypeOK, AnswersAreOwn, NEW t \in Callers, NEW left \in Nat,
         t \in Chat => left = 0, AttemptFails(t, left)
  PROVE  /\ TypeOK' /\ AnswersAreOwn'
         /\ call[t].at = "calling"
         /\ UNCHANGED <<client, disk, calls, starts, paid, blind>>
         /\ Moves(t, "calling", call[t].cost) \/ Moves(t, "unwind", 0)
<1> DEFINE r == IF TriesAgain(t) THEN [call[t] EXCEPT !.attempt = @ + 1]
                                 ELSE [Idle EXCEPT !.at = "unwind"]
           n == IF TriesAgain(t) THEN left + Asking(t) ELSE left
<1>1. call[t] \in CallStates /\ Idle \in CallStates /\ owed[t] \in Nat /\ Asking(t) \in {0, 1}
  BY CallTyped
<1>2. /\ call' = [call EXCEPT ![t] = r] /\ owed' = [owed EXCEPT ![t] = n]
      /\ call[t].at = "calling"
      /\ UNCHANGED <<client, disk, calls, starts, paid, blind>>
  BY DEF AttemptFails, memory, bounds, history
<1>3. r \in CallStates
  <2>1. TriesAgain(t) => call[t].attempt + 1 \in 0..max_attempts
    BY <1>1, ClientAssumption DEF TriesAgain, CallStates
  <2> QED
    BY <1>1, <2>1, CallUpdates DEF Places
<1>4. n \in Nat
  BY <1>1
<1>5. /\ t \in Chat => n = IF r.at = "calling" THEN 1 ELSE 0
      /\ \/ r.at = "calling" /\ r.cost = call[t].cost
         \/ r.at = "unwind" /\ r.cost = 0
  BY <1>1, <1>2 DEF Chat, Asking, CallStates, Idle
<1> HIDE DEF r, n
<1>6. Moves(t, r.at, r.cost)
  BY <1>2, <1>3, ReplacedMoves
<1>7. owed' \in [Callers -> Nat] /\ AnswersAreOwn'
  BY <1>2, <1>4, <1>5, <1>6, MoveOwns
<1>8. TypeOK'
  BY <1>2, <1>6, <1>7 DEF TypeOK, Moves
<1> QED
  BY <1>2, <1>5, <1>6, <1>7, <1>8

LEMMA AnswerStep ==
  ASSUME TypeOK, AnswersAreOwn, NEW t \in Callers, NEW cost \in Costs, NEW reply,
         Answer(t, cost, reply)
  PROVE  /\ TypeOK' /\ AnswersAreOwn'
         /\ call[t].at = "calling" /\ Moves(t, "append", cost)
         /\ UNCHANGED <<client, disk, calls, starts, blind>>
         /\ paid' = [paid EXCEPT ![ClientOf[t]] = @ + cost]
<1> DEFINE r == [Idle EXCEPT !.at = Answered(t, reply), !.cost = cost,
                             !.next = After(call[t].stage, reply)]
<1>1. call[t] \in CallStates /\ owed[t] \in Nat /\ Asking(t) \in {0, 1} /\ ClientOf[t] \in Clients
  BY CallTyped
<1>2. cost \in Nat /\ After(call[t].stage, reply) \in {"end", "no_reasoning", "repair"}
  BY ClientAssumption DEF After
<1>3. r \in CallStates /\ r.at = "append" /\ r.cost = cost
  <2>1. Idle \in CallStates /\ Answered(t, reply) = "append"
    BY CallTyped DEF Answered
  <2>2. [Idle EXCEPT !.at = "append", !.cost = cost] \in CallStates
    BY <1>2, <2>1 DEF CallStates
  <2> QED
    BY <1>2, <2>1, <2>2 DEF CallStates
<1>4. /\ call' = [call EXCEPT ![t] = r] /\ owed' = [owed EXCEPT ![t] = @ - Asking(t)]
      /\ call[t].at = "calling"
      /\ UNCHANGED <<client, disk, calls, starts, blind>>
      /\ paid' = [paid EXCEPT ![ClientOf[t]] = @ + cost]
  BY DEF Answer, memory, bounds
<1> HIDE DEF r
<1>5. Moves(t, "append", cost)
  BY <1>3, <1>4, ReplacedMoves
<1>6. owed[t] - Asking(t) \in Nat /\ (t \in Chat => owed[t] - Asking(t) = 0)
  BY <1>1, <1>4 DEF AnswersAreOwn, Asking, Chat
<1>7. owed' \in [Callers -> Nat] /\ AnswersAreOwn'
  <2> DEFINE n == owed[t] - Asking(t)
  <2>1. n \in Nat /\ (t \in Chat => n = IF "append" = "calling" THEN 1 ELSE 0)
    BY <1>6
  <2>2. owed' = [owed EXCEPT ![t] = n]
    BY <1>4
  <2> HIDE DEF n
  <2> QED
    BY <1>5, <2>1, <2>2, MoveOwns
<1>8. TypeOK'
  BY <1>1, <1>2, <1>4, <1>5, <1>7 DEF TypeOK, Moves
<1> QED
  BY <1>4, <1>5, <1>7, <1>8

Disks == [costs : [Clients -> Nat], rows : Nat, index : IndexFiles, tmp : IndexFiles]

LEMMA DiskUpdates ==
  ASSUME NEW d \in Disks, NEW c \in Clients, NEW cost \in Nat, NEW index \in [Clients -> Nat]
  PROVE  /\ Appended(d, c, cost) \in Disks
         /\ TmpWritten(d, index) \in Disks
         /\ Replaced(d) \in Disks
<1>1. NoIndex \in IndexFiles /\ [rows |-> d.rows, costs |-> index] \in IndexFiles
  BY DEF NoIndex, IndexFiles, Zero, Disks
<1>2. d.costs[c] + cost \in Nat /\ [d.costs EXCEPT ![c] = d.costs[c] + cost] \in [Clients -> Nat]
  BY DEF Disks
<1>3. Appended(d, c, cost) \in Disks
  <2> DEFINE costs == [d.costs EXCEPT ![c] = d.costs[c] + cost]
  <2>1. Appended(d, c, cost) = [d EXCEPT !.costs = costs, !.rows = d.rows + 1]
    BY DEF Disks, Appended
  <2>2. costs \in [Clients -> Nat] /\ d.rows + 1 \in Nat
    BY <1>2 DEF Disks
  <2> HIDE DEF costs
  <2> QED
    BY <2>1, <2>2 DEF Disks
<1>4. TmpWritten(d, index) \in Disks
  BY <1>1 DEF Disks, TmpWritten
<1>5. Replaced(d) \in Disks
  BY <1>1 DEF Disks, Replaced
<1> QED
  BY <1>3, <1>4, <1>5

LEMMA AppendStep ==
  ASSUME TypeOK, AnswersAreOwn, NEW t \in Callers, append_ledger_row(t)
  PROVE  /\ TypeOK' /\ AnswersAreOwn'
         /\ call[t].at = "append" /\ Moves(t, "index", call[t].cost)
         /\ disk' = Appended(disk, ClientOf[t], call[t].cost)
         /\ UNCHANGED <<client, calls, starts, paid, blind>>
<1>1. /\ call[t].at = "append" /\ Moves(t, "index", call[t].cost)
      /\ disk' = Appended(disk, ClientOf[t], call[t].cost)
      /\ UNCHANGED <<client, owed, calls, starts, paid, blind>>
  BY GoToMoves DEF append_ledger_row, bounds, history, Places
<1>2. disk' \in Disks
  <2>1. disk \in Disks /\ call[t].cost \in Nat /\ ClientOf[t] \in Clients /\ Zero \in [Clients -> Nat]
    BY CallTyped DEF TypeOK, Disks, CallStates, Zero
  <2> QED
    BY <1>1, <2>1, DiskUpdates
<1>3. TypeOK'
  BY <1>1, <1>2 DEF TypeOK, Moves, Disks
<1>4. AnswersAreOwn'
  BY <1>1, MoveOwnsSame
<1> QED
  BY <1>1, <1>3, <1>4

LEMMA IndexTyped ==
  ASSUME TypeOK, NEW c \in Clients, NEW cost \in Nat
  PROVE  UpdatedIndex(c, cost) \in [Clients -> Nat] /\ Rebuilt \in [Clients -> Nat]
BY DEF TypeOK, UpdatedIndex, Rebuilt, ClientStates

LEMMA SaveStep ==
  ASSUME TypeOK, AnswersAreOwn, NEW t \in Callers, SaveIndex(t)
  PROVE  /\ TypeOK' /\ AnswersAreOwn'
         /\ call[t].at = "index" /\ Moves(t, "replace", call[t].cost)
         /\ client' = [client EXCEPT
              ![ClientOf[t]].lock = t, ![ClientOf[t]].valid = TRUE,
              ![ClientOf[t]].index = UpdatedIndex(ClientOf[t], call[t].cost)]
         /\ disk' = TmpWritten(disk, UpdatedIndex(ClientOf[t], call[t].cost))
         /\ UNCHANGED <<calls, starts, paid, blind>>
<1> DEFINE c == ClientOf[t]
           index == UpdatedIndex(c, call[t].cost)
           m == [client[c] EXCEPT !.lock = t, !.index = index, !.valid = TRUE]
<1>1. call[t].at = "index" /\ Moves(t, "replace", call[t].cost)
      /\ UNCHANGED <<owed, calls, starts, paid, blind>>
  BY GoToMoves DEF SaveIndex, bounds, history, Places
<1>2. c \in Clients /\ client[c] \in ClientStates /\ call[t].cost \in Nat /\ disk \in Disks
  BY CallTyped DEF CallStates, TypeOK, Disks
<1>3. index \in [Clients -> Nat]
  BY <1>2, IndexTyped
<1>4. client' = [client EXCEPT ![c] = m] /\ disk' = TmpWritten(disk, index)
  BY <1>2 DEF SaveIndex, TypeOK
<1>5. m \in ClientStates
  <2> HIDE DEF index
  <2> QED
    BY <1>2, <1>3 DEF ClientStates
<1>6. client' = [client EXCEPT ![c].lock = t, ![c].valid = TRUE, ![c].index = index]
  <2> HIDE DEF index
  <2>1. m = [client[c] EXCEPT !.lock = t, !.valid = TRUE, !.index = index]
    BY <1>2 DEF ClientStates
  <2> QED
    BY <1>2, <1>4, <2>1 DEF TypeOK
<1> HIDE DEF m, index
<1>7. disk' \in Disks
  BY <1>2, <1>3, <1>4, DiskUpdates
<1>8. TypeOK'
  BY <1>1, <1>2, <1>4, <1>5, <1>7 DEF TypeOK, Moves, Disks
<1>9. AnswersAreOwn'
  BY <1>1, MoveOwnsSame
<1> QED
  BY <1>1, <1>4, <1>6, <1>8, <1>9 DEF index

LEMMA ReplaceStep ==
  ASSUME TypeOK, AnswersAreOwn, NEW t \in Callers, ReplaceIndex(t)
  PROVE  /\ TypeOK' /\ AnswersAreOwn'
         /\ call[t].at = "replace"
         /\ \E place \in {"unwind", "charge", "release"} : Moves(t, place, call[t].cost)
         /\ client' = [client EXCEPT ![ClientOf[t]].lock = None]
         /\ disk' = disk \/ disk' = Replaced(disk)
         /\ UNCHANGED <<calls, starts, paid, blind>>
<1> DEFINE c == ClientOf[t]
           m == [client[c] EXCEPT !.lock = None]
<1>1. PICK place \in {"unwind", "charge", "release"} : GoTo(t, place)
  BY DEF ReplaceIndex
<1>2. call[t].at = "replace" /\ Moves(t, place, call[t].cost)
      /\ UNCHANGED <<owed, calls, starts, paid, blind>>
  BY <1>1, GoToMoves DEF ReplaceIndex, bounds, history, Places
<1>3. c \in Clients /\ client[c] \in ClientStates /\ disk \in Disks /\ Zero \in [Clients -> Nat]
  BY CallTyped DEF TypeOK, Disks, Zero
<1>4. client' = [client EXCEPT ![c] = m] /\ (disk' = disk \/ disk' = Replaced(disk))
      /\ client' = [client EXCEPT ![ClientOf[t]].lock = None]
  BY <1>3 DEF ReplaceIndex, TypeOK
<1>5. m \in ClientStates
  BY <1>3, ClientUpdates
<1> HIDE DEF m
<1>6. disk' \in Disks
  BY <1>3, <1>4, DiskUpdates, 0 \in Nat
<1>7. TypeOK'
  BY <1>2, <1>3, <1>4, <1>5, <1>6 DEF TypeOK, Moves, Disks
<1>8. AnswersAreOwn'
  BY <1>2, MoveOwnsSame
<1> QED
  BY <1>2, <1>4, <1>7, <1>8

(* A step that changes its own client only, under the lock. *)
LEMMA AccountStep ==
  ASSUME TypeOK, AnswersAreOwn, NEW t \in Callers, NEW m \in ClientStates,
         client' = [client EXCEPT ![ClientOf[t]] = m],
         NEW place, NEW cost, Moves(t, place, cost), place # "calling", call[t].at # "calling",
         blind' \in [Clients -> Nat], UNCHANGED <<owed, disk, calls, starts, paid>>
  PROVE  TypeOK' /\ AnswersAreOwn'
<1>1. client' \in [Clients -> ClientStates] /\ call' \in [Callers -> CallStates]
  BY DEF TypeOK, Moves
<1>2. TypeOK'
  BY <1>1 DEF TypeOK
<1>3. AnswersAreOwn'
  BY MoveOwnsSame
<1> QED
  BY <1>2, <1>3

Less(n) == IF n > estimate THEN n - estimate ELSE 0

LEMMA LessTyped ==
  ASSUME TypeOK, NEW c \in Clients
  PROVE  /\ LessReserved(c) = [client EXCEPT ![c] = [client[c] EXCEPT !.pending = Less(client[c].pending)]]
         /\ [client[c] EXCEPT !.pending = Less(client[c].pending)] \in ClientStates
<1>1. client[c] \in ClientStates /\ client[c].pending \in Nat
  BY DEF TypeOK, ClientStates
<1>2. Less(client[c].pending) \in Nat
  BY <1>1, ClientAssumption DEF Less
<1>3. LessReserved(c) = [client EXCEPT ![c] = [client[c] EXCEPT !.pending = Less(client[c].pending)]]
  BY DEF LessReserved, Less, TypeOK
<1> QED
  BY <1>1, <1>2, <1>3, ClientUpdates

LEMMA OverrunTyped ==
  ASSUME TypeOK, NEW t \in Callers
  PROVE  Overrun(t) \in Nat /\ call[t].cost <= estimate + Overrun(t) /\ call[t].cost \in Nat
<1>1. call[t].cost \in Nat
  BY CallTyped DEF CallStates
<1> QED
  BY <1>1, ClientAssumption DEF Overrun

LEMMA ReleaseStep ==
  ASSUME TypeOK, AnswersAreOwn, NEW t \in Callers, Release(t)
  PROVE  /\ TypeOK' /\ AnswersAreOwn'
         /\ call[t].at = "release" /\ Moves(t, "add", call[t].cost)
         /\ client' = LessReserved(ClientOf[t])
         /\ blind' = [blind EXCEPT ![ClientOf[t]] = @ + Overrun(t)]
         /\ UNCHANGED <<disk, calls, starts, paid>>
<1>1. /\ call[t].at = "release" /\ Moves(t, "add", call[t].cost)
      /\ client' = LessReserved(ClientOf[t])
      /\ blind' = [blind EXCEPT ![ClientOf[t]] = @ + Overrun(t)]
      /\ UNCHANGED <<owed, disk, calls, starts, paid>>
  BY GoToMoves DEF Release, bounds, Places
<1>2. ClientOf[t] \in Clients /\ Overrun(t) \in Nat
  BY CallTyped, OverrunTyped
<1>3. blind' \in [Clients -> Nat]
  BY <1>1, <1>2 DEF TypeOK
<1>4. TypeOK' /\ AnswersAreOwn'
  BY <1>1, <1>2, <1>3, LessTyped, AccountStep
<1> QED
  BY <1>1, <1>4

LEMMA ChargeStep ==
  ASSUME TypeOK, AnswersAreOwn, NEW t \in Callers, Charge(t)
  PROVE  /\ TypeOK' /\ AnswersAreOwn'
         /\ call[t].at = "charge" /\ Moves(t, "settle", call[t].cost)
         /\ client' = [client EXCEPT ![ClientOf[t]].cost = client[ClientOf[t]].cost + call[t].cost]
         /\ blind' = [blind EXCEPT ![ClientOf[t]] = @ + Overrun(t)]
         /\ UNCHANGED <<disk, calls, starts, paid>>
<1> DEFINE c == ClientOf[t]
           m == [client[c] EXCEPT !.cost = client[c].cost + call[t].cost]
<1>1. /\ call[t].at = "charge" /\ Moves(t, "settle", call[t].cost)
      /\ client' = [client EXCEPT ![c].cost = client[c].cost + call[t].cost]
      /\ blind' = [blind EXCEPT ![c] = @ + Overrun(t)]
      /\ UNCHANGED <<owed, disk, calls, starts, paid>>
  BY GoToMoves DEF Charge, bounds, Places
<1>2. c \in Clients /\ Overrun(t) \in Nat /\ client[c] \in ClientStates /\ call[t].cost \in Nat
  BY CallTyped, OverrunTyped
<1>3. blind' \in [Clients -> Nat]
  BY <1>1, <1>2 DEF TypeOK
<1>4. m \in ClientStates /\ client' = [client EXCEPT ![c] = m]
  <2>1. client[c].cost + call[t].cost \in Nat
    BY <1>2 DEF ClientStates
  <2> QED
    BY <1>1, <1>2, <2>1, ClientUpdates
<1> HIDE DEF m
<1>5. TypeOK' /\ AnswersAreOwn'
  BY <1>1, <1>3, <1>4, AccountStep
<1> QED
  BY <1>1, <1>5

LEMMA AddStep ==
  ASSUME TypeOK, AnswersAreOwn, NEW t \in Callers, add_run_cost(t)
  PROVE  /\ TypeOK' /\ AnswersAreOwn'
         /\ call[t].at = "add"
         /\ Moves(t, "reserve", 0) \/ Moves(t, "idle", 0)
         /\ client' = [client EXCEPT ![ClientOf[t]].cost = client[ClientOf[t]].cost + call[t].cost]
         /\ UNCHANGED <<disk, calls, starts, paid, blind>>
<1> DEFINE c == ClientOf[t]
           m == [client[c] EXCEPT !.cost = client[c].cost + call[t].cost]
           r == IF call[t].next \in Stages THEN [Idle EXCEPT !.at = "reserve", !.stage = call[t].next]
                                           ELSE Idle
<1>1. /\ call[t].at = "add" /\ call' = [call EXCEPT ![t] = r]
      /\ client' = [client EXCEPT ![c].cost = client[c].cost + call[t].cost]
      /\ UNCHANGED <<owed, disk, calls, starts, paid, blind>>
  BY DEF add_run_cost, bounds, history
<1>2. c \in Clients /\ client[c] \in ClientStates /\ call[t].cost \in Nat /\ Idle \in CallStates
  BY CallTyped, OverrunTyped
<1>3. r \in CallStates /\ r.cost = 0 /\ r.at \in {"reserve", "idle"}
  BY <1>2 DEF CallStates, Idle, Stages
<1>4. m \in ClientStates /\ client' = [client EXCEPT ![c] = m]
  <2>1. client[c].cost + call[t].cost \in Nat
    BY <1>2 DEF ClientStates
  <2> QED
    BY <1>1, <1>2, <2>1, ClientUpdates
<1> HIDE DEF m, r
<1>5. Moves(t, "reserve", 0) \/ Moves(t, "idle", 0)
  BY <1>1, <1>3, ReplacedMoves
<1>6. TypeOK' /\ AnswersAreOwn'
  <2>1. blind' \in [Clients -> Nat]
    BY <1>1 DEF TypeOK
  <2> QED
    BY <1>1, <1>4, <1>5, <2>1, AccountStep
<1> QED
  BY <1>1, <1>5, <1>6

LEMMA UnwindStep ==
  ASSUME TypeOK, AnswersAreOwn, NEW t \in Callers, Unwind(t)
  PROVE  /\ TypeOK' /\ AnswersAreOwn'
         /\ call[t].at \in {"unwind", "settle"} /\ Moves(t, "idle", 0)
         /\ client' = LessReserved(ClientOf[t])
         /\ UNCHANGED <<disk, calls, starts, paid, blind>>
<1>1. /\ call[t].at \in {"unwind", "settle"} /\ call' = [call EXCEPT ![t] = Idle]
      /\ client' = LessReserved(ClientOf[t])
      /\ UNCHANGED <<owed, disk, calls, starts, paid, blind>>
  BY DEF Unwind, Unwound, Return, bounds, history
<1>2. ClientOf[t] \in Clients /\ Idle \in CallStates /\ Idle.at = "idle" /\ Idle.cost = 0
  BY CallTyped DEF Idle
<1>3. Moves(t, "idle", 0)
  BY <1>1, <1>2, ReplacedMoves
<1>4. blind' \in [Clients -> Nat]
  BY <1>1 DEF TypeOK
<1>5. TypeOK' /\ AnswersAreOwn'
  BY <1>1, <1>2, <1>3, <1>4, LessTyped, AccountStep
<1> QED
  BY <1>1, <1>3, <1>5

LEMMA DownTyped == Down \in ClientStates /\ Zero \in [Clients -> Nat]
BY DEF Down, ClientStates, Zero

LEMMA ConstructStep ==
  ASSUME TypeOK, AnswersAreOwn, NEW c \in Clients, Construct(c)
  PROVE  /\ TypeOK' /\ AnswersAreOwn'
         /\ client[c].state = "down" /\ client'[c].state = "new"
         /\ \/ client'[c].valid = TRUE /\ client'[c].index = disk.index.costs
            \/ client'[c].valid = FALSE /\ client'[c].index = Zero
         /\ \A d \in Clients \ {c} : client'[d] = client[d]
         /\ UNCHANGED <<call, disk, paid, blind>>
<1> DEFINE m == [Down EXCEPT !.state = "new", !.valid = IndexIsCurrent(disk),
                             !.index = IF IndexIsCurrent(disk) THEN disk.index.costs ELSE Zero]
<1>1. /\ client[c].state = "down" /\ client' = [client EXCEPT ![c] = m]
      /\ starts' = [starts EXCEPT ![c] = @ + 1]
      /\ UNCHANGED <<call, owed, disk, calls, paid, blind>>
  BY DEF Construct
<1>2. /\ m \in ClientStates /\ m.state = "new"
      /\ \/ m.valid = TRUE /\ m.index = disk.index.costs
         \/ m.valid = FALSE /\ m.index = Zero
  <2>1. disk.index.costs \in [Clients -> Nat] /\ IndexIsCurrent(disk) \in BOOLEAN
    BY DEF TypeOK, IndexFiles, IndexIsCurrent
  <2> QED
    BY <2>1, DownTyped DEF ClientStates, Down
<1> HIDE DEF m
<1>3. starts[c] + 1 \in Nat /\ client'[c] = m
  BY <1>1 DEF TypeOK
<1>4. TypeOK'
  BY <1>1, <1>2, <1>3 DEF TypeOK
<1>5. AnswersAreOwn'
  BY <1>1 DEF AnswersAreOwn
<1> QED
  BY <1>1, <1>2, <1>3, <1>4, <1>5 DEF TypeOK

LEMMA StartStep ==
  ASSUME TypeOK, AnswersAreOwn, NEW c \in Clients, start_run(c)
  PROVE  /\ TypeOK' /\ AnswersAreOwn'
         /\ client[c].state = "new" /\ client'[c].state = "up" /\ client'[c].pending = 0
         /\ client'[c].valid = TRUE /\ client'[c].cost = client'[c].index[c]
         /\ \/ client'[c].index = client[c].index /\ client[c].valid /\ disk' = disk
            \/ client'[c].index = disk.costs /\ disk' = Replaced(TmpWritten(disk, disk.costs))
         /\ client'[c].cost <= budget_cny + blind'[c]
         /\ \A d \in Clients \ {c} : client'[d] = client[d] /\ blind'[d] = blind[d]
         /\ UNCHANGED <<call, paid>>
<1> DEFINE index == IF client[c].valid THEN client[c].index ELSE Rebuilt
           over == IF index[c] > budget_cny THEN index[c] - budget_cny ELSE 0
           m == [client[c] EXCEPT !.state = "up", !.cost = index[c], !.pending = 0,
                                  !.index = index, !.valid = TRUE]
<1>1. client[c] \in ClientStates /\ disk \in Disks /\ disk.costs \in [Clients -> Nat]
  BY DEF TypeOK, Disks
<1>2. /\ client[c].state = "new" /\ client' = [client EXCEPT ![c] = m]
      /\ disk' = IF client[c].valid THEN disk ELSE Replaced(TmpWritten(disk, index))
      /\ blind' = [blind EXCEPT ![c] = over]
      /\ UNCHANGED <<call, owed, calls, starts, paid>>
  BY <1>1 DEF start_run, bounds, TypeOK
<1>3. index \in [Clients -> Nat] /\ index[c] \in Nat
  BY <1>1 DEF ClientStates, Rebuilt
<1>4. over \in Nat /\ index[c] <= budget_cny + over
  <2> HIDE DEF index
  <2> QED
    BY <1>3, ClientAssumption
<1>5. /\ m \in ClientStates /\ m.state = "up" /\ m.cost = index[c] /\ m.pending = 0
      /\ m.index = index /\ m.valid = TRUE
  <2> HIDE DEF index
  <2> QED
    BY <1>1, <1>3 DEF ClientStates
<1>6. \/ index = client[c].index /\ client[c].valid /\ disk' = disk
      \/ index = disk.costs /\ disk' = Replaced(TmpWritten(disk, disk.costs))
  BY <1>2 DEF Rebuilt
<1>7. disk' \in Disks
  <2>1. TmpWritten(disk, disk.costs) \in Disks
    BY <1>1, DiskUpdates, 0 \in Nat
  <2>2. Replaced(TmpWritten(disk, disk.costs)) \in Disks
    BY <1>1, <2>1, DiskUpdates, 0 \in Nat
  <2> QED
    BY <1>1, <1>6, <2>2
<1> HIDE DEF m, index, over
<1>8. client'[c] = m /\ blind'[c] = over
  BY <1>2 DEF TypeOK
<1>9. TypeOK'
  BY <1>2, <1>4, <1>5, <1>7 DEF TypeOK, Disks
<1>10. AnswersAreOwn'
  BY <1>2 DEF AnswersAreOwn
<1> QED
  BY <1>2, <1>4, <1>5, <1>6, <1>8, <1>9, <1>10 DEF TypeOK

LEMMA KillStep ==
  ASSUME TypeOK, AnswersAreOwn, NEW c \in Clients, Kill(c)
  PROVE  /\ TypeOK' /\ AnswersAreOwn'
         /\ client' = [client EXCEPT ![c] = Down]
         /\ \A t \in Callers : call'[t] = IF ClientOf[t] = c THEN Idle ELSE call[t]
         /\ paid' = [paid EXCEPT ![c] = disk.costs[c]]
         /\ UNCHANGED <<disk, blind>>
<1>1. /\ client' = [client EXCEPT ![c] = Down]
      /\ call' = [t \in Callers |-> IF ClientOf[t] = c THEN Idle ELSE call[t]]
      /\ owed' = [t \in Callers |-> IF ClientOf[t] = c THEN 0 ELSE owed[t]]
      /\ paid' = [paid EXCEPT ![c] = disk.costs[c]]
      /\ UNCHANGED <<disk, calls, starts, blind>>
  BY DEF Kill, bounds
<1>2. \A t \in Callers : Idle \in CallStates /\ call[t] \in CallStates /\ owed[t] \in Nat
  BY CallTyped
<1>3. call' \in [Callers -> CallStates] /\ owed' \in [Callers -> Nat]
  BY <1>1, <1>2
<1>4. paid' \in [Clients -> Nat] /\ client' \in [Clients -> ClientStates]
  BY <1>1, DownTyped DEF TypeOK
<1>5. TypeOK'
  BY <1>1, <1>3, <1>4 DEF TypeOK
<1>6. AnswersAreOwn'
  BY <1>1, <1>2 DEF AnswersAreOwn, Chat, Idle, TypeOK
<1> QED
  BY <1>1, <1>5, <1>6

(* A request fails, or is not answered in time. *)
LEMMA FailedStep ==
  ASSUME TypeOK, AnswersAreOwn, NEW t \in Callers, Error(t) \/ Timeout(t)
  PROVE  /\ TypeOK' /\ AnswersAreOwn'
         /\ call[t].at = "calling"
         /\ UNCHANGED <<client, disk, calls, starts, paid, blind>>
         /\ Moves(t, "calling", call[t].cost) \/ Moves(t, "unwind", 0)
<1>1. CASE Error(t)
  <2> DEFINE n == owed[t] - Asking(t)
  <2>1. n \in Nat /\ (t \in Chat => n = 0)
    <3>1. call[t].at = "calling" /\ owed[t] \in Nat
      BY <1>1, CallTyped DEF Error, AttemptFails
    <3> QED
      BY <3>1 DEF AnswersAreOwn, Asking, Chat
  <2>2. AttemptFails(t, n)
    BY <1>1 DEF Error
  <2> HIDE DEF n
  <2> QED
    BY <2>1, <2>2, AttemptStep
<1>2. CASE Timeout(t)
  BY <1>2, AttemptStep DEF Timeout, OwedAfterTimeout
<1> QED
  BY <1>1, <1>2

LEMMA ReserveStepTyped ==
  ASSUME TypeOK, AnswersAreOwn, NEW t \in Callers, Begin(t) \/ AskAgain(t)
  PROVE  call[t].at \in {"idle", "reserve"} /\ reserve_budget(t) /\ calls' \in [Callers -> Nat]
         /\ (call[t].at = "idle" => client[ClientOf[t]].state = "up")
<1>1. CASE Begin(t)
  <2>1. calls[t] + 1 \in Nat /\ calls' = [calls EXCEPT ![t] = @ + 1]
    BY <1>1 DEF Begin, TypeOK
  <2> QED
    BY <1>1, <2>1 DEF Begin, TypeOK, My
<1>2. CASE AskAgain(t)
  BY <1>2 DEF AskAgain, TypeOK
<1> QED
  BY <1>1, <1>2

LEMMA NextTyped == TypeOK /\ AnswersAreOwn /\ [Next]_vars => TypeOK' /\ AnswersAreOwn'
<1> SUFFICES ASSUME TypeOK, AnswersAreOwn, [Next]_vars PROVE TypeOK' /\ AnswersAreOwn'
  OBVIOUS
<1>1. CASE UNCHANGED vars
  BY <1>1 DEF vars, TypeOK, AnswersAreOwn
<1>2. ASSUME NEW c \in Clients, Construct(c) \/ start_run(c) \/ Kill(c)
      PROVE  TypeOK' /\ AnswersAreOwn'
  BY <1>2, ConstructStep, StartStep, KillStep
<1>3. ASSUME NEW t \in Callers, Begin(t) \/ AskAgain(t) PROVE TypeOK' /\ AnswersAreOwn'
  BY <1>3, ReserveStepTyped, ReserveStep
<1>4. ASSUME NEW t \in Callers, NEW cost \in Costs, NEW reply, Answer(t, cost, reply)
      PROVE  TypeOK' /\ AnswersAreOwn'
  BY <1>4, AnswerStep
<1>5. ASSUME NEW t \in Callers, Error(t) \/ Timeout(t) PROVE TypeOK' /\ AnswersAreOwn'
  <2>1. CASE Error(t)
    BY <2>1, FailedStep, ZenonT(60)
  <2>2. CASE Timeout(t)
    BY <2>2, FailedStep, ZenonT(60)
  <2> QED
    BY <1>5, <2>1, <2>2
<1>6. ASSUME NEW t \in Callers, append_ledger_row(t) \/ SaveIndex(t) \/ ReplaceIndex(t)
      PROVE  TypeOK' /\ AnswersAreOwn'
  BY <1>6, AppendStep, SaveStep, ReplaceStep
<1>7. ASSUME NEW t \in Callers, Release(t) \/ add_run_cost(t) \/ Charge(t) \/ Unwind(t)
      PROVE  TypeOK' /\ AnswersAreOwn'
  BY <1>7, ReleaseStep, AddStep, ChargeStep, UnwindStep
<1> QED
  BY <1>1, <1>2, <1>3, <1>4, <1>5, <1>6, <1>7 DEF Next, Step

(* Costs, reservations, attempts and accounts stay in their ranges.        *)
THEOREM TypeCorrect == Spec => []TypeOK
<1>1. Spec => [](TypeOK /\ AnswersAreOwn)
  BY InitTyped, NextTyped, PTL DEF Spec
<1> QED
  BY <1>1, PTL

(* A thread's worker process owes it the answer of the request it made and *)
(* no other: an answer that arrives after its deadline is never read as    *)
(* the answer of the next request (llm/client.py:190-270).                 *)
THEOREM AnswersOwned == Spec => []AnswersAreOwn
<1>1. Spec => [](TypeOK /\ AnswersAreOwn)
  BY InitTyped, NextTyped, PTL DEF Spec
<1> QED
  BY <1>1, PTL

---------------------------------------------------------------------------
(* The callers of a client at some places: how many there are, and what    *)
(* their answers cost together.  A move changes both by its own caller.    *)

At(states, c, P) == {t \in Callers : ClientOf[t] = c /\ states[t].at \in P}
Count(states, c, P) == Cardinality(At(states, c, P))
Sum(states, c, P) == CostOf(states, At(states, c, P))

Held == Places \ {"idle", "reserve", "add"}
Ahead == Held \ {"settle"}

LEMMA CountsTyped ==
  ASSUME NEW f \in [Callers -> CallStates], NEW c, NEW P
  PROVE  Count(f, c, P) \in Nat /\ Sum(f, c, P) \in Nat
<1>1. At(f, c, P) \in SUBSET Callers
  BY DEF At
<1> QED
  BY <1>1, SetsFinite, CostFinite DEF Count, Sum

LEMMA CountMonotone ==
  ASSUME NEW f \in [Callers -> CallStates], NEW c, NEW P, NEW Q \in SUBSET P
  PROVE  Count(f, c, Q) <= Count(f, c, P)
<1>1. At(f, c, P) \in SUBSET Callers /\ At(f, c, Q) \in SUBSET At(f, c, P)
  BY DEF At
<1> QED
  BY <1>1, SizeMonotone DEF Count

LEMMA MovesCount ==
  ASSUME TypeOK, NEW t \in Callers, NEW place, NEW cost, Moves(t, place, cost), cost \in Nat,
         NEW c, NEW P
  PROVE  /\ c # ClientOf[t] =>
              Count(call', c, P) = Count(call, c, P) /\ Sum(call', c, P) = Sum(call, c, P)
         /\ c = ClientOf[t] =>
              /\ Count(call', c, P) = Count(call, c, P) - (IF call[t].at \in P THEN 1 ELSE 0)
                                                       + (IF place \in P THEN 1 ELSE 0)
              /\ Sum(call', c, P) = Sum(call, c, P) - (IF call[t].at \in P THEN call[t].cost ELSE 0)
                                                   + (IF place \in P THEN cost ELSE 0)
<1> DEFINE R == At(call, c, P) \ {t}
<1>1. /\ R \in SUBSET Callers /\ t \notin R /\ R = At(call', c, P) \ {t}
      /\ call \in [Callers -> CallStates] /\ call' \in [Callers -> CallStates]
      /\ call'[t].at = place /\ call'[t].cost = cost /\ call[t].cost \in Nat
  BY CallTyped DEF At, Moves, TypeOK, CallStates
<1>2. CostOf(call, R) = CostOf(call', R)
  <2>1. \A u \in R : call[u].cost = call'[u].cost
    BY DEF At, Moves
  <2> HIDE DEF R
  <2> QED
    BY <2>1, CostSame
<1>3. /\ CostOf(call, R \cup {t}) = CostOf(call, R) + call[t].cost
      /\ CostOf(call', R \cup {t}) = CostOf(call', R) + cost
      /\ CostOf(call, R) \in Nat
  <2> HIDE DEF R
  <2> QED
    BY <1>1, CostSteps, CostFinite
<1>4. Cardinality(R \cup {t}) = Cardinality(R) + 1 /\ Cardinality(R) \in Nat
  <2> HIDE DEF R
  <2> QED
    BY <1>1, SizeSteps, SetsFinite
<1>5. CASE c # ClientOf[t]
  <2>1. At(call, c, P) = R /\ At(call', c, P) = R
    BY <1>1, <1>5 DEF At
  <2> QED
    BY <1>2, <1>5, <2>1 DEF Count, Sum
<1>6. CASE c = ClientOf[t]
  <2>1. At(call, c, P) = IF call[t].at \in P THEN R \cup {t} ELSE R
    BY <1>1, <1>6 DEF At
  <2>2. At(call', c, P) = IF place \in P THEN R \cup {t} ELSE R
    BY <1>1, <1>6 DEF At
  <2>3. /\ Count(call, c, P) = IF call[t].at \in P THEN Cardinality(R) + 1 ELSE Cardinality(R)
        /\ Count(call', c, P) = IF place \in P THEN Cardinality(R) + 1 ELSE Cardinality(R)
    BY <1>4, <2>1, <2>2 DEF Count
  <2>4. /\ Sum(call, c, P) = IF call[t].at \in P THEN CostOf(call, R) + call[t].cost ELSE CostOf(call, R)
        /\ Sum(call', c, P) = IF place \in P THEN CostOf(call, R) + cost ELSE CostOf(call, R)
    BY <1>2, <1>3, <2>1, <2>2 DEF Sum
  <2> HIDE DEF R
  <2>5. Count(call', c, P) = Count(call, c, P) - (IF call[t].at \in P THEN 1 ELSE 0)
                                               + (IF place \in P THEN 1 ELSE 0)
    BY <1>4, <2>3
  <2>6. Sum(call', c, P) = Sum(call, c, P) - (IF call[t].at \in P THEN call[t].cost ELSE 0)
                                           + (IF place \in P THEN cost ELSE 0)
    BY <1>1, <1>3, <2>4
  <2> QED
    BY <1>6, <2>5, <2>6
<1> QED
  BY <1>5, <1>6

(* A client none of whose callers is at work has nothing outstanding. *)
LEMMA NoneCounted ==
  ASSUME NEW f, NEW c, NEW P, \A t \in Callers : ClientOf[t] = c => f[t].at \notin P
  PROVE  Count(f, c, P) = 0 /\ Sum(f, c, P) = 0
<1>1. At(f, c, P) = {}
  BY DEF At
<1> QED
  BY <1>1, CostOfNone, FS_EmptySet DEF Count, Sum

LEMMA SameCounted ==
  ASSUME NEW f, NEW g, NEW c, NEW P, \A t \in Callers : ClientOf[t] = c => f[t] = g[t]
  PROVE  Count(f, c, P) = Count(g, c, P) /\ Sum(f, c, P) = Sum(g, c, P)
<1>1. At(f, c, P) = At(g, c, P)
  BY DEF At
<1>2. \A t \in At(f, c, P) : f[t].cost = g[t].cost
  BY DEF At
<1> QED
  BY <1>1, <1>2, CostSame DEF Count, Sum

LEMMA Views ==
  ASSUME NEW c
  PROVE  /\ TypeOK => /\ Cardinality(Holders(c)) = Count(call, c, Held)
                      /\ Cardinality(Uncharged(c)) = Count(call, c, Ahead)
         /\ TypeOK' => /\ Cardinality(Holders(c)') = Count(call', c, Held)
                       /\ Cardinality(Uncharged(c)') = Count(call', c, Ahead)
         /\ Released(c) = Sum(call, c, {"add"})
         /\ Released(c)' = Sum(call', c, {"add"})
<1>1. ASSUME TypeOK PROVE Holders(c) = At(call, c, Held) /\ Uncharged(c) = At(call, c, Ahead)
  <2>1. \A t \in Callers : call[t].at \in Places
    BY <1>1 DEF TypeOK, CallStates, Places
  <2> QED
    BY <2>1 DEF Holders, Uncharged, CallersOf, At, Held, Ahead
<1>2. ASSUME TypeOK' PROVE Holders(c)' = At(call', c, Held) /\ Uncharged(c)' = At(call', c, Ahead)
  <2>1. \A t \in Callers : call'[t].at \in Places
    BY <1>2 DEF TypeOK, CallStates, Places
  <2> QED
    BY <2>1 DEF Holders, Uncharged, CallersOf, At, Held, Ahead
<1>3. {t \in CallersOf(c) : call[t].at = "add"} = At(call, c, {"add"})
  BY DEF CallersOf, At
<1>4. {t \in CallersOf(c) : call'[t].at = "add"} = At(call', c, {"add"})
  BY DEF CallersOf, At
<1> QED
  BY <1>1, <1>2, <1>3, <1>4 DEF Count, Sum, Released

---------------------------------------------------------------------------
(* A call is at work only in a client that is up. *)

DownIsIdle == \A t \in Callers : client[ClientOf[t]].state # "up" => call[t].at = "idle"

LEMMA DownCounts ==
  ASSUME TypeOK, DownIsIdle, NEW c \in Clients, client[c].state # "up", NEW P, "idle" \notin P
  PROVE  Count(call, c, P) = 0 /\ Sum(call, c, P) = 0
<1>1. \A t \in Callers : ClientOf[t] = c => call[t].at \notin P
  BY DEF DownIsIdle
<1> QED
  BY <1>1, NoneCounted

(* A call's step moves its caller and touches no client but its own, which *)
(* it leaves up.                                                           *)
Working(t, place, cost) ==
  /\ Moves(t, place, cost) /\ cost \in Nat
  /\ client[ClientOf[t]].state = "up"
  /\ \A d \in Clients : client'[d].state = client[d].state
  /\ \A d \in Clients \ {ClientOf[t]} : client'[d] = client[d]

LEMMA MoveWorks ==
  ASSUME TypeOK, DownIsIdle, NEW t \in Callers, NEW place, NEW cost \in Nat, Moves(t, place, cost),
         call[t].at # "idle" \/ client[ClientOf[t]].state = "up",
         NEW m, m.state = client[ClientOf[t]].state,
         client' = client \/ client' = [client EXCEPT ![ClientOf[t]] = m]
  PROVE  Working(t, place, cost)
<1>1. ClientOf[t] \in Clients /\ client[ClientOf[t]].state = "up"
  BY CallTyped DEF DownIsIdle
<1> QED
  BY <1>1 DEF Working, TypeOK

LEMMA WorkKeepsIdle ==
  ASSUME TypeOK, DownIsIdle, NEW t \in Callers, NEW place, NEW cost, Working(t, place, cost)
  PROVE  DownIsIdle'
<1> SUFFICES ASSUME NEW u \in Callers, client'[ClientOf[u]].state # "up" PROVE call'[u].at = "idle"
  BY DEF DownIsIdle
<1>1. ClientOf[u] \in Clients /\ client[ClientOf[u]].state # "up" /\ u # t
  BY CallTyped DEF Working
<1> QED
  BY <1>1 DEF Working, Moves, DownIsIdle

(* The effect of each step of a call on its own client. *)
LEMMA ClientAfter ==
  ASSUME TypeOK, NEW t \in Callers
  PROVE  LET c == ClientOf[t] IN
         /\ LessReserved(c) = [client EXCEPT ![c] = LessReserved(c)[c]]
         /\ LessReserved(c)[c].state = client[c].state /\ LessReserved(c)[c].cost = client[c].cost
         /\ LessReserved(c)[c].index = client[c].index /\ LessReserved(c)[c].valid = client[c].valid
         /\ LessReserved(c)[c].pending = Less(client[c].pending)
<1> DEFINE c == ClientOf[t]
           m == [client[c] EXCEPT !.pending = Less(client[c].pending)]
<1>1. c \in Clients /\ client[c] \in ClientStates
  BY CallTyped
<1>2. LessReserved(c) = [client EXCEPT ![c] = m] /\ m \in ClientStates
  BY <1>1, LessTyped
<1>3. /\ m.state = client[c].state /\ m.cost = client[c].cost /\ m.index = client[c].index
      /\ m.valid = client[c].valid /\ m.pending = Less(client[c].pending)
  BY <1>1 DEF ClientStates
<1> HIDE DEF m
<1>4. LessReserved(c)[c] = m
  BY <1>1, <1>2 DEF TypeOK
<1> QED
  BY <1>2, <1>3, <1>4

(* Each step of a call: where it is taken, where it leads, and what it     *)
(* does to the accounts of its client c, the ledger and the history.       *)
Accounts(c, cost, pending, index) ==
  /\ client'[c].cost = cost /\ client'[c].pending = pending /\ client'[c].index = index

Refuses(t, c) ==
  /\ call[t].at \in {"idle", "reserve"} /\ Working(t, "idle", 0)
  /\ Accounts(c, client[c].cost, client[c].pending, client[c].index)
  /\ client'[c].valid = client[c].valid /\ UNCHANGED <<disk, paid, blind>>

AdmitsCall(t, c) ==
  /\ call[t].at \in {"idle", "reserve"} /\ Working(t, "calling", call[t].cost) /\ Admits(c)
  /\ Accounts(c, client[c].cost, client[c].pending + estimate, client[c].index)
  /\ client'[c].valid = client[c].valid /\ UNCHANGED <<disk, paid>>
  /\ blind' = [blind EXCEPT ![c] = Released(c)]

GetsAnswer(t, c) ==
  /\ call[t].at = "calling"
  /\ Accounts(c, client[c].cost, client[c].pending, client[c].index)
  /\ \E cost \in Nat : Working(t, "append", cost) /\ paid' = [paid EXCEPT ![c] = @ + cost]
  /\ client'[c].valid = client[c].valid /\ UNCHANGED <<disk, blind>>

Fails(t, c) ==
  /\ call[t].at = "calling"
  /\ Working(t, "calling", call[t].cost) \/ Working(t, "unwind", 0)
  /\ Accounts(c, client[c].cost, client[c].pending, client[c].index)
  /\ client'[c].valid = client[c].valid /\ UNCHANGED <<disk, paid, blind>>

Records(t, c) ==
  /\ call[t].at = "append" /\ Working(t, "index", call[t].cost)
  /\ Accounts(c, client[c].cost, client[c].pending, client[c].index)
  /\ client'[c].valid = client[c].valid /\ UNCHANGED <<paid, blind>>
  /\ disk' = Appended(disk, c, call[t].cost)

Saves(t, c) ==
  /\ call[t].at = "index" /\ Working(t, "replace", call[t].cost)
  /\ Accounts(c, client[c].cost, client[c].pending, UpdatedIndex(c, call[t].cost))
  /\ client'[c].valid = TRUE /\ UNCHANGED <<paid, blind>>
  /\ disk' = TmpWritten(disk, UpdatedIndex(c, call[t].cost))

Moved(t, c) ==
  /\ call[t].at = "replace"
  /\ \E place \in {"unwind", "charge", "release"} : Working(t, place, call[t].cost)
  /\ Accounts(c, client[c].cost, client[c].pending, client[c].index)
  /\ client'[c].valid = client[c].valid /\ UNCHANGED <<paid, blind>>
  /\ disk' = disk \/ disk' = Replaced(disk)

Releases(t, c) ==
  /\ call[t].at = "release" /\ Working(t, "add", call[t].cost)
  /\ Accounts(c, client[c].cost, Less(client[c].pending), client[c].index)
  /\ client'[c].valid = client[c].valid /\ UNCHANGED <<disk, paid>>
  /\ blind' = [blind EXCEPT ![c] = @ + Overrun(t)]

Adds(t, c) ==
  /\ call[t].at = "add"
  /\ Working(t, "reserve", 0) \/ Working(t, "idle", 0)
  /\ Accounts(c, client[c].cost + call[t].cost, client[c].pending, client[c].index)
  /\ client'[c].valid = client[c].valid /\ UNCHANGED <<disk, paid, blind>>

Charges(t, c) ==
  /\ call[t].at = "charge" /\ Working(t, "settle", call[t].cost)
  /\ Accounts(c, client[c].cost + call[t].cost, client[c].pending, client[c].index)
  /\ client'[c].valid = client[c].valid /\ UNCHANGED <<disk, paid>>
  /\ blind' = [blind EXCEPT ![c] = @ + Overrun(t)]

Unwinds(t, c) ==
  /\ call[t].at \in {"unwind", "settle"} /\ Working(t, "idle", 0)
  /\ Accounts(c, client[c].cost, Less(client[c].pending), client[c].index)
  /\ client'[c].valid = client[c].valid /\ UNCHANGED <<disk, paid, blind>>

Effect(t, c) ==
  \/ Refuses(t, c) \/ AdmitsCall(t, c) \/ GetsAnswer(t, c) \/ Fails(t, c) \/ Records(t, c)
  \/ Saves(t, c) \/ Moved(t, c) \/ Releases(t, c) \/ Adds(t, c) \/ Charges(t, c)
  \/ Unwinds(t, c)

LEMMA CallEffect ==
  ASSUME TypeOK, AnswersAreOwn, DownIsIdle, NEW t \in Callers, Begin(t) \/ Step(t)
  PROVE  Effect(t, ClientOf[t])
<1> DEFINE c == ClientOf[t]
<1>1. /\ c \in Clients /\ client[c] \in ClientStates /\ call[t].cost \in Nat /\ 0 \in Nat
      /\ client \in [Clients -> ClientStates]
  BY CallTyped, OverrunTyped DEF TypeOK
<1>2. ASSUME client' = client
      PROVE  /\ Accounts(c, client[c].cost, client[c].pending, client[c].index)
             /\ client'[c].valid = client[c].valid
  BY <1>2 DEF Accounts
<1>3. CASE Begin(t) \/ AskAgain(t)
  <2> DEFINE m == [client[c] EXCEPT !.pending = client[c].pending + estimate]
  <2>1. /\ call[t].at \in {"idle", "reserve"}
        /\ call[t].at = "idle" => client[c].state = "up"
        /\ UNCHANGED <<disk, starts, paid>>
        /\ \/ Moves(t, "idle", 0) /\ UNCHANGED <<client, blind>>
           \/ /\ Admits(c)
              /\ Moves(t, "calling", call[t].cost)
              /\ client' = [client EXCEPT ![c] = m]
              /\ blind' = [blind EXCEPT ![c] = Released(c)]
    BY <1>1, <1>3, ReserveStepTyped, ReserveStep
  <2>2. /\ m.state = client[c].state /\ m.cost = client[c].cost /\ m.index = client[c].index
        /\ m.valid = client[c].valid /\ m.pending = client[c].pending + estimate
    BY <1>1 DEF ClientStates
  <2> HIDE DEF m
  <2>3. CASE Moves(t, "idle", 0) /\ UNCHANGED <<client, blind>>
    <3>1. Working(t, "idle", 0)
      BY <1>1, <2>1, <2>2, <2>3, MoveWorks
    <3> QED
      BY <1>2, <2>1, <2>3, <3>1 DEF Effect, Refuses
  <2>4. CASE /\ Admits(c) /\ Moves(t, "calling", call[t].cost)
             /\ client' = [client EXCEPT ![c] = m]
             /\ blind' = [blind EXCEPT ![c] = Released(c)]
    <3>1. Working(t, "calling", call[t].cost)
      BY <1>1, <2>1, <2>2, <2>4, MoveWorks
    <3>2. client'[c] = m
      BY <1>1, <2>4
    <3> QED
      BY <2>1, <2>2, <2>4, <3>1, <3>2 DEF Effect, AdmitsCall, Accounts
  <2> QED
    BY <2>1, <2>3, <2>4
<1>4. ASSUME NEW cost \in Costs, NEW reply, Answer(t, cost, reply) PROVE Effect(t, c)
  <2>1. /\ call[t].at = "calling" /\ Moves(t, "append", cost) /\ cost \in Nat
        /\ UNCHANGED <<client, disk, blind>> /\ paid' = [paid EXCEPT ![c] = @ + cost]
    BY <1>4, AnswerStep, ClientAssumption
  <2>2. Working(t, "append", cost)
    BY <1>1, <2>1, MoveWorks
  <2> QED
    BY <1>2, <2>1, <2>2 DEF Effect, GetsAnswer
<1>5. CASE Error(t) \/ Timeout(t)
  <2>1. /\ call[t].at = "calling" /\ UNCHANGED <<client, disk, paid, blind>>
        /\ Moves(t, "calling", call[t].cost) \/ Moves(t, "unwind", 0)
    BY <1>5, FailedStep
  <2>2. Working(t, "calling", call[t].cost) \/ Working(t, "unwind", 0)
    BY <1>1, <2>1, MoveWorks
  <2> QED
    BY <1>2, <2>1, <2>2 DEF Effect, Fails
<1>6. CASE append_ledger_row(t)
  <2>1. /\ call[t].at = "append" /\ Moves(t, "index", call[t].cost)
        /\ disk' = Appended(disk, c, call[t].cost) /\ UNCHANGED <<client, paid, blind>>
    BY <1>6, AppendStep
  <2>2. Working(t, "index", call[t].cost)
    BY <1>1, <2>1, MoveWorks
  <2> QED
    BY <1>2, <2>1, <2>2 DEF Effect, Records
<1>7. CASE SaveIndex(t)
  <2> DEFINE index == UpdatedIndex(c, call[t].cost)
             m == [client[c] EXCEPT !.lock = t, !.valid = TRUE, !.index = index]
  <2>1. /\ call[t].at = "index" /\ Moves(t, "replace", call[t].cost)
        /\ client' = [client EXCEPT ![c] = m]
        /\ disk' = TmpWritten(disk, index) /\ UNCHANGED <<paid, blind>>
    BY <1>1, <1>7, SaveStep
  <2>2. /\ m.state = client[c].state /\ m.cost = client[c].cost /\ m.index = index
        /\ m.valid = TRUE /\ m.pending = client[c].pending
    BY <1>1 DEF ClientStates
  <2> HIDE DEF m, index
  <2>3. Working(t, "replace", call[t].cost) /\ client'[c] = m
    BY <1>1, <2>1, <2>2, MoveWorks
  <2> QED
    <3>1. index = UpdatedIndex(c, call[t].cost)
      BY DEF index
    <3>2. Saves(t, c)
      <4>1. Accounts(c, client[c].cost, client[c].pending, index) /\ client'[c].valid = TRUE
        BY <2>2, <2>3 DEF Accounts
      <4> QED
        BY <2>1, <2>3, <3>1, <4>1, Zenon DEF Saves
    <3> QED
      BY <3>2 DEF Effect
<1>8. CASE ReplaceIndex(t)
  <2> DEFINE m == [client[c] EXCEPT !.lock = None]
  <2>1. /\ call[t].at = "replace"
        /\ \E place \in {"unwind", "charge", "release"} : Moves(t, place, call[t].cost)
        /\ client' = [client EXCEPT ![c] = m]
        /\ disk' = disk \/ disk' = Replaced(disk)
        /\ UNCHANGED <<paid, blind>>
    BY <1>1, <1>8, ReplaceStep
  <2>2. /\ m.state = client[c].state /\ m.cost = client[c].cost /\ m.index = client[c].index
        /\ m.valid = client[c].valid /\ m.pending = client[c].pending
    BY <1>1 DEF ClientStates
  <2> HIDE DEF m
  <2>3. \E place \in {"unwind", "charge", "release"} : Working(t, place, call[t].cost)
    BY <1>1, <2>1, <2>2, MoveWorks
  <2>4. client'[c] = m
    BY <1>1, <2>1
  <2> QED
    BY <2>1, <2>2, <2>3, <2>4 DEF Effect, Moved, Accounts
<1>9. CASE Release(t) \/ Unwind(t)
  <2>1. /\ client' = LessReserved(c) /\ UNCHANGED <<disk, paid>>
        /\ \/ /\ call[t].at = "release" /\ Moves(t, "add", call[t].cost)
              /\ blind' = [blind EXCEPT ![c] = @ + Overrun(t)]
           \/ call[t].at \in {"unwind", "settle"} /\ Moves(t, "idle", 0) /\ blind' = blind
    BY <1>9, ReleaseStep, UnwindStep
  <2>2. /\ client' = [client EXCEPT ![c] = LessReserved(c)[c]]
        /\ LessReserved(c)[c].state = client[c].state
        /\ Accounts(c, client[c].cost, Less(client[c].pending), client[c].index)
        /\ client'[c].valid = client[c].valid
    BY <2>1, ClientAfter DEF Accounts
  <2>3. CASE call[t].at = "release" /\ Moves(t, "add", call[t].cost)
             /\ blind' = [blind EXCEPT ![c] = @ + Overrun(t)]
    <3>1. Working(t, "add", call[t].cost)
      BY <1>1, <2>2, <2>3, MoveWorks
    <3> QED
      BY <2>1, <2>2, <2>3, <3>1 DEF Effect, Releases
  <2>4. CASE call[t].at \in {"unwind", "settle"} /\ Moves(t, "idle", 0) /\ blind' = blind
    <3>1. Working(t, "idle", 0)
      BY <1>1, <2>2, <2>4, MoveWorks
    <3> QED
      BY <2>1, <2>2, <2>4, <3>1 DEF Effect, Unwinds
  <2> QED
    BY <2>1, <2>3, <2>4
<1>10. CASE add_run_cost(t) \/ Charge(t)
  <2> DEFINE m == [client[c] EXCEPT !.cost = client[c].cost + call[t].cost]
  <2>1. /\ client' = [client EXCEPT ![c] = m] /\ UNCHANGED <<disk, paid>>
        /\ \/ /\ call[t].at = "add" /\ blind' = blind
              /\ Moves(t, "reserve", 0) \/ Moves(t, "idle", 0)
           \/ /\ call[t].at = "charge" /\ Moves(t, "settle", call[t].cost)
              /\ blind' = [blind EXCEPT ![c] = @ + Overrun(t)]
    BY <1>1, <1>10, AddStep, ChargeStep
  <2>2. /\ m.state = client[c].state /\ m.cost = client[c].cost + call[t].cost
        /\ m.index = client[c].index
        /\ m.valid = client[c].valid /\ m.pending = client[c].pending
    BY <1>1 DEF ClientStates
  <2> HIDE DEF m
  <2>3. client'[c] = m
    BY <1>1, <2>1
  <2>4. CASE call[t].at = "add" /\ blind' = blind
             /\ (Moves(t, "reserve", 0) \/ Moves(t, "idle", 0))
    <3>1. Working(t, "reserve", 0) \/ Working(t, "idle", 0)
      BY <1>1, <2>1, <2>2, <2>4, MoveWorks
    <3> QED
      BY <2>1, <2>2, <2>3, <2>4, <3>1 DEF Effect, Adds, Accounts
  <2>5. CASE call[t].at = "charge" /\ Moves(t, "settle", call[t].cost)
             /\ blind' = [blind EXCEPT ![c] = @ + Overrun(t)]
    <3>1. Working(t, "settle", call[t].cost)
      BY <1>1, <2>1, <2>2, <2>5, MoveWorks
    <3> QED
      BY <2>1, <2>2, <2>3, <2>5, <3>1 DEF Effect, Charges, Accounts
  <2> QED
    BY <2>1, <2>4, <2>5
<1> QED
  BY <1>3, <1>4, <1>5, <1>6, <1>7, <1>8, <1>9, <1>10 DEF Step

LEMMA EffectWorks ==
  ASSUME NEW t \in Callers, Effect(t, ClientOf[t])
  PROVE  \E place, cost : Working(t, place, cost)
BY DEF Effect, Refuses, AdmitsCall, GetsAnswer, Fails, Records, Saves, Moved, Releases, Adds,
       Charges, Unwinds

CallInv == TypeOK /\ AnswersAreOwn /\ DownIsIdle

(* A step is one of a call, with its effect, or one of a client. *)
LEMMA CallInvNext ==
  ASSUME CallInv, [Next]_vars
  PROVE  /\ CallInv'
         /\ \/ UNCHANGED vars
            \/ \E t \in Callers : Effect(t, ClientOf[t])
            \/ \E c \in Clients : Construct(c) \/ start_run(c) \/ Kill(c)
<1>1. TypeOK' /\ AnswersAreOwn'
  BY NextTyped DEF CallInv
<1>2. ASSUME NEW t \in Callers, Begin(t) \/ Step(t) PROVE Effect(t, ClientOf[t]) /\ DownIsIdle'
  <2>1. Effect(t, ClientOf[t])
    BY <1>2, CallEffect DEF CallInv
  <2>2. DownIsIdle'
    BY <2>1, EffectWorks, WorkKeepsIdle DEF CallInv
  <2> QED
    BY <2>1, <2>2
<1>3. ASSUME NEW c \in Clients, Construct(c) \/ start_run(c) PROVE DownIsIdle'
  <2>1. /\ call' = call /\ client[c].state # "up"
        /\ \A d \in Clients \ {c} : client'[d] = client[d]
    BY <1>3, ConstructStep, StartStep DEF CallInv
  <2>2. \A t \in Callers : ClientOf[t] \in Clients
    BY CallTyped DEF CallInv
  <2> QED
    BY <2>1, <2>2 DEF CallInv, DownIsIdle
<1>4. ASSUME NEW c \in Clients, Kill(c) PROVE DownIsIdle'
  <2>1. /\ client' = [client EXCEPT ![c] = Down]
        /\ \A t \in Callers : call'[t] = IF ClientOf[t] = c THEN Idle ELSE call[t]
    BY <1>4, KillStep DEF CallInv
  <2>2. \A t \in Callers : ClientOf[t] \in Clients
    BY CallTyped DEF CallInv
  <2> QED
    BY <2>1, <2>2 DEF CallInv, DownIsIdle, Idle, TypeOK
<1>5. ASSUME UNCHANGED vars PROVE DownIsIdle'
  BY <1>5 DEF vars, CallInv, DownIsIdle
<1>6. \/ UNCHANGED vars
      \/ \E t \in Callers : Begin(t) \/ Step(t)
      \/ \E c \in Clients : Construct(c) \/ start_run(c) \/ Kill(c)
  BY DEF Next
<1> QED
  BY <1>1, <1>2, <1>3, <1>4, <1>5, <1>6 DEF CallInv

LEMMA CallInvInit == Init => CallInv
BY InitTyped DEF Init, CallInv, DownIsIdle, Idle

---------------------------------------------------------------------------
(* Reservations. *)

(* What a step of a call does to two places' counts and sums. *)
LEMMA WorkCounts ==
  ASSUME TypeOK, NEW t \in Callers, NEW place, NEW cost, Working(t, place, cost), NEW P
  PROVE  /\ \A c : c # ClientOf[t] =>
              Count(call', c, P) = Count(call, c, P) /\ Sum(call', c, P) = Sum(call, c, P)
         /\ Count(call', ClientOf[t], P) =
              Count(call, ClientOf[t], P) - (IF call[t].at \in P THEN 1 ELSE 0)
                                          + (IF place \in P THEN 1 ELSE 0)
         /\ Sum(call', ClientOf[t], P) =
              Sum(call, ClientOf[t], P) - (IF call[t].at \in P THEN call[t].cost ELSE 0)
                                        + (IF place \in P THEN cost ELSE 0)
         /\ \A c : /\ Count(call, c, P) \in Nat /\ Count(call', c, P) \in Nat
                    /\ Sum(call, c, P) \in Nat /\ Sum(call', c, P) \in Nat
<1>1. call \in [Callers -> CallStates] /\ call' \in [Callers -> CallStates]
  BY DEF TypeOK, Working, Moves
<1> QED
  BY <1>1, MovesCount, CountsTyped DEF Working

LEMMA Products ==
  ASSUME NEW n \in Nat
  PROVE  /\ estimate * (n + 1) = estimate * n + estimate /\ estimate * n \in Nat
         /\ n >= 1 => estimate * (n - 1) = estimate * n - estimate /\ estimate * n >= estimate
         /\ estimate * 0 = 0
         /\ \A m \in Nat : m <= n => estimate * m <= estimate * n
<1>1. estimate \in Nat
  BY ClientAssumption
<1>2. ASSUME NEW m \in Nat, m <= n PROVE estimate * m <= estimate * n
  BY <1>1, <1>2
<1>3. n >= 1 => estimate * (n - 1) = estimate * n - estimate
  BY <1>1
<1>4. ASSUME n >= 1 PROVE estimate * n >= estimate
  BY <1>1, <1>2, <1>4, 1 \in Nat
<1>5. estimate * (n + 1) = estimate * n + estimate /\ estimate * n \in Nat /\ estimate * 0 = 0
  BY <1>1
<1> QED
  BY <1>2, <1>3, <1>4, <1>5

Owes(c) == client[c].state = "up" => client[c].pending = estimate * Count(call, c, Held)

LEMMA OwesSame ==
  ASSUME CallInv, CallInv' PROVE (PendingIsOwed <=> \A c \in Clients : Owes(c))
                               /\ (PendingIsOwed' <=> \A c \in Clients : Owes(c)')
BY Views DEF CallInv, PendingIsOwed, Owes

LEMMA PendingStep ==
  ASSUME CallInv, CallInv', PendingIsOwed, NEW t \in Callers, Effect(t, ClientOf[t])
  PROVE  PendingIsOwed'
<1> DEFINE c == ClientOf[t]
           n == Count(call, c, Held)
           k == Count(call', c, Held)
<1>1. \A d \in Clients : Owes(d)
  BY OwesSame
<1>2. PICK place, cost : Working(t, place, cost)
  BY EffectWorks
<1>3. ASSUME NEW d \in Clients, d # c PROVE Owes(d)'
  <2>1. Owes(d) /\ client'[d] = client[d] /\ Count(call', d, Held) = Count(call, d, Held)
    BY <1>1, <1>2, <1>3, WorkCounts DEF Working, CallInv
  <2> QED
    BY <2>1 DEF Owes
<1>4. n \in Nat /\ k \in Nat /\ c \in Clients /\ client[c].pending = estimate * n
  BY <1>1, <1>2, WorkCounts, CallTyped DEF CallInv, Working, Owes
<1>5. ASSUME \/ Refuses(t, c) \/ GetsAnswer(t, c) \/ Fails(t, c) \/ Records(t, c)
             \/ Saves(t, c) \/ Moved(t, c) \/ Adds(t, c) \/ Charges(t, c)
      PROVE  Owes(c)'
  <2>1. client'[c].pending = client[c].pending
    BY <1>5 DEF Refuses, GetsAnswer, Fails, Records, Saves, Moved, Adds, Charges, Accounts
  <2>2. PICK p, x : Working(t, p, x) /\ (call[t].at \in Held <=> p \in Held)
    BY <1>5 DEF Refuses, GetsAnswer, Fails, Records, Saves, Moved, Adds, Charges, Held, Places
  <2>3. k = n
    BY <1>4, <2>2, WorkCounts DEF CallInv
  <2> HIDE DEF n, k
  <2> QED
    BY <1>4, <2>1, <2>3 DEF Owes, k
<1>6. ASSUME AdmitsCall(t, c) PROVE Owes(c)'
  <2>1. client'[c].pending = client[c].pending + estimate
    BY <1>6 DEF AdmitsCall, Accounts
  <2>2. k = n + 1
    <3>1. Working(t, "calling", call[t].cost) /\ call[t].at \notin Held /\ "calling" \in Held
      BY <1>6 DEF AdmitsCall, Held, Places
    <3> QED
      BY <1>4, <3>1, WorkCounts DEF CallInv
  <2> HIDE DEF n, k
  <2>3. client'[c].pending = estimate * k
    BY <1>4, <2>1, <2>2, Products
  <2> QED
    BY <2>3 DEF Owes, k
<1>7. ASSUME Releases(t, c) \/ Unwinds(t, c) PROVE Owes(c)'
  <2>1. client'[c].pending = Less(client[c].pending)
    BY <1>7 DEF Releases, Unwinds, Accounts
  <2>2. k = n - 1
    <3>1. PICK p, x : p \in {"add", "idle"} /\ Working(t, p, x) /\ call[t].at \in Held
      BY <1>7 DEF Releases, Unwinds, Held, Places
    <3>2. p \notin Held
      BY <3>1 DEF Held
    <3> QED
      BY <1>4, <3>1, <3>2, WorkCounts DEF CallInv
  <2> HIDE DEF n, k
  <2>3. n >= 1 /\ estimate \in Nat
    BY <1>4, <2>2, ClientAssumption
  <2>4. estimate * (n - 1) = estimate * n - estimate /\ estimate * n >= estimate /\ estimate * n \in Nat
    BY <1>4, <2>3, Products
  <2>5. Less(estimate * n) = estimate * n - estimate
    <3> DEFINE x == estimate * n
    <3>1. x \in Nat /\ x >= estimate
      BY <2>4
    <3> HIDE DEF x
    <3>2. Less(x) = x - estimate
      BY <2>3, <3>1 DEF Less
    <3> QED
      BY <3>2 DEF x
  <2>6. client'[c].pending = estimate * k
    BY <1>4, <2>1, <2>2, <2>4, <2>5
  <2> QED
    BY <2>6 DEF Owes, k
<1>8. Owes(c)'
  BY <1>5, <1>6, <1>7 DEF Effect
<1> QED
  BY <1>3, <1>8, OwesSame

LEMMA PendingNext == CallInv /\ PendingIsOwed /\ [Next]_vars => CallInv' /\ PendingIsOwed'
<1> SUFFICES ASSUME CallInv, PendingIsOwed, [Next]_vars PROVE CallInv' /\ PendingIsOwed'
  OBVIOUS
<1>1. CallInv' /\ \A d \in Clients : Owes(d)
  BY CallInvNext, OwesSame
<1>2. CASE UNCHANGED vars
  BY <1>1, <1>2 DEF vars, PendingIsOwed, Holders, CallersOf
<1>3. ASSUME NEW c \in Clients, Construct(c) PROVE PendingIsOwed'
  <2>1. call' = call /\ client'[c].state = "new" /\ \A d \in Clients \ {c} : client'[d] = client[d]
    BY <1>3, ConstructStep DEF CallInv
  <2>2. \A d \in Clients : Owes(d)'
    BY <1>1, <2>1 DEF Owes
  <2> QED
    BY <1>1, <2>2, OwesSame
<1>4. ASSUME NEW c \in Clients, start_run(c) PROVE PendingIsOwed'
  <2>1. /\ call' = call /\ client[c].state = "new" /\ client'[c].pending = 0
        /\ \A d \in Clients \ {c} : client'[d] = client[d]
    BY <1>4, StartStep DEF CallInv
  <2>2. Count(call, c, Held) = 0 /\ estimate * 0 = 0
    BY <2>1, DownCounts, Products, 0 \in Nat DEF CallInv, Held
  <2>3. \A d \in Clients : Owes(d)'
    BY <1>1, <2>1, <2>2 DEF Owes
  <2> QED
    BY <1>1, <2>3, OwesSame
<1>5. ASSUME NEW c \in Clients, Kill(c) PROVE PendingIsOwed'
  <2>1. /\ client' = [client EXCEPT ![c] = Down]
        /\ \A t \in Callers : call'[t] = IF ClientOf[t] = c THEN Idle ELSE call[t]
    BY <1>5, KillStep DEF CallInv
  <2>2. client'[c].state # "up" /\ \A d \in Clients \ {c} : client'[d] = client[d]
    BY <2>1 DEF CallInv, TypeOK, Down
  <2>3. \A d \in Clients \ {c} : Count(call', d, Held) = Count(call, d, Held)
    BY <2>1, SameCounted
  <2>4. \A d \in Clients : Owes(d)'
    BY <1>1, <2>2, <2>3 DEF Owes
  <2> QED
    BY <1>1, <2>4, OwesSame
<1> QED
  BY <1>1, <1>2, <1>3, <1>4, <1>5, CallInvNext, PendingStep

(* On every way out of a call, the repair, the request without reasoning   *)
(* and an index that cannot be saved included, its reservation is given    *)
(* back once: what a client has reserved is owed to the calls in flight,   *)
(* and a budget does not shrink over a run (llm/client.py:418-799).        *)
THEOREM ReservationsBalance == Spec => []PendingIsOwed
<1>1. Init => CallInv /\ PendingIsOwed
  BY CallInvInit DEF Init, PendingIsOwed, Down
<1>2. Spec => [](CallInv /\ PendingIsOwed)
  BY <1>1, PendingNext, PTL DEF Spec
<1> QED
  BY <1>2, PTL

---------------------------------------------------------------------------
(* The ledger has every answer that was paid for. *)

Paid(c) == paid[c] = disk.costs[c] + Sum(call, c, {"append"})

LEMMA PaidSame ==
  /\ PaidIsRecorded <=> \A c \in Clients : Paid(c)
  /\ PaidIsRecorded' <=> \A c \in Clients : Paid(c)'
<1>1. \A c : {t \in CallersOf(c) : call[t].at = "append"} = At(call, c, {"append"})
  BY DEF CallersOf, At
<1>2. \A c : {t \in CallersOf(c) : call'[t].at = "append"} = At(call', c, {"append"})
  BY DEF CallersOf, At
<1> QED
  BY <1>1, <1>2 DEF PaidIsRecorded, Paid, Sum

(* What a row adds to the ledger, and what the files leave of it. *)
LEMMA LedgerAfter ==
  ASSUME TypeOK, NEW c \in Clients, NEW cost \in Nat, NEW index \in [Clients -> Nat]
  PROVE  /\ Appended(disk, c, cost).costs[c] = disk.costs[c] + cost
         /\ \A d \in Clients \ {c} : Appended(disk, c, cost).costs[d] = disk.costs[d]
         /\ Appended(disk, c, cost).index = disk.index /\ Appended(disk, c, cost).tmp = disk.tmp
         /\ TmpWritten(disk, index).costs = disk.costs
         /\ TmpWritten(disk, index).index = disk.index
         /\ TmpWritten(disk, index).tmp.costs = index
         /\ Replaced(disk).costs = disk.costs /\ Replaced(disk).index = disk.tmp
         /\ Replaced(disk).tmp.costs = Zero
         /\ Replaced(TmpWritten(disk, index)).costs = disk.costs
         /\ Replaced(TmpWritten(disk, index)).index.costs = index
         /\ Replaced(TmpWritten(disk, index)).tmp.costs = Zero
<1>1. disk \in Disks
  BY DEF TypeOK, Disks
<1>2. /\ Replaced(disk).costs = disk.costs /\ Replaced(disk).index = disk.tmp
      /\ Replaced(disk).tmp.costs = Zero
  BY <1>1 DEF Disks, Replaced, NoIndex
<1>3. /\ TmpWritten(disk, index).costs = disk.costs
      /\ TmpWritten(disk, index).index = disk.index
      /\ TmpWritten(disk, index).tmp.costs = index
  BY <1>1 DEF Disks, TmpWritten
<1>4. /\ Replaced(TmpWritten(disk, index)).costs = disk.costs
      /\ Replaced(TmpWritten(disk, index)).index.costs = index
      /\ Replaced(TmpWritten(disk, index)).tmp.costs = Zero
  BY <1>1 DEF Disks, TmpWritten, Replaced, NoIndex
<1>5. /\ Appended(disk, c, cost).costs = [disk.costs EXCEPT ![c] = disk.costs[c] + cost]
      /\ Appended(disk, c, cost).index = disk.index /\ Appended(disk, c, cost).tmp = disk.tmp
  BY <1>1 DEF Disks, Appended
<1> QED
  BY <1>1, <1>2, <1>3, <1>4, <1>5 DEF Disks

LEMMA EffectLedger ==
  ASSUME TypeOK, NEW t \in Callers, Effect(t, ClientOf[t])
  PROVE  \/ Records(t, ClientOf[t])
         \/ disk'.costs = disk.costs
<1>1. ClientOf[t] \in Clients /\ call[t].cost \in Nat /\ Zero \in [Clients -> Nat]
  BY CallTyped, OverrunTyped, DownTyped
<1>2. UpdatedIndex(ClientOf[t], call[t].cost) \in [Clients -> Nat]
  BY <1>1, IndexTyped
<1>3. CASE Saves(t, ClientOf[t])
  BY <1>1, <1>2, <1>3, LedgerAfter DEF Saves
<1>4. CASE Moved(t, ClientOf[t])
  BY <1>1, <1>4, LedgerAfter DEF Moved
<1> QED
  BY <1>3, <1>4 DEF Effect, Refuses, AdmitsCall, GetsAnswer, Fails, Releases, Adds, Charges, Unwinds

LEMMA PaidNext == CallInv /\ PaidIsRecorded /\ [Next]_vars => CallInv' /\ PaidIsRecorded'
<1> SUFFICES ASSUME CallInv, PaidIsRecorded, [Next]_vars PROVE CallInv' /\ PaidIsRecorded'
  OBVIOUS
<1>1. CallInv' /\ TypeOK /\ \A d \in Clients : Paid(d)
  BY CallInvNext, PaidSame DEF CallInv
<1>2. CASE UNCHANGED vars
  BY <1>1, <1>2 DEF vars, PaidIsRecorded, CallersOf
<1>3. ASSUME NEW t \in Callers, Effect(t, ClientOf[t]) PROVE PaidIsRecorded'
  <2> DEFINE c == ClientOf[t]
             P == {"append"}
  <2>1. PICK place, cost : Working(t, place, cost)
    BY <1>3, EffectWorks
  <2>2. c \in Clients /\ call[t].cost \in Nat /\ paid \in [Clients -> Nat]
        /\ \A d \in Clients : disk.costs[d] \in Nat /\ disk'.costs[d] \in Nat
    BY <1>1, CallTyped, OverrunTyped DEF CallInv, TypeOK
  <2>3. \A d \in Clients \ {c} : Sum(call', d, P) = Sum(call, d, P)
    BY <1>1, <2>1, WorkCounts
  <2>4. Sum(call, c, P) \in Nat /\ Sum(call', c, P) \in Nat
    BY <1>1, <2>1, WorkCounts
  <2>5. CASE GetsAnswer(t, c)
    <3>1. PICK x \in Nat : Working(t, "append", x) /\ paid' = [paid EXCEPT ![c] = @ + x]
      BY <2>5 DEF GetsAnswer
    <3>2. Sum(call', c, P) = Sum(call, c, P) - 0 + x
      BY <1>1, <2>5, <3>1, WorkCounts DEF GetsAnswer
    <3>3. paid'[c] = paid[c] + x /\ \A d \in Clients \ {c} : paid'[d] = paid[d]
      BY <2>2, <3>1
    <3>4. disk' = disk
      BY <2>5 DEF GetsAnswer
    <3> HIDE DEF P
    <3>5. Paid(c)'
      <4>1. paid[c] = disk.costs[c] + Sum(call, c, P)
        BY <1>1, <2>2 DEF Paid, P
      <4>2. paid'[c] = disk'.costs[c] + Sum(call', c, P)
        BY <2>2, <2>4, <3>2, <3>3, <3>4, <4>1
      <4> QED
        BY <4>2 DEF Paid, P
    <3>6. \A d \in Clients \ {c} : Paid(d)'
      BY <1>1, <2>3, <3>3, <3>4 DEF Paid, P
    <3> QED
      BY <3>5, <3>6, PaidSame
  <2>6. CASE Records(t, c)
    <3>1. Sum(call', c, P) = Sum(call, c, P) - call[t].cost + 0
      <4>1. Working(t, "index", call[t].cost) /\ call[t].at = "append"
        BY <2>6 DEF Records
      <4> QED
        BY <1>1, <4>1, WorkCounts
    <3>2. paid' = paid /\ disk' = Appended(disk, c, call[t].cost)
      BY <2>6 DEF Records
    <3>3. /\ disk'.costs[c] = disk.costs[c] + call[t].cost
          /\ \A d \in Clients \ {c} : disk'.costs[d] = disk.costs[d]
      BY <1>1, <2>2, <3>2, LedgerAfter, DownTyped
    <3> HIDE DEF P
    <3>4. Paid(c)'
      <4>1. paid[c] = disk.costs[c] + Sum(call, c, P)
        BY <1>1, <2>2 DEF Paid, P
      <4>2. paid'[c] = disk'.costs[c] + Sum(call', c, P)
        BY <2>2, <2>4, <3>1, <3>2, <3>3, <4>1
      <4> QED
        BY <4>2 DEF Paid, P
    <3>5. \A d \in Clients \ {c} : Paid(d)'
      BY <1>1, <2>3, <3>2, <3>3 DEF Paid, P
    <3> QED
      BY <3>4, <3>5, PaidSame
  <2>7. CASE ~ GetsAnswer(t, c) /\ ~ Records(t, c)
    <3>1. disk'.costs = disk.costs
      BY <1>1, <1>3, <2>7, EffectLedger
    <3>2. PICK p, x : Working(t, p, x) /\ p # "append" /\ call[t].at # "append" /\ paid' = paid
      BY <1>3, <2>7 DEF Effect, Refuses, AdmitsCall, Fails, Saves, Moved, Releases, Adds, Charges,
                        Unwinds
    <3>3. Sum(call', c, P) = Sum(call, c, P)
      BY <1>1, <2>4, <3>2, WorkCounts
    <3>4. \A d \in Clients : Paid(d)'
      BY <1>1, <2>3, <3>1, <3>2, <3>3 DEF Paid
    <3> QED
      BY <3>4, PaidSame
  <2> QED
    BY <2>5, <2>6, <2>7
<1>4. ASSUME NEW c \in Clients, Construct(c) \/ start_run(c) PROVE PaidIsRecorded'
  <2>1. call' = call /\ paid' = paid /\ disk'.costs = disk.costs
    <3>1. CASE Construct(c)
      BY <3>1, ConstructStep DEF CallInv
    <3>2. CASE start_run(c)
      <4>1. disk.costs \in [Clients -> Nat]
        BY <1>1 DEF TypeOK
      <4>2. Replaced(TmpWritten(disk, disk.costs)).costs = disk.costs
        BY <1>1, <4>1, LedgerAfter, 0 \in Nat
      <4>3. call' = call /\ paid' = paid
            /\ (disk' = disk \/ disk' = Replaced(TmpWritten(disk, disk.costs)))
        BY <3>2, StartStep DEF CallInv
      <4> QED
        BY <4>2, <4>3
    <3> QED
      BY <1>4, <3>1, <3>2
  <2> QED
    BY <1>1, <2>1, PaidSame DEF Paid
<1>5. ASSUME NEW c \in Clients, Kill(c) PROVE PaidIsRecorded'
  <2>1. /\ \A t \in Callers : call'[t] = IF ClientOf[t] = c THEN Idle ELSE call[t]
        /\ paid' = [paid EXCEPT ![c] = disk.costs[c]] /\ disk' = disk
    BY <1>5, KillStep DEF CallInv
  <2>2. /\ paid \in [Clients -> Nat] /\ disk.costs[c] \in Nat
    BY <1>1 DEF TypeOK
  <2>3. Sum(call', c, {"append"}) = 0
    BY <2>1, NoneCounted DEF Idle
  <2>4. \A d \in Clients \ {c} : Sum(call', d, {"append"}) = Sum(call, d, {"append"})
    BY <2>1, SameCounted
  <2>5. \A d \in Clients : Paid(d)'
    BY <1>1, <2>1, <2>2, <2>3, <2>4 DEF Paid
  <2> QED
    BY <2>5, PaidSame
<1> QED
  BY <1>1, <1>2, <1>3, <1>4, <1>5, CallInvNext

(* Every answer the client could use has its row in the ledger, once,      *)
(* whatever became of the call: also the cut, the invalid, the repair that *)
(* failed and the answer spent on reasoning (llm/client.py:482-673).       *)
THEOREM PaidRecorded == Spec => []PaidIsRecorded
<1>1. Init => CallInv /\ PaidIsRecorded
  <2> SUFFICES ASSUME Init PROVE \A c \in Clients : Paid(c)
    BY CallInvInit, PaidSame
  <2> TAKE c \in Clients
  <2>1. paid[c] = 0 /\ disk.costs[c] = 0 /\ \A t \in Callers : call[t].at # "append"
    BY DEF Init, Zero, EmptyDisk, Idle
  <2>2. Sum(call, c, {"append"}) = 0
    BY <2>1, NoneCounted
  <2> QED
    BY <2>1, <2>2 DEF Paid
<1>2. Spec => [](CallInv /\ PaidIsRecorded)
  BY <1>1, PaidNext, PTL DEF Spec
<1> QED
  BY <1>2, PTL

---------------------------------------------------------------------------
(* The budget.  An admission counts every reservation held, which by       *)
(* PendingIsOwed is the estimate of every call in flight; a call that is   *)
(* released or charged gives its estimate up for what its answer costs.    *)

Within(c) ==
  client[c].state = "up" =>
    client[c].cost + estimate * Count(call, c, Ahead) + Sum(call, c, {"add"})
      <= budget_cny + blind[c]

LEMMA WithinSame ==
  ASSUME CallInv, CallInv'
  PROVE  /\ BudgetUpToBlindSpot <=> \A c \in Clients : Within(c)
         /\ BudgetUpToBlindSpot' <=> \A c \in Clients : Within(c)'
<1>1. \A c \in Clients :
        /\ Cardinality(Uncharged(c)) = Count(call, c, Ahead) /\ Released(c) = Sum(call, c, {"add"})
        /\ Cardinality(Uncharged(c)') = Count(call', c, Ahead) /\ Released(c)' = Sum(call', c, {"add"})
  BY Views DEF CallInv
<1> QED
  BY <1>1 DEF BudgetUpToBlindSpot, Within

LEMMA WithinOthers ==
  ASSUME CallInv, NEW t \in Callers, Effect(t, ClientOf[t]), NEW d \in Clients, d # ClientOf[t],
         Within(d)
  PROVE  Within(d)'
<1>1. PICK place, cost : Working(t, place, cost)
  BY EffectWorks
<1>2. /\ client'[d] = client[d] /\ Count(call', d, Ahead) = Count(call, d, Ahead)
      /\ Sum(call', d, {"add"}) = Sum(call, d, {"add"})
  <2>1. client'[d] = client[d]
    BY <1>1 DEF Working
  <2>2. TypeOK
    BY DEF CallInv
  <2>3. Count(call', d, Ahead) = Count(call, d, Ahead) /\ Sum(call', d, {"add"}) = Sum(call, d, {"add"})
    BY <1>1, <2>2, WorkCounts
  <2> QED
    BY <2>1, <2>3
<1>3. blind'[d] = blind[d]
  BY DEF Effect, Refuses, AdmitsCall, GetsAnswer, Fails, Records, Saves, Moved, Releases, Adds,
         Charges, Unwinds, CallInv, TypeOK
<1> QED
  BY <1>2, <1>3 DEF Within

LEMMA WithinOwn ==
  ASSUME CallInv, CallInv', PendingIsOwed, NEW t \in Callers, Effect(t, ClientOf[t]),
         Within(ClientOf[t])
  PROVE  Within(ClientOf[t])'
<1> DEFINE c == ClientOf[t]
           n == Count(call, c, Ahead)
           k == Count(call', c, Ahead)
           s == Sum(call, c, {"add"})
           r == Sum(call', c, {"add"})
<1>1. PICK place, cost : Working(t, place, cost)
  BY EffectWorks
<1>2. /\ n \in Nat /\ k \in Nat /\ s \in Nat /\ r \in Nat /\ c \in Clients
      /\ client[c].cost \in Nat /\ client'[c].cost \in Nat /\ client[c].pending \in Nat
      /\ blind[c] \in Nat /\ blind'[c] \in Nat /\ budget_cny \in Nat /\ estimate \in Nat
      /\ call[t].cost \in Nat
  BY <1>1, WorkCounts, CallTyped, OverrunTyped, ClientAssumption DEF CallInv, TypeOK, ClientStates
<1>counts. ASSUME NEW p, NEW x, Working(t, p, x)
           PROVE  /\ k = n - (IF call[t].at \in Ahead THEN 1 ELSE 0) + (IF p \in Ahead THEN 1 ELSE 0)
                  /\ r = s - (IF call[t].at \in {"add"} THEN call[t].cost ELSE 0)
                          + (IF p \in {"add"} THEN x ELSE 0)
  <2>1. TypeOK
    BY DEF CallInv
  <2> QED
    BY <2>1, <1>counts, WorkCounts
<1>3. client[c].cost + estimate * n + s <= budget_cny + blind[c] /\ client[c].state = "up"
  BY <1>1 DEF Within, Working
<1>4. /\ estimate * n \in Nat /\ estimate * (n + 1) = estimate * n + estimate
      /\ n >= 1 => estimate * (n - 1) = estimate * n - estimate /\ estimate * n >= estimate
  <2> HIDE DEF n
  <2> QED
    BY <1>2, Products
<1>5. ASSUME \/ Refuses(t, c) \/ GetsAnswer(t, c) \/ Fails(t, c) \/ Records(t, c)
             \/ Saves(t, c) \/ Moved(t, c)
      PROVE  client'[c].cost + estimate * k + r <= budget_cny + blind'[c]
  <2>1. client'[c].cost = client[c].cost /\ blind' = blind
    BY <1>5 DEF Refuses, GetsAnswer, Fails, Records, Saves, Moved, Accounts
  <2>2. PICK p, x : /\ Working(t, p, x) /\ (call[t].at \in Ahead <=> p \in Ahead)
                    /\ p # "add" /\ call[t].at # "add"
    BY <1>5 DEF Refuses, GetsAnswer, Fails, Records, Saves, Moved, Ahead, Held, Places
  <2>3. k = n /\ r = s
    <3> HIDE DEF n, k, s, r
    <3> QED
      BY <1>2, <2>2, <1>counts
  <2> HIDE DEF n, k, s, r
  <2> QED
    BY <1>3, <2>1, <2>3
<1>6. ASSUME AdmitsCall(t, c)
      PROVE  client'[c].cost + estimate * k + r <= budget_cny + blind'[c]
  <2>1. /\ client'[c].cost = client[c].cost /\ blind'[c] = Released(c)
        /\ client[c].cost + client[c].pending + estimate <= budget_cny
    BY <1>2, <1>6 DEF AdmitsCall, Accounts, CallInv, TypeOK, Admits
  <2>2. Released(c) = s
    BY Views
  <2>3. k = n + 1 /\ r = s
    <3>1. /\ Working(t, "calling", call[t].cost) /\ call[t].at \notin Ahead /\ "calling" \in Ahead
          /\ call[t].at # "add"
      BY <1>6 DEF AdmitsCall, Ahead, Held, Places
    <3> HIDE DEF n, k, s, r
    <3> QED
      BY <1>2, <3>1, <1>counts
  <2>4. estimate * n <= client[c].pending
    <3> DEFINE h == Count(call, c, Held)
    <3>1. h \in Nat /\ n <= h
      <4>1. call \in [Callers -> CallStates] /\ Ahead \in SUBSET Held
        BY DEF CallInv, TypeOK, Ahead
      <4> QED
        BY <4>1, CountsTyped, CountMonotone
    <3>2. client[c].pending = estimate * h
      BY <1>2, <1>3, OwesSame DEF Owes
    <3> HIDE DEF n, h
    <3> QED
      BY <1>2, <3>1, <3>2, Products
  <2> HIDE DEF n, k, s, r
  <2>5. estimate * k = estimate * n + estimate
    BY <1>4, <2>3
  <2> DEFINE x == estimate * n
             y == estimate * k
  <2>6. x \in Nat /\ y = x + estimate /\ x <= client[c].pending
    BY <1>4, <2>4, <2>5
  <2> HIDE DEF x, y
  <2>7. client'[c].cost + y + r <= budget_cny + blind'[c]
    BY <1>2, <2>1, <2>2, <2>3, <2>6
  <2> QED
    BY <2>7 DEF y
<1>7. ASSUME Releases(t, c) \/ Charges(t, c)
      PROVE  client'[c].cost + estimate * k + r <= budget_cny + blind'[c]
  <2>1. /\ client'[c].cost + r = client[c].cost + s + call[t].cost
        /\ k = n - 1
    <3>1. CASE Releases(t, c)
      <4>1. /\ client'[c].cost = client[c].cost /\ Working(t, "add", call[t].cost)
            /\ call[t].at \in Ahead /\ "add" \notin Ahead /\ call[t].at # "add"
        BY <3>1 DEF Releases, Accounts, Ahead, Held, Places
      <4> HIDE DEF n, k, s, r
      <4> QED
        BY <1>2, <4>1, <1>counts
    <3>2. CASE Charges(t, c)
      <4>1. /\ client'[c].cost = client[c].cost + call[t].cost /\ Working(t, "settle", call[t].cost)
            /\ call[t].at \in Ahead /\ "settle" \notin Ahead /\ call[t].at # "add"
        BY <3>2 DEF Charges, Accounts, Ahead, Held, Places
      <4>2. r = s /\ k = n - 1
        <5> HIDE DEF n, k, s, r
        <5> QED
          BY <1>2, <4>1, <1>counts
      <4> HIDE DEF n, k, s, r
      <4> QED
        BY <1>2, <4>1, <4>2
    <3> QED
      BY <1>7, <3>1, <3>2
  <2>2. Overrun(t) \in Nat /\ call[t].cost <= estimate + Overrun(t)
        /\ blind'[c] = blind[c] + Overrun(t)
    BY <1>2, <1>7, OverrunTyped DEF Releases, Charges, CallInv, TypeOK
  <2> HIDE DEF n, k, s, r
  <2>3. estimate * k = estimate * n - estimate
    BY <1>2, <1>4, <2>1
  <2> DEFINE x == estimate * n
             y == estimate * k
  <2>4. x \in Nat /\ y = x - estimate /\ client[c].cost + x + s <= budget_cny + blind[c]
    BY <1>3, <1>4, <2>3
  <2> HIDE DEF x, y
  <2>5. client'[c].cost + y + r <= budget_cny + blind'[c]
    BY <1>2, <2>1, <2>2, <2>4
  <2> QED
    BY <2>5 DEF y
<1>8. ASSUME Adds(t, c) \/ Unwinds(t, c)
      PROVE  client'[c].cost + estimate * k + r <= budget_cny + blind'[c]
  <2>1. /\ client'[c].cost + r = client[c].cost + s /\ blind' = blind
        /\ k = n \/ k = n - 1
    <3>1. CASE Adds(t, c)
      <4>1. PICK p : /\ Working(t, p, 0) /\ p \notin Ahead /\ p # "add"
                     /\ call[t].at = "add" /\ call[t].at \notin Ahead
        BY <3>1 DEF Adds, Ahead, Held
      <4>2. r = s - call[t].cost /\ k = n
        <5> HIDE DEF n, k, s, r
        <5> QED
          BY <1>2, <4>1, <1>counts
      <4>3. client'[c].cost = client[c].cost + call[t].cost /\ blind' = blind
        BY <3>1 DEF Adds, Accounts
      <4> HIDE DEF n, k, s, r
      <4> QED
        BY <1>2, <4>2, <4>3
    <3>2. CASE Unwinds(t, c)
      <4>1. /\ Working(t, "idle", 0) /\ "idle" \notin Ahead /\ call[t].at # "add"
            /\ client'[c].cost = client[c].cost /\ blind' = blind
        BY <3>2 DEF Unwinds, Accounts, Ahead, Held
      <4> HIDE DEF n, k, s, r
      <4> QED
        BY <1>2, <4>1, <1>counts
    <3> QED
      BY <1>8, <3>1, <3>2
  <2> HIDE DEF n, k, s, r
  <2>2. estimate * k <= estimate * n /\ estimate * k \in Nat
    <3>1. k \in Nat /\ n \in Nat /\ k <= n
      BY <1>2, <1>4, <2>1
    <3>2. estimate * k <= estimate * n
      BY <3>1, Products
    <3>3. estimate * k \in Nat
      BY <3>1, Products
    <3> QED
      BY <3>2, <3>3
  <2> DEFINE x == estimate * n
             y == estimate * k
  <2>3. y \in Nat /\ x \in Nat /\ y <= x /\ client[c].cost + x + s <= budget_cny + blind[c]
    BY <1>3, <1>4, <2>2
  <2> HIDE DEF x, y
  <2>4. client'[c].cost + y + r <= budget_cny + blind'[c]
    BY <1>2, <2>1, <2>3
  <2> QED
    BY <2>4 DEF y
<1> QED
  BY <1>5, <1>6, <1>7, <1>8 DEF Effect, Within

LEMMA WithinNext ==
  CallInv /\ PendingIsOwed /\ BudgetUpToBlindSpot /\ [Next]_vars
    => CallInv' /\ PendingIsOwed' /\ BudgetUpToBlindSpot'
<1> SUFFICES ASSUME CallInv, PendingIsOwed, BudgetUpToBlindSpot, [Next]_vars
             PROVE  BudgetUpToBlindSpot'
  BY PendingNext
<1>1. CallInv' /\ \A d \in Clients : Within(d)
  BY CallInvNext, WithinSame
<1>2. CASE UNCHANGED vars
  BY <1>1, <1>2 DEF vars, BudgetUpToBlindSpot, Uncharged, Holders, CallersOf, Released
<1>3. ASSUME NEW t \in Callers, Effect(t, ClientOf[t]) PROVE BudgetUpToBlindSpot'
  <2>1. ClientOf[t] \in Clients
    BY CallTyped DEF CallInv
  <2>2. \A d \in Clients : Within(d)'
    BY <1>1, <1>3, <2>1, WithinOthers, WithinOwn
  <2> QED
    BY <1>1, <2>2, WithinSame
<1>4. ASSUME NEW c \in Clients, Construct(c) PROVE BudgetUpToBlindSpot'
  <2>1. /\ call' = call /\ blind' = blind /\ client'[c].state = "new"
        /\ \A d \in Clients \ {c} : client'[d] = client[d]
    BY <1>4, ConstructStep DEF CallInv
  <2>2. \A d \in Clients : Within(d)'
    BY <1>1, <2>1 DEF Within
  <2> QED
    BY <1>1, <2>2, WithinSame
<1>5. ASSUME NEW c \in Clients, start_run(c) PROVE BudgetUpToBlindSpot'
  <2>1. /\ call' = call /\ client[c].state = "new"
        /\ client'[c].cost <= budget_cny + blind'[c]
        /\ \A d \in Clients \ {c} : client'[d] = client[d] /\ blind'[d] = blind[d]
    BY <1>5, StartStep DEF CallInv
  <2>2. Count(call, c, Ahead) = 0 /\ Sum(call, c, {"add"}) = 0 /\ estimate * 0 = 0
    BY <2>1, DownCounts, Products, 0 \in Nat DEF CallInv, Ahead, Held
  <2>3. client'[c].cost \in Nat
    BY <1>1 DEF CallInv, TypeOK, ClientStates
  <2>4. \A d \in Clients \ {c} : Within(d)'
    BY <1>1, <2>1 DEF Within
  <2>5. Within(c)'
    BY <2>1, <2>2, <2>3 DEF Within
  <2> QED
    BY <1>1, <2>4, <2>5, WithinSame
<1>6. ASSUME NEW c \in Clients, Kill(c) PROVE BudgetUpToBlindSpot'
  <2>1. /\ client' = [client EXCEPT ![c] = Down] /\ blind' = blind
        /\ \A t \in Callers : call'[t] = IF ClientOf[t] = c THEN Idle ELSE call[t]
    BY <1>6, KillStep DEF CallInv
  <2>2. client'[c].state # "up" /\ \A d \in Clients \ {c} : client'[d] = client[d]
    BY <2>1 DEF CallInv, TypeOK, Down
  <2>3. \A d \in Clients \ {c} : /\ Count(call', d, Ahead) = Count(call, d, Ahead)
                                 /\ Sum(call', d, {"add"}) = Sum(call, d, {"add"})
    BY <2>1, SameCounted
  <2>4. \A d \in Clients : Within(d)'
    BY <1>1, <2>1, <2>2, <2>3 DEF Within
  <2> QED
    BY <1>1, <2>4, WithinSame
<1> QED
  BY <1>2, <1>3, <1>4, <1>5, <1>6, CallInvNext

(* What a run is charged, has reserved and is about to be charged exceeds  *)
(* its budget by no more than the last admission could not see, calls      *)
(* released but not yet charged (llm/client.py:630-634), and what answers  *)
(* since then cost above their estimate.                                   *)
THEOREM BudgetHeld == Spec => []BudgetUpToBlindSpot
<1>1. Init => CallInv /\ PendingIsOwed /\ BudgetUpToBlindSpot
  BY CallInvInit DEF Init, PendingIsOwed, BudgetUpToBlindSpot, Down
<1>2. Spec => [](CallInv /\ PendingIsOwed /\ BudgetUpToBlindSpot)
  BY <1>1, WithinNext, PTL DEF Spec
<1> QED
  BY <1>2, PTL

---------------------------------------------------------------------------
(* The accounts and the ledger.  An account must leave room for the        *)
(* answers whose row is written and that are not charged yet, and the      *)
(* index of a running client for those whose row is not in it yet.         *)

Written == {"index", "replace", "release", "add", "charge"}

Covered(c) ==
  /\ client[c].state = "up" =>
       /\ client[c].valid
       /\ client[c].index[c] + Sum(call, c, {"index"}) <= disk.costs[c]
       /\ client[c].cost + Sum(call, c, Written) <= disk.costs[c]
  /\ \A r \in Clients : client[c].index[r] <= disk.costs[r]

FilesCovered ==
  \A c \in Clients : disk.index.costs[c] <= disk.costs[c] /\ disk.tmp.costs[c] <= disk.costs[c]

LedgerInv == FilesCovered /\ \A c \in Clients : Covered(c)

LEMMA LedgerTyped ==
  ASSUME TypeOK, NEW c \in Clients
  PROVE  /\ disk.costs \in [Clients -> Nat] /\ disk.costs[c] \in Nat
         /\ client[c].cost \in Nat /\ client[c].index \in [Clients -> Nat]
         /\ \A r \in Clients : client[c].index[r] \in Nat
         /\ disk.index.costs \in [Clients -> Nat] /\ disk.tmp.costs \in [Clients -> Nat]
BY DEF TypeOK, ClientStates, IndexFiles

LEMMA LedgerCovers == CallInv /\ LedgerInv => NeverOvercharged
<1> SUFFICES ASSUME CallInv, LedgerInv, NEW c \in Clients, client[c].state = "up"
             PROVE  client[c].cost <= disk.costs[c]
  BY DEF LedgerInv, FilesCovered, Covered, NeverOvercharged
<1> DEFINE s == Sum(call, c, Written)
<1>1. s \in Nat /\ client[c].cost \in Nat /\ disk.costs[c] \in Nat
  BY CountsTyped, LedgerTyped DEF CallInv, TypeOK
<1>2. client[c].cost + s <= disk.costs[c]
  BY DEF LedgerInv, Covered
<1> HIDE DEF s
<1> QED
  BY <1>1, <1>2

(* The ledger only grows, and what a step puts into a file is an index.    *)
LEMMA FilesNext ==
  ASSUME CallInv, CallInv', LedgerInv,
         \A c \in Clients : disk.costs[c] <= disk'.costs[c],
         \A c \in Clients : \/ disk'.index.costs[c] = disk.index.costs[c]
                           \/ disk'.index.costs[c] <= disk.costs[c],
         \A c \in Clients : \/ disk'.tmp.costs[c] = disk.tmp.costs[c]
                           \/ disk'.tmp.costs[c] <= disk.costs[c]
  PROVE  FilesCovered'
<1> SUFFICES ASSUME NEW c \in Clients
             PROVE  disk'.index.costs[c] <= disk'.costs[c] /\ disk'.tmp.costs[c] <= disk'.costs[c]
  BY DEF FilesCovered
<1>1. /\ disk.costs[c] \in Nat /\ disk'.costs[c] \in Nat
      /\ disk.index.costs[c] \in Nat /\ disk'.index.costs[c] \in Nat
      /\ disk.tmp.costs[c] \in Nat /\ disk'.tmp.costs[c] \in Nat
  BY DEF CallInv, TypeOK, IndexFiles
<1>2. disk.index.costs[c] <= disk.costs[c] /\ disk.tmp.costs[c] <= disk.costs[c]
  BY DEF LedgerInv, FilesCovered
<1> QED
  BY <1>1, <1>2

LEMMA CoveredOthers ==
  ASSUME CallInv, CallInv', LedgerInv, NEW d \in Clients, client'[d] = client[d],
         Sum(call', d, {"index"}) = Sum(call, d, {"index"}),
         Sum(call', d, Written) = Sum(call, d, Written),
         \A c \in Clients : disk.costs[c] <= disk'.costs[c]
  PROVE  Covered(d)'
<1> DEFINE s == Sum(call, d, {"index"})
           w == Sum(call, d, Written)
<1>1. s \in Nat /\ w \in Nat
  BY CountsTyped DEF CallInv, TypeOK
<1>2. /\ \A r \in Clients : /\ disk.costs[r] \in Nat /\ disk'.costs[r] \in Nat
                            /\ client[d].index[r] \in Nat
      /\ client[d].cost \in Nat
  BY DEF CallInv, TypeOK, ClientStates
<1>3. /\ client[d].state = "up" =>
           /\ client[d].valid /\ client[d].index[d] + s <= disk.costs[d]
           /\ client[d].cost + w <= disk.costs[d]
      /\ \A r \in Clients : client[d].index[r] <= disk.costs[r]
  BY DEF LedgerInv, Covered
<1> SUFFICES /\ client'[d].state = "up" =>
                  /\ client'[d].valid /\ client'[d].index[d] + s <= disk'.costs[d]
                  /\ client'[d].cost + w <= disk'.costs[d]
             /\ \A r \in Clients : client'[d].index[r] <= disk'.costs[r]
  BY DEF Covered
<1> HIDE DEF s, w
<1> QED
  BY <1>1, <1>2, <1>3

LEMMA WorkSumOthers ==
  ASSUME TypeOK, NEW t \in Callers, NEW place, NEW cost, Working(t, place, cost), NEW P,
         NEW d, d # ClientOf[t]
  PROVE  Sum(call', d, P) = Sum(call, d, P)
BY MovesCount DEF Working

LEMMA WorkSumOwn ==
  ASSUME TypeOK, NEW t \in Callers, NEW place, NEW cost, Working(t, place, cost), NEW P
  PROVE  Sum(call', ClientOf[t], P) =
           Sum(call, ClientOf[t], P) - (IF call[t].at \in P THEN call[t].cost ELSE 0)
                                     + (IF place \in P THEN cost ELSE 0)
BY WorkCounts

LEMMA LedgerWorks ==
  ASSUME CallInv, CallInv', LedgerInv, NEW t \in Callers, Effect(t, ClientOf[t])
  PROVE  LedgerInv'
<1> DEFINE c == ClientOf[t]
           s == Sum(call, c, {"index"})
           w == Sum(call, c, Written)
           i == Sum(call', c, {"index"})
           r == Sum(call', c, Written)
           x == call[t].cost
<1>1. PICK place, cost : Working(t, place, cost)
  BY EffectWorks
<1>2. /\ TypeOK /\ c \in Clients /\ x \in Nat /\ client[c].state = "up"
      /\ client[c].cost \in Nat /\ Zero \in [Clients -> Nat]
      /\ disk.costs \in [Clients -> Nat] /\ disk.index.costs \in [Clients -> Nat]
      /\ disk.tmp.costs \in [Clients -> Nat] /\ client[c].index \in [Clients -> Nat]
  BY <1>1, CallTyped, OverrunTyped, LedgerTyped, DownTyped DEF CallInv, Working
<1>3. s \in Nat /\ w \in Nat /\ i \in Nat /\ r \in Nat
  BY <1>1, <1>2, WorkCounts
<1>counts. ASSUME NEW p, NEW y, Working(t, p, y)
           PROVE  /\ i = s - (IF call[t].at \in {"index"} THEN x ELSE 0)
                          + (IF p \in {"index"} THEN y ELSE 0)
                  /\ r = w - (IF call[t].at \in Written THEN x ELSE 0)
                          + (IF p \in Written THEN y ELSE 0)
  <2>typed. TypeOK
    BY <1>2
  <2>1. i = s - (IF call[t].at \in {"index"} THEN x ELSE 0) + (IF p \in {"index"} THEN y ELSE 0)
    BY <2>typed, <1>counts, WorkSumOwn, ZenonT(60)
  <2>2. r = w - (IF call[t].at \in Written THEN x ELSE 0) + (IF p \in Written THEN y ELSE 0)
    BY <2>typed, <1>counts, WorkSumOwn, ZenonT(60)
  <2> QED
    BY <2>1, <2>2
<1>4. /\ client[c].valid /\ client[c].index[c] + s <= disk.costs[c]
      /\ client[c].cost + w <= disk.costs[c]
      /\ \A d \in Clients : client[c].index[d] <= disk.costs[d]
  BY <1>2 DEF LedgerInv, Covered
<1> HIDE DEF s, w, i, r, x
(* What is left to show of the files and of the client itself. *)
<1>5. ASSUME \A d \in Clients : disk.costs[d] <= disk'.costs[d], FilesCovered',
             client'[c].valid, client'[c].index[c] + i <= disk'.costs[c],
             client'[c].cost + r <= disk'.costs[c],
             \A d \in Clients : client'[c].index[d] <= disk'.costs[d]
      PROVE  LedgerInv'
  <2>1. Covered(c)'
    BY <1>5 DEF Covered, i, r
  <2>2. ASSUME NEW d \in Clients, d # c PROVE Covered(d)'
    <3>1. client'[d] = client[d]
      BY <1>1, <2>2 DEF Working
    <3>2. Sum(call', d, {"index"}) = Sum(call, d, {"index"})
          /\ Sum(call', d, Written) = Sum(call, d, Written)
      BY <1>1, <1>2, <2>2, WorkSumOthers
    <3> QED
      BY <1>5, <3>1, <3>2, CoveredOthers
  <2> QED
    BY <1>5, <2>1, <2>2 DEF LedgerInv
<1>6. CASE Records(t, c)
  <2>1. /\ Working(t, "index", x) /\ call[t].at = "append"
        /\ disk' = Appended(disk, c, x)
        /\ client'[c].cost = client[c].cost /\ client'[c].index = client[c].index
        /\ client'[c].valid = client[c].valid
    BY <1>6 DEF Records, Accounts, x
  <2>2. i = s + x /\ r = w + x
    BY <1>2, <1>3, <2>1, <1>counts DEF Written
  <2>3. /\ disk'.costs[c] = disk.costs[c] + x
        /\ \A d \in Clients \ {c} : disk'.costs[d] = disk.costs[d]
        /\ disk'.index = disk.index /\ disk'.tmp = disk.tmp
    BY <1>2, <2>1, LedgerAfter
  <2>4. \A d \in Clients : disk.costs[d] <= disk'.costs[d]
    BY <1>2, <2>3
  <2>5. FilesCovered'
    BY <2>3, <2>4, FilesNext
  <2>6. \A d \in Clients : client'[c].index[d] <= disk'.costs[d]
    <3>1. \A d \in Clients : client[c].index[d] \in Nat /\ disk.costs[d] \in Nat
      BY <1>2
    <3> QED
      BY <1>2, <1>4, <2>1, <2>3, <3>1
  <2>7. /\ client'[c].index[c] + i <= disk'.costs[c] /\ client'[c].cost + r <= disk'.costs[c]
        /\ client'[c].valid
    <3>1. client[c].index[c] \in Nat /\ disk.costs[c] \in Nat
      BY <1>2
    <3> QED
      BY <1>2, <1>3, <1>4, <2>1, <2>2, <2>3, <3>1
  <2> QED
    BY <1>5, <2>4, <2>5, <2>6, <2>7
<1>7. CASE Saves(t, c)
  <2> DEFINE index == UpdatedIndex(c, x)
  <2>1. /\ Working(t, "replace", x) /\ call[t].at = "index"
        /\ disk' = TmpWritten(disk, index)
        /\ client'[c].cost = client[c].cost /\ client'[c].index = index
        /\ client'[c].valid = TRUE
    BY <1>7 DEF Saves, Accounts, x
  <2>2. i = s - x /\ r = w
    BY <1>2, <1>3, <2>1, <1>counts DEF Written
  <2>3. index = [client[c].index EXCEPT ![c] = @ + x]
    BY <1>4 DEF UpdatedIndex
  <2>4. /\ index[c] = client[c].index[c] + x /\ index \in [Clients -> Nat]
        /\ \A d \in Clients \ {c} : index[d] = client[c].index[d]
    BY <1>2, <2>3
  <2> HIDE DEF index
  <2>5. disk'.costs = disk.costs /\ disk'.index = disk.index /\ disk'.tmp.costs = index
    BY <1>2, <2>1, <2>4, LedgerAfter
  <2>6. \A d \in Clients : client[c].index[d] \in Nat /\ disk.costs[d] \in Nat
    BY <1>2
  <2>7. index[c] + i <= disk.costs[c]
    BY <1>2, <1>3, <1>4, <2>2, <2>4, <2>6
  <2>8. \A d \in Clients : index[d] <= disk.costs[d]
    <3>1. index[c] <= disk.costs[c]
      BY <1>2, <1>3, <2>4, <2>6, <2>7
    <3> QED
      BY <1>4, <2>4, <3>1
  <2>9. FilesCovered'
    <3>1. \A d \in Clients : disk.costs[d] <= disk'.costs[d]
      BY <2>5, <2>6
    <3> QED
      BY <2>5, <2>8, <3>1, FilesNext
  <2> QED
    BY <1>4, <1>5, <2>1, <2>2, <2>5, <2>6, <2>7, <2>8, <2>9
<1>8. ASSUME disk'.costs = disk.costs, FilesCovered', client'[c].valid = client[c].valid,
             client'[c].index = client[c].index, i <= s, client'[c].cost + r <= client[c].cost + w
      PROVE  LedgerInv'
  <2>1. \A d \in Clients : client[c].index[d] \in Nat /\ disk.costs[d] \in Nat
    BY <1>2
  <2>2. client'[c].index[c] + i <= disk'.costs[c]
    BY <1>2, <1>3, <1>4, <1>8, <2>1
  <2>3. client'[c].cost \in Nat
    BY <1>2 DEF CallInv, TypeOK, ClientStates
  <2>4. client'[c].cost + r <= disk'.costs[c]
    BY <1>2, <1>3, <1>4, <1>8, <2>1, <2>3
  <2> QED
    BY <1>4, <1>5, <1>8, <2>1, <2>2, <2>4
<1>9. CASE Moved(t, c)
  <2>1. PICK p \in {"unwind", "charge", "release"} : Working(t, p, x)
    BY <1>9 DEF Moved, x
  <2>2. /\ call[t].at = "replace" /\ (disk' = disk \/ disk' = Replaced(disk))
        /\ client'[c].cost = client[c].cost /\ client'[c].index = client[c].index
        /\ client'[c].valid = client[c].valid
    BY <1>9 DEF Moved, Accounts
  <2>3. i = s /\ r <= w
    <3>1. p # "index" /\ call[t].at # "index" /\ call[t].at \in Written
      BY <2>2 DEF Written
    <3>2. r = w - x + (IF p \in Written THEN x ELSE 0)
      BY <2>1, <3>1, <1>counts
    <3>3. i = s - 0 + 0
      BY <2>1, <3>1, <1>counts
    <3> QED
      BY <1>2, <1>3, <3>2, <3>3
  <2>4. /\ disk'.costs = disk.costs
        /\ \/ disk' = disk
           \/ disk'.index.costs = disk.tmp.costs /\ disk'.tmp.costs = Zero
    BY <1>2, <2>2, LedgerAfter, 0 \in Nat
  <2>5. \A d \in Clients : disk.costs[d] \in Nat /\ Zero[d] = 0
    BY <1>2 DEF Zero
  <2>6. \A d \in Clients : disk.index.costs[d] <= disk.costs[d] /\ disk.tmp.costs[d] <= disk.costs[d]
    BY DEF LedgerInv, FilesCovered
  <2>7. FilesCovered'
    <3>1. \A d \in Clients : disk.costs[d] <= disk'.costs[d]
      BY <2>4, <2>5
    <3> QED
      BY <2>4, <2>5, <2>6, <3>1, FilesNext
  <2> QED
    BY <1>2, <1>3, <1>8, <2>2, <2>3, <2>4, <2>7
<1>10. CASE \/ Refuses(t, c) \/ AdmitsCall(t, c) \/ GetsAnswer(t, c) \/ Fails(t, c)
            \/ Releases(t, c) \/ Unwinds(t, c)
  <2>1. /\ disk' = disk
        /\ client'[c].cost = client[c].cost /\ client'[c].index = client[c].index
        /\ client'[c].valid = client[c].valid
    BY <1>10 DEF Refuses, AdmitsCall, GetsAnswer, Fails, Releases, Unwinds, Accounts
  <2>2. PICK p, y : /\ Working(t, p, y) /\ p # "index" /\ call[t].at # "index"
                    /\ \/ p \notin Written /\ call[t].at \notin Written
                       \/ p \in Written /\ call[t].at \in Written /\ y = x
    BY <1>10 DEF Refuses, AdmitsCall, GetsAnswer, Fails, Releases, Unwinds, Written, x
  <2>3. i = s /\ r = w
    BY <1>2, <1>3, <2>2, <1>counts
  <2>4. FilesCovered'
    BY <2>1 DEF LedgerInv, FilesCovered
  <2> QED
    BY <1>2, <1>3, <1>8, <2>1, <2>3, <2>4
<1>11. CASE Adds(t, c) \/ Charges(t, c)
  <2>1. /\ disk' = disk
        /\ client'[c].cost = client[c].cost + x /\ client'[c].index = client[c].index
        /\ client'[c].valid = client[c].valid
    BY <1>11 DEF Adds, Charges, Accounts, x
  <2>2. PICK p, y : /\ Working(t, p, y) /\ p # "index" /\ call[t].at # "index"
                    /\ p \notin Written /\ call[t].at \in Written
    BY <1>11 DEF Adds, Charges, Written
  <2>3. i = s /\ r = w - x
    BY <1>2, <1>3, <2>2, <1>counts
  <2>4. FilesCovered'
    BY <2>1 DEF LedgerInv, FilesCovered
  <2> QED
    BY <1>2, <1>3, <1>8, <2>1, <2>3, <2>4
<1> QED
  BY <1>6, <1>7, <1>9, <1>10, <1>11 DEF Effect

LEMMA LedgerNext == CallInv /\ LedgerInv /\ [Next]_vars => CallInv' /\ LedgerInv'
<1> SUFFICES ASSUME CallInv, LedgerInv, [Next]_vars PROVE LedgerInv'
  BY CallInvNext
<1>1. CallInv' /\ TypeOK
  BY CallInvNext DEF CallInv
<1>2. CASE UNCHANGED vars
  BY <1>2 DEF vars, LedgerInv, FilesCovered, Covered, Sum, At
<1>3. ASSUME NEW c \in Clients, NEW d \in Clients, d # c, client'[d] = client[d],
             \A t \in Callers : ClientOf[t] = d => call'[t] = call[t],
             disk'.costs = disk.costs
      PROVE  Covered(d)'
  <2>1. Sum(call', d, {"index"}) = Sum(call, d, {"index"})
        /\ Sum(call', d, Written) = Sum(call, d, Written)
    BY <1>3, SameCounted
  <2>2. \A r \in Clients : disk.costs[r] <= disk'.costs[r]
    BY <1>1, <1>3, LedgerTyped
  <2> QED
    BY <1>1, <1>3, <2>1, <2>2, CoveredOthers
<1>4. ASSUME NEW c \in Clients, Construct(c) PROVE LedgerInv'
  <2>1. /\ call' = call /\ disk' = disk /\ client'[c].state = "new"
        /\ client'[c].index = disk.index.costs \/ client'[c].index = Zero
        /\ \A d \in Clients \ {c} : client'[d] = client[d]
    BY <1>4, ConstructStep DEF CallInv
  <2>2. FilesCovered'
    BY <2>1 DEF LedgerInv, FilesCovered
  <2>3. \A d \in Clients : disk.costs[d] \in Nat /\ Zero[d] = 0 /\ disk.index.costs[d] <= disk.costs[d]
    BY <1>1, LedgerTyped DEF Zero, LedgerInv, FilesCovered
  <2>4. Covered(c)'
    BY <2>1, <2>3 DEF Covered
  <2>5. \A d \in Clients : Covered(d)'
    BY <1>3, <2>1, <2>4
  <2> QED
    BY <2>2, <2>5 DEF LedgerInv
<1>5. ASSUME NEW c \in Clients, start_run(c) PROVE LedgerInv'
  <2>1. /\ call' = call /\ client[c].state = "new"
        /\ client'[c].valid = TRUE /\ client'[c].cost = client'[c].index[c]
        /\ \/ client'[c].index = client[c].index /\ disk' = disk
           \/ client'[c].index = disk.costs /\ disk' = Replaced(TmpWritten(disk, disk.costs))
        /\ \A d \in Clients \ {c} : client'[d] = client[d]
    BY <1>5, StartStep DEF CallInv
  <2>2. /\ disk.costs \in [Clients -> Nat] /\ client[c].index \in [Clients -> Nat]
        /\ \A d \in Clients : disk.costs[d] \in Nat /\ Zero[d] = 0
    BY <1>1, LedgerTyped DEF Zero
  <2>3. /\ Replaced(TmpWritten(disk, disk.costs)).costs = disk.costs
        /\ Replaced(TmpWritten(disk, disk.costs)).index.costs = disk.costs
        /\ Replaced(TmpWritten(disk, disk.costs)).tmp.costs = Zero
    BY <1>1, <2>2, LedgerAfter, 0 \in Nat
  <2>4. /\ disk'.costs = disk.costs
        /\ \/ disk' = disk
           \/ disk'.index.costs = disk.costs /\ disk'.tmp.costs = Zero
    BY <2>1, <2>3
  <2>5. FilesCovered'
    BY <2>2, <2>4 DEF LedgerInv, FilesCovered
  <2>6. \A d \in Clients : client'[c].index[d] <= disk.costs[d]
    BY <2>1, <2>2 DEF LedgerInv, Covered
  <2>7. Sum(call, c, {"index"}) = 0 /\ Sum(call, c, Written) = 0
    BY <2>1, DownCounts DEF CallInv, Written
  <2>8. client'[c].cost \in Nat
    BY <1>1, LedgerTyped DEF CallInv, TypeOK, ClientStates
  <2>9. Covered(c)'
    BY <2>1, <2>2, <2>4, <2>6, <2>7, <2>8 DEF Covered
  <2>10. \A d \in Clients : Covered(d)'
    BY <1>3, <2>1, <2>4, <2>9
  <2> QED
    BY <2>5, <2>10 DEF LedgerInv
<1>6. ASSUME NEW c \in Clients, Kill(c) PROVE LedgerInv'
  <2>1. /\ client' = [client EXCEPT ![c] = Down] /\ disk' = disk
        /\ \A t \in Callers : call'[t] = IF ClientOf[t] = c THEN Idle ELSE call[t]
    BY <1>6, KillStep DEF CallInv
  <2>2. /\ client'[c] = Down /\ \A d \in Clients \ {c} : client'[d] = client[d]
    BY <1>1, <2>1 DEF TypeOK
  <2>3. \A d \in Clients : disk.costs[d] \in Nat /\ Zero[d] = 0
    BY <1>1, LedgerTyped DEF Zero
  <2>4. Covered(c)'
    BY <2>1, <2>2, <2>3 DEF Covered, Down
  <2>5. \A d \in Clients : Covered(d)'
    BY <1>3, <2>1, <2>2, <2>4
  <2> QED
    BY <2>1, <2>5 DEF LedgerInv, FilesCovered
<1> QED
  BY <1>2, <1>3, <1>4, <1>5, <1>6, CallInvNext, LedgerWorks

(* No index, in memory or on disk, and no run's account holds money that   *)
(* is not in the ledger, although each client keeps an index of its own    *)
(* and rows are written outside its lock (llm/client.py:1568-1636).        *)
THEOREM LedgerCoversAccounts == Spec => []NeverOvercharged
<1>1. Init => CallInv /\ LedgerInv
  BY CallInvInit DEF Init, LedgerInv, FilesCovered, Covered, Down, EmptyDisk, NoIndex, Zero
<1>2. Spec => [](CallInv /\ LedgerInv)
  BY <1>1, LedgerNext, PTL DEF Spec
<1> QED
  BY <1>2, LedgerCovers, PTL
=============================================================================
