----------------------------- MODULE LLMClient -----------------------------
(***************************************************************************)
(* LLMClient of llm/client.py: calls that are reserved against a run's     *)
(* budget, answered by a worker process per thread, recorded in a ledger   *)
(* and charged.  Several clients share one ledger and its index: the       *)
(* engine's own, the one rag/factory.py opens for embedding and rerank in  *)
(* the same process, and those of other processes.  A client charges one   *)
(* run, which keeps the client's name when a later object resumes it.      *)
(***************************************************************************)
EXTENDS Integers, FiniteSets

CONSTANTS
  Clients,       \* the runs, each charged by an LLMClient
  Callers,       \* threads that make calls
  External,      \* those that make embedding and rerank calls (rag/retrieval.py)
  ClientOf,      \* the client of each caller
  None,          \* "no caller"
  budget_cny,    \* budget of each client's run
  estimate,      \* _estimate_max_cost_cny of a call, and an external call's estimate
  Costs,         \* what an answer may cost
  max_attempts,  \* (models of the role) * (max_retries + 1)
  MaxCalls,      \* bound: calls of each caller
  MaxStarts      \* bound: times each client's run is started

Chat == Callers \ External

ASSUME ClientAssumption ==
  /\ IsFiniteSet(Callers) /\ External \subseteq Callers /\ None \notin Callers
  /\ ClientOf \in [Callers -> Clients]
  /\ budget_cny \in Nat /\ estimate \in Nat \ {0} /\ Costs \subseteq Nat
  /\ max_attempts \in Nat \ {0}
  /\ MaxCalls \in [Callers -> Nat] /\ MaxStarts \in [Clients -> Nat]

VARIABLES
  client,    \* each client's memory: costs, reservations, index, _cost_lock
  call,      \* where each caller's call is
  owed,      \* answers each caller's worker process has still to deliver
  disk,      \* the ledger, its index and the index's temporary file
  calls,     \* bound: calls made by each caller
  starts,    \* bound: starts of each client
  paid,      \* history: what the usable answers of each run cost
  blind      \* history: what the last admission of each client could not see

memory == <<client, disk>>
bounds == <<calls, starts>>
history == <<paid, blind>>
vars == <<client, call, owed, disk, calls, starts, paid, blind>>

---------------------------------------------------------------------------
(* The ledger and its index.  An index file names the size and the time of *)
(* the ledger it was saved for; every row changes both, so the number of   *)
(* rows stands for them.                                                   *)

Zero == [c \in Clients |-> 0]
NoIndex == [rows |-> -1, costs |-> Zero]
EmptyDisk == [costs |-> Zero, rows |-> 0, index |-> [rows |-> 0, costs |-> Zero], tmp |-> NoIndex]

IndexIsCurrent(d) == d.index.rows = d.rows

Appended(d, c, cost) == [d EXCEPT !.costs[c] = @ + cost, !.rows = @ + 1]

TmpWritten(d, costs) == [d EXCEPT !.tmp = [rows |-> d.rows, costs |-> costs]]

Replaced(d) == [d EXCEPT !.index = d.tmp, !.tmp = NoIndex]

(* Mutant: the rows are summed on top of the index that was thrown away.   *)
RebuiltOnTop == [c \in Clients |-> disk.index.costs[c] + disk.costs[c]]

Rebuilt == disk.costs

UpdatedIndex(c, cost) ==
  IF client[c].valid THEN [client[c].index EXCEPT ![c] = @ + cost] ELSE Rebuilt

---------------------------------------------------------------------------
(* Clients. *)

Down == [state |-> "down", cost |-> 0, pending |-> 0, index |-> Zero, valid |-> FALSE,
         lock |-> None]

Idle == [at |-> "idle", stage |-> "first", attempt |-> 0, cost |-> 0, next |-> "end"]

Init ==
  /\ client = [c \in Clients |-> Down]
  /\ call = [t \in Callers |-> Idle]
  /\ owed = [t \in Callers |-> 0]
  /\ disk = EmptyDisk
  /\ calls = [t \in Callers |-> 0]
  /\ starts = [c \in Clients |-> 0]
  /\ paid = Zero
  /\ blind = Zero

CallersOf(c) == {t \in Callers : ClientOf[t] = c}
My(t) == client[ClientOf[t]]
Unlocked(t) == My(t).lock = None
GoTo(t, place) == call' = [call EXCEPT ![t].at = place]

(* What the answers of some callers cost together, counted unit by unit.   *)
CostOf(states, S) == Cardinality(UNION {{t} \X (1..states[t].cost) : t \in S})

(* Reservations held, those of them whose answer is not charged yet, and   *)
(* answers released but not yet charged.                                   *)
Holders(c) == {t \in CallersOf(c) : call[t].at \notin {"idle", "reserve", "add"}}
Uncharged(c) == {t \in Holders(c) : call[t].at # "settle"}
Released(c) == CostOf(call, {t \in CallersOf(c) : call[t].at = "add"})

(* A new LLMClient object: it takes the index file if the file is for the  *)
(* ledger as it is now.                                                    *)
Construct(c) ==
  /\ client[c].state = "down" /\ starts[c] < MaxStarts[c]
  /\ client' = [client EXCEPT ![c] = [Down EXCEPT !.state = "new",
       !.valid = IndexIsCurrent(disk),
       !.index = IF IndexIsCurrent(disk) THEN disk.index.costs ELSE Zero]]
  /\ starts' = [starts EXCEPT ![c] = @ + 1]
  /\ UNCHANGED <<call, owed, disk, calls, paid, blind>>

(* start_run: an index that was not taken is rebuilt and saved first.  No  *)
(* caller is at work yet, and the save is one step here; the steps of a    *)
(* save are told apart in SaveIndex and ReplaceIndex.                      *)
start_run(c) ==
  LET index == IF client[c].valid THEN client[c].index ELSE Rebuilt IN
  /\ client[c].state = "new"
  /\ client' = [client EXCEPT ![c].state = "up", ![c].cost = index[c], ![c].pending = 0,
                              ![c].index = index, ![c].valid = TRUE]
  /\ disk' = IF client[c].valid THEN disk ELSE Replaced(TmpWritten(disk, index))
  /\ blind' = [blind EXCEPT ![c] = IF index[c] > budget_cny THEN index[c] - budget_cny ELSE 0]
  /\ UNCHANGED <<call, owed, bounds, paid>>

(* The process dies, and its worker processes, which are daemons, with it; *)
(* an answer that was not yet recorded is lost.                            *)
Kill(c) ==
  /\ client[c].state # "down" /\ starts[c] < MaxStarts[c]
  /\ client' = [client EXCEPT ![c] = Down]
  /\ call' = [t \in Callers |-> IF ClientOf[t] = c THEN Idle ELSE call[t]]
  /\ owed' = [t \in Callers |-> IF ClientOf[t] = c THEN 0 ELSE owed[t]]
  /\ paid' = [paid EXCEPT ![c] = disk.costs[c]]
  /\ UNCHANGED <<disk, bounds, blind>>

---------------------------------------------------------------------------
(* A call.  complete and reserve_external_call look at the costs before    *)
(* they reserve, and a structured call looks again between its requests;   *)
(* costs only grow, so the reservation refuses whatever a look refuses.    *)

(* Mutant: the reservations of the calls in flight are not counted. *)
AdmitsAlone(c) == client[c].cost + estimate <= budget_cny

Admits(c) == client[c].cost + client[c].pending + estimate <= budget_cny

Return(t) == call' = [call EXCEPT ![t] = Idle]

Asking(t) == IF t \in External THEN 0 ELSE 1

(* _reserve_budget, and the first request to the provider: a chat request  *)
(* goes to the thread's worker process.                                    *)
reserve_budget(t) ==
  LET c == ClientOf[t] IN
  /\ Unlocked(t)
  /\ IF Admits(c)
     THEN /\ client' = [client EXCEPT ![c].pending = @ + estimate]
          /\ call' = [call EXCEPT ![t].at = "calling", ![t].attempt = 1]
          /\ owed' = [owed EXCEPT ![t] = @ + Asking(t)]
          /\ blind' = [blind EXCEPT ![c] = Released(c)]
     ELSE /\ Return(t)
          /\ UNCHANGED <<client, owed, blind>>
  /\ UNCHANGED <<disk, starts, paid>>

Begin(t) ==
  /\ call[t].at = "idle" /\ My(t).state = "up" /\ calls[t] < MaxCalls[t]
  /\ calls' = [calls EXCEPT ![t] = @ + 1]
  /\ reserve_budget(t)

(* The second request of a structured call. *)
AskAgain(t) ==
  /\ call[t].at = "reserve"
  /\ reserve_budget(t)
  /\ UNCHANGED calls

Stages == {"first", "no_reasoning", "repair"}
Replies(t) == IF t \in External THEN {"ok"} ELSE {"ok", "cut", "invalid", "exhausted"}

(* What complete does after an answer is charged: it asks again without    *)
(* reasoning after one that spent the cap on it, has an invalid one        *)
(* repaired once, and ends with any other, returning what parses or whose  *)
(* complete prefix does and raising on the rest.                           *)
After(stage, reply) ==
  CASE reply = "exhausted" /\ stage = "first" -> "no_reasoning"
    [] reply = "invalid" /\ stage # "repair" -> "repair"
    [] OTHER -> "end"

(* Mutant: an invalid repair is raised before its row is written. *)
AnsweredUnlessBadRepair(t, reply) ==
  IF call[t].stage = "repair" /\ reply # "ok" THEN "unwind" ELSE "append"

Answered(t, reply) == "append"

Answer(t, cost, reply) ==
  /\ call[t].at = "calling" /\ reply \in Replies(t)
  /\ call' = [call EXCEPT ![t] = [Idle EXCEPT !.at = Answered(t, reply), !.cost = cost,
                                               !.next = After(call[t].stage, reply)]]
  /\ owed' = [owed EXCEPT ![t] = @ - Asking(t)]
  /\ paid' = [paid EXCEPT ![ClientOf[t]] = @ + cost]
  /\ UNCHANGED <<memory, bounds, blind>>

(* Mutant: the first attempt is not counted. *)
TriesOnceMore(t) == t \in Chat /\ call[t].attempt <= max_attempts

TriesAgain(t) == t \in Chat /\ call[t].attempt < max_attempts

(* An attempt fails: with another one left it is made at once, the backoff *)
(* being untimed here.                                                     *)
AttemptFails(t, left) ==
  /\ call[t].at = "calling"
  /\ IF TriesAgain(t)
     THEN /\ call' = [call EXCEPT ![t].attempt = @ + 1]
          /\ owed' = [owed EXCEPT ![t] = left + Asking(t)]
     ELSE /\ call' = [call EXCEPT ![t] = [Idle EXCEPT !.at = "unwind"]]
          /\ owed' = [owed EXCEPT ![t] = left]
  /\ UNCHANGED <<memory, bounds, history>>

Error(t) == AttemptFails(t, owed[t] - Asking(t))

(* Mutant: the overdue worker is kept. *)
OwedByKeptWorker(t) == owed[t]

(* The worker process is terminated and dropped, and its answer with it.   *)
OwedAfterTimeout(t) == 0

Timeout(t) == AttemptFails(t, OwedAfterTimeout(t))

---------------------------------------------------------------------------
(* The accounts. *)

(* The row is appended without the lock. *)
append_ledger_row(t) ==
  /\ call[t].at = "append"
  /\ disk' = Appended(disk, ClientOf[t], call[t].cost)
  /\ GoTo(t, "index")
  /\ UNCHANGED <<client, owed, bounds, history>>

(* The index is saved under the lock of this client only: written to the   *)
(* temporary file, which every client on the ledger names alike, ...       *)
SaveIndex(t) ==
  LET index == UpdatedIndex(ClientOf[t], call[t].cost) IN
  /\ call[t].at = "index" /\ Unlocked(t)
  /\ client' = [client EXCEPT ![ClientOf[t]].lock = t, ![ClientOf[t]].index = index,
                              ![ClientOf[t]].valid = TRUE]
  /\ disk' = TmpWritten(disk, index)
  /\ GoTo(t, "replace")
  /\ UNCHANGED <<owed, bounds, history>>

(* ... and moved into place, which fails when another client has moved it. *)
(* A chat call then releases and charges; an external one the other way.   *)
ReplaceIndex(t) ==
  /\ call[t].at = "replace"
  /\ client' = [client EXCEPT ![ClientOf[t]].lock = None]
  /\ IF disk.tmp = NoIndex
     THEN GoTo(t, "unwind") /\ UNCHANGED disk
     ELSE disk' = Replaced(disk) /\ GoTo(t, IF t \in External THEN "charge" ELSE "release")
  /\ UNCHANGED <<owed, bounds, history>>

(* _release_reservation stops at zero. *)
LessReserved(c) == [client EXCEPT ![c].pending = IF @ > estimate THEN @ - estimate ELSE 0]

Overrun(t) == IF call[t].cost > estimate THEN call[t].cost - estimate ELSE 0

Release(t) ==
  /\ call[t].at = "release" /\ Unlocked(t)
  /\ client' = LessReserved(ClientOf[t])
  /\ GoTo(t, "add")
  /\ blind' = [blind EXCEPT ![ClientOf[t]] = @ + Overrun(t)]
  /\ UNCHANGED <<owed, disk, bounds, paid>>

(* _add_run_cost of a chat call, after which it ends or asks again. *)
add_run_cost(t) ==
  /\ call[t].at = "add" /\ Unlocked(t)
  /\ client' = [client EXCEPT ![ClientOf[t]].cost = @ + call[t].cost]
  /\ call' = [call EXCEPT ![t] =
       IF call[t].next \in Stages THEN [Idle EXCEPT !.at = "reserve", !.stage = call[t].next]
                                  ELSE Idle]
  /\ UNCHANGED <<owed, disk, bounds, history>>

(* settle_external_call charges under its reservation, ... *)
Charge(t) ==
  /\ call[t].at = "charge" /\ Unlocked(t)
  /\ client' = [client EXCEPT ![ClientOf[t]].cost = @ + call[t].cost]
  /\ GoTo(t, "settle")
  /\ blind' = [blind EXCEPT ![ClientOf[t]] = @ + Overrun(t)]
  /\ UNCHANGED <<owed, disk, bounds, paid>>

(* Mutant: only a failed provider call gives its reservation back. *)
UnwindsOnlyFailedRequests(t) ==
  IF call[t].cost = 0 THEN LessReserved(ClientOf[t]) ELSE client

Unwound(t) == LessReserved(ClientOf[t])

(* ... and gives it back last, as every call that fails does. *)
Unwind(t) ==
  /\ call[t].at \in {"unwind", "settle"} /\ Unlocked(t)
  /\ client' = Unwound(t)
  /\ Return(t)
  /\ UNCHANGED <<owed, disk, bounds, history>>

---------------------------------------------------------------------------
Step(t) ==
  \/ AskAgain(t)
  \/ \E cost \in Costs, reply \in {"ok", "cut", "invalid", "exhausted"} : Answer(t, cost, reply)
  \/ Error(t) \/ Timeout(t)
  \/ append_ledger_row(t) \/ SaveIndex(t) \/ ReplaceIndex(t)
  \/ Release(t) \/ add_run_cost(t) \/ Charge(t) \/ Unwind(t)

Next ==
  \/ \E c \in Clients : Construct(c) \/ start_run(c) \/ Kill(c)
  \/ \E t \in Callers : Begin(t) \/ Step(t)

Spec == Init /\ [][Next]_vars

---------------------------------------------------------------------------
(* Types of the variables. *)
IndexFiles == [rows : Int, costs : [Clients -> Nat]]
ClientStates ==
  [state : {"down", "new", "up"}, cost : Nat, pending : Nat, index : [Clients -> Nat],
   valid : BOOLEAN, lock : Callers \cup {None}]
CallStates ==
  [at : {"idle", "reserve", "calling", "append", "index", "replace", "release", "add",
         "charge", "settle", "unwind"},
   stage : Stages, attempt : 0..max_attempts, cost : Nat,
   next : {"end", "no_reasoning", "repair"}]

TypeOK ==
  /\ client \in [Clients -> ClientStates]
  /\ call \in [Callers -> CallStates]
  /\ owed \in [Callers -> Nat]
  /\ disk \in [costs : [Clients -> Nat], rows : Nat, index : IndexFiles, tmp : IndexFiles]
  /\ calls \in [Callers -> Nat] /\ starts \in [Clients -> Nat]
  /\ paid \in [Clients -> Nat] /\ blind \in [Clients -> Nat]

(* On every way out of a call, the repair, the request without reasoning   *)
(* and an index that cannot be saved included, its reservation is given    *)
(* back once: what a client has reserved is owed to the calls in flight,   *)
(* and a budget does not shrink over a run (llm/client.py:418-799).        *)
PendingIsOwed ==
  \A c \in Clients : client[c].state = "up" =>
    client[c].pending = estimate * Cardinality(Holders(c))

(* Every answer the client could use has its row in the ledger, once,      *)
(* whatever became of the call: also the cut, the invalid, the repair that *)
(* failed and the answer spent on reasoning (llm/client.py:482-673).       *)
PaidIsRecorded ==
  \A c \in Clients :
    paid[c] = disk.costs[c] + CostOf(call, {t \in CallersOf(c) : call[t].at = "append"})

(* What a run is charged, has reserved and is about to be charged exceeds  *)
(* its budget by no more than the last admission could not see, calls      *)
(* released but not yet charged (llm/client.py:630-634), and what answers  *)
(* since then cost above their estimate.                                   *)
BudgetUpToBlindSpot ==
  \A c \in Clients : client[c].state = "up" =>
    client[c].cost + estimate * Cardinality(Uncharged(c)) + Released(c)
      <= budget_cny + blind[c]

(* No index, in memory or on disk, and no run's account holds money that   *)
(* is not in the ledger, although each client keeps an index of its own    *)
(* and rows are written outside its lock (llm/client.py:1568-1636).        *)
NeverOvercharged ==
  \A c \in Clients :
    /\ client[c].state = "up" => client[c].cost <= disk.costs[c]
    /\ \A r \in Clients : client[c].index[r] <= disk.costs[r]
    /\ disk.index.costs[c] <= disk.costs[c] /\ disk.tmp.costs[c] <= disk.costs[c]

(* A thread's worker process owes it the answer of the request it made and *)
(* no other: an answer that arrives after its deadline is never read as    *)
(* the answer of the next request (llm/client.py:190-270).                 *)
AnswersAreOwn ==
  \A t \in Chat : owed[t] = IF call[t].at = "calling" THEN 1 ELSE 0
=============================================================================
