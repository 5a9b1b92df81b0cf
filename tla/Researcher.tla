----------------------------- MODULE Researcher -----------------------------
(***************************************************************************)
(* The research fan-out of one run: ResearcherAgent.research_with_budget   *)
(* in parallel branches, research_join, and the retry tasks after it, on   *)
(* the RunScope they share (SearchQuota and ExternalRequestBudget).  What  *)
(* answers a call is left to the module that extends this one: a provider, *)
(* or the recording of one.                                                *)
(***************************************************************************)
EXTENDS Integers, Sequences, FiniteSets

CONSTANTS
  Branches,            \* the sub-questions
  retry_queue,         \* the retry tasks, in order
  ByQuestion,          \* what each asks for, see Questions
  Ranked,              \* sources of a search that finds any
  max_searches,        \* SearchQuota.limit
  max_search_requests, max_fetch_requests, max_authority_requests, \* ExternalRequestBudget
  MaxRequests          \* most requests of one call of each kind: retries, redirects

Tasks == {retry_queue[i] : i \in DOMAIN retry_queue}
Threads == Branches \cup Tasks
Lanes == {"search", "fetch", "authority"}

(* A sub-question or retry task: whether rag search is on, whether it      *)
(* names a security and asks for its reported figures, the urls to         *)
(* re-check, its queries, whether these ask for a type of source, and      *)
(* max_search_calls.                                                       *)
Questions ==
  [rag : BOOLEAN, disclosure : {"none", "named", "financial"}, urls : Seq(STRING),
   queries : Seq(STRING), typed : BOOLEAN, max_search_calls : Nat]

ASSUME ResearchAssumption ==
  /\ IsFiniteSet(Branches) /\ Branches \subseteq STRING /\ retry_queue \in Seq(Tasks) /\ Branches \cap Tasks = {}
  /\ ByQuestion \in [Threads -> Questions]
  /\ \A t \in Tasks : Len(ByQuestion[t].queries) = 1
  /\ Ranked \in Nat \ {0} /\ MaxRequests \in [Lanes -> Nat \ {0}]
  /\ {max_searches, max_search_requests, max_fetch_requests, max_authority_requests} \subseteq Nat

VARIABLES
  work,     \* each branch and retry task
  scope,    \* the RunScope: requests accepted, the quota used, the last refusal
  run       \* what the engine does with the branches

NewWork(place) ==
  [at |-> place, next |-> 1, rank |-> 0, calls |-> 0, exhausted |-> FALSE, refused |-> FALSE,
   error |-> "none", hydrated |-> FALSE, seen |-> {}]

NewScope == [quota |-> 0, search |-> 0, fetch |-> 0, authority |-> 0, refusal |-> "none"]

NewRun == [phase |-> "research", joined |-> FALSE, active |-> {}, detail |-> "none"]

---------------------------------------------------------------------------
(* Calls.  A call is the tool, what it asks for and how many results: rag  *)
(* search asks for the first query, else the question, and the disclosure  *)
(* source for the security; both stand here under the name of their        *)
(* branch.  The url of a result is named by its query and rank.            *)

Call(tool, of, n) == <<tool, of, n>>

Url(t, w) == ByQuestion[t].urls[w.next]
Query(t, w) == ByQuestion[t].queries[w.next]
RagQuery(t) == IF ByQuestion[t].queries = <<>> THEN t ELSE ByQuestion[t].queries[1]
TopK(t) == IF t \in Tasks THEN 2 ELSE 3
Found(t, w, k) == Call("fetch", Query(t, w), k)

(* What the branch asks for in the state w of its work. *)
CallAt(t, w) ==
  CASE w.at = "rag" -> Call("rag", RagQuery(t), 0)
    [] w.at = "disclosure" -> Call("disclosure", t, 0)
    [] w.at = "priority" -> Call("fetch", Url(t, w), 0)
    [] w.at = "search" /\ ByQuestion[t].typed -> Call("typed", Query(t, w), TopK(t))
    [] w.at = "search" /\ ~ ByQuestion[t].typed -> Call("untyped", Query(t, w), TopK(t))
    [] w.at = "widen" -> Call("untyped", Query(t, w), TopK(t))
    [] w.at = "fetch" -> Found(t, w, w.rank)

CallOf(t) == CallAt(t, work[t])

Limit(t) == ByQuestion[t].max_search_calls

(* Mutant: the re-checks may use the whole allocation. *)
PriorityLimitWhole(t) == Limit(t)

(* Re-checks of prior urls leave a call for an independent query. *)
PriorityLimit(t) ==
  IF ByQuestion[t].queries = <<>> \/ Limit(t) = 0 THEN Limit(t) ELSE Limit(t) - 1

(* A branch asks rag search, the disclosure source, its prior urls and its *)
(* queries in this order, passing by what it does not have.                *)
GoOn(w, place) == [w EXCEPT !.at = place]

(* A disclosed report makes queries after the first needless.              *)
ToQuery(t, w, k) ==
  IF k <= Len(ByQuestion[t].queries) /\ (w.hydrated => k = 1)
  THEN [w EXCEPT !.at = "search", !.next = k, !.rank = 0]
  ELSE GoOn(w, "done")

ToUrl(t, w, k) ==
  IF k <= Len(ByQuestion[t].urls) /\ w.calls < PriorityLimit(t)
  THEN [w EXCEPT !.at = "priority", !.next = k]
  ELSE ToQuery(t, w, 1)

ToDisclosure(t, w) ==
  IF ByQuestion[t].disclosure # "none" THEN GoOn(w, "disclosure") ELSE ToUrl(t, w, 1)

NextQuery(t, w) == ToQuery(t, w, w.next + 1)

FreshResearch ==
  [t \in Threads |->
     IF t \in Tasks THEN NewWork("off")
     ELSE IF ByQuestion[t].rag THEN NewWork("rag") ELSE ToDisclosure(t, NewWork("rag"))]

Ended(t) == work[t].at \in {"done", "raised"}
Asks(t) == ~ Ended(t) /\ work[t].at # "off"

(* consume_call.  The quota counts only while the search tool itself says  *)
(* that its searches do; the contract adapter does not pass that on.       *)
Charged(t) == work[t].at # "rag"
BranchSpent(t, w) == t \in Branches /\ w.calls >= Limit(t)
QuotaSpent(counts) == counts /\ scope.quota >= max_searches
MayCall(t, counts) == Charged(t) => ~ BranchSpent(t, work[t]) /\ ~ QuotaSpent(counts)

ChargedWork(t) == [work[t] EXCEPT !.calls = IF Charged(t) THEN @ + 1 ELSE @]
ChargedScope(t, counts) == [scope EXCEPT !.quota = IF Charged(t) /\ counts THEN @ + 1 ELSE @]

---------------------------------------------------------------------------
(* What a provider does with a call: a web search takes some requests of   *)
(* the run's allowance and ends in an answer, or finds none left and is    *)
(* refused.                                                                *)

Lane(t) ==
  CASE work[t].at \in {"search", "widen"} -> "search"
    [] work[t].at \in {"fetch", "priority"} -> "fetch"
    [] work[t].at = "disclosure" -> "authority"
    [] work[t].at = "rag" -> "none"

Allowance(lane) ==
  CASE lane = "search" -> max_search_requests
    [] lane = "fetch" -> max_fetch_requests
    [] lane = "authority" -> max_authority_requests

(* What a refusal is told by: the allowance that is used up.  The two of   *)
(* the disclosure source stand in its lane as one, and either may refuse.  *)
Refusals == {"web_search", "web_fetch", "authority_search", "authority_fetch"}

RefusalsOf(lane) ==
  CASE lane = "search" -> {"web_search"}
    [] lane = "fetch" -> {"web_fetch"}
    [] lane = "authority" -> {"authority_search", "authority_fetch"}
    [] lane = "none" -> {}

Fits(lane, n) == lane = "none" \/ scope[lane] + n <= Allowance(lane)

RequestsOf(t) == IF Lane(t) = "none" THEN {0} ELSE 1..MaxRequests[Lane(t)]

(* Mutant: a request is counted before the allowance is looked at. *)
TakenThenLooked(s, lane, n, answer) ==
  IF lane = "none" THEN s
  ELSE [s EXCEPT ![lane] = @ + n, !.refusal = IF Fits(lane, n) THEN @ ELSE answer]

(* A call that does not fit is refused at its first request over, and the  *)
(* refusal, which is its answer, is noted.                                 *)
Taken(s, lane, n, answer) ==
  CASE lane = "none" -> s
    [] lane # "none" /\ Fits(lane, n) -> [s EXCEPT ![lane] = @ + n]
    [] ~ Fits(lane, n) -> [s EXCEPT ![lane] = Allowance(lane), !.refusal = answer]

(* "none" is nothing or nothing usable; a fetched body that is not usable  *)
(* because it could not be had leaves its source as found.                 *)
Answers(t) ==
  CASE work[t].at \in {"rag", "disclosure", "priority"} \/ t \in Tasks -> {"found", "none"}
    [] work[t].at = "fetch" -> {"found", "rejected", "primary"}
    [] work[t].at \in {"search", "widen"} /\ t \in Branches -> {"found", "none", "rejected"}

---------------------------------------------------------------------------
(* What the branch does with an answer. *)

Stopped(w) == [w EXCEPT !.at = "done", !.exhausted = TRUE, !.refused = TRUE]

(* Each ranked source is kept until its body says otherwise, and its body  *)
(* fetched unless the branch has the primary text already.                 *)
Ranking(t, w, k) ==
  IF t \in Tasks \/ w.hydrated
  THEN NextQuery(t, [w EXCEPT !.seen = @ \cup {Found(t, w, i) : i \in k..Ranked}])
  ELSE IF k > Ranked THEN NextQuery(t, w)
  ELSE [w EXCEPT !.at = "fetch", !.rank = k, !.seen = @ \cup {Found(t, w, k)}]

Raise(w, refusal) == [w EXCEPT !.at = "raised", !.error = refusal]

(* Mutant: a refused fetch ends the branch with an error. *)
RefusedFetchRaises(t, w, refusal) ==
  IF t \in Tasks \/ w.at \in {"disclosure", "priority", "fetch"}
  THEN Raise(w, refusal) ELSE Stopped(w)

(* A refused search or fetch stops the branch, which keeps what it has; a  *)
(* refused disclosure, priority url or retry raises the refusal.           *)
Refused(t, w, refusal) ==
  IF t \in Tasks \/ w.at \in {"disclosure", "priority"}
  THEN Raise(w, refusal) ELSE Stopped(w)

AfterSearch(t, w, answer) ==
  CASE answer = "found" -> Ranking(t, w, 1)
    [] answer = "none" /\ w.at = "search" /\ ByQuestion[t].typed -> GoOn(w, "widen")
    [] OTHER -> NextQuery(t, w)

AfterFetch(t, w, answer) ==
  CASE answer = "rejected" -> Ranking(t, [w EXCEPT !.seen = @ \ {Found(t, w, w.rank)}], w.rank + 1)
    [] answer = "primary" -> NextQuery(t, [w EXCEPT !.hydrated = TRUE])
    [] answer = "found" -> Ranking(t, w, w.rank + 1)

AfterDisclosure(t, w, answer) ==
  ToUrl(t, [w EXCEPT !.hydrated = answer = "found" /\ ByQuestion[t].disclosure = "financial"], 1)

AfterAnswer(t, w, answer) ==
  LET kept == IF answer = "found" THEN [w EXCEPT !.seen = @ \cup {CallAt(t, w)}] ELSE w IN
  IF answer \in Refusals THEN Refused(t, w, answer)
  ELSE CASE w.at = "rag" -> ToDisclosure(t, kept)
         [] w.at = "disclosure" -> AfterDisclosure(t, kept, answer)
         [] w.at = "priority" -> ToUrl(t, kept, w.next + 1)
         [] w.at \in {"search", "widen"} -> AfterSearch(t, w, answer)
         [] w.at = "fetch" -> AfterFetch(t, w, answer)

(* No call is left to make: the branch goes on to its queries, or to the   *)
(* next of them if it is only the run's quota that is used up.             *)
BreakOff(t, w) ==
  LET u == [w EXCEPT !.exhausted = @ \/ BranchSpent(t, w)] IN
  CASE u.at = "disclosure" -> ToUrl(t, u, 1)
    [] u.at = "priority" -> ToQuery(t, u, 1)
    [] u.at = "search" \/ (u.at \in {"widen", "fetch"} /\ u.exhausted) -> GoOn(u, "done")
    [] u.at \in {"widen", "fetch"} /\ ~ u.exhausted -> NextQuery(t, u)

---------------------------------------------------------------------------
(* The engine. *)

Output == UNION {work[b].seen : b \in Branches}

(* Mutant: each retry task is reckoned at one search. *)
CapacityOfOneSearch == max_search_requests - scope.search

(* retry_prepare: each retry task is reckoned at two searches, and those   *)
(* the allowance does not hold are deferred.                               *)
Capacity == (max_search_requests - scope.search) \div 2

Scheduled == {retry_queue[i] : i \in DOMAIN retry_queue \cap 1..Capacity}

Finish(phase, detail) == run' = [run EXCEPT !.phase = phase, !.detail = detail]

(* A refusal that a thread raised ends the run.  If several have raised    *)
(* one, any of these surfaces.                                             *)
RaisedBy(threads) == {t \in threads : work[t].at = "raised"}
Surfaced(threads) == \E t \in RaisedBy(threads) : Finish("budget_exceeded", work[t].error)

(* research_join once no branch works: a refusal that a branch raised ends *)
(* the run; so does one it stopped at, if nothing was found by any.        *)
Join ==
  /\ run.phase = "research" /\ \A b \in Branches : Ended(b)
  /\ CASE RaisedBy(Branches) # {} -> Surfaced(Branches) /\ UNCHANGED work
       [] (\A b \in Branches : work[b].at = "done") /\ Output = {}
            /\ (\E b \in Branches : work[b].refused) ->
            Finish("budget_exceeded", scope.refusal) /\ UNCHANGED work
       [] OTHER ->
            /\ run' = [run EXCEPT !.phase = "retry", !.joined = TRUE, !.active = Scheduled]
            /\ work' = [t \in Threads |->
                 IF t \in Scheduled THEN NewWork("search") ELSE work[t]]
  /\ UNCHANGED scope

(* The retries end; a refused one ends the run. *)
Conclude ==
  /\ run.phase = "retry" /\ \A t \in run.active : Ended(t)
  /\ IF RaisedBy(run.active) # {} THEN Surfaced(run.active) ELSE Finish("completed", "none")
  /\ UNCHANGED <<work, scope>>
=============================================================================
