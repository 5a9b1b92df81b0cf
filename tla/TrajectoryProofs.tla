-------------------------- MODULE TrajectoryProofs --------------------------
(***************************************************************************)
(* Theorems about Trajectory for any questions, retry queue, quota and     *)
(* allowances: how the answers to a branch's calls are used, numbered and  *)
(* recorded, what the retries may still ask, and that a strict replay of   *)
(* the recording repeats the run.                                          *)
(***************************************************************************)
EXTENDS Trajectory, FiniteSetTheorems, FunctionTheorems, SequenceTheorems,
        WellFoundedInduction, TLAPS

---------------------------------------------------------------------------
(* The inductive invariant. *)

(* The run itself, before its replay. *)
FirstRun == mode \in {"bare", "live"}

RunStates ==
  [phase : {"research", "retry", "completed", "budget_exceeded"}, joined : BOOLEAN,
   active : SUBSET Tasks, detail : {"none"} \cup Refusals]
Observed ==
  [overlap : BOOLEAN, hidden : BOOLEAN, repeated : BOOLEAN, reordered : BOOLEAN,
   unraised : BOOLEAN, either : BOOLEAN]
Shown == [Threads -> SUBSET (Calls \X AnswersOf)]
Scopes ==
  [quota : 0..max_searches, search : 0..max_search_requests,
   fetch : 0..max_fetch_requests, authority : 0..max_authority_requests,
   refusal : {"none"} \cup Refusals]
Modes == {"bare", "live", "rejected", "replay", "missed", "mismatch", "reproduced"}

(* Where a thread asks, it has what it asks for; a task only searches.     *)
HasItsCall(t, w) ==
  /\ w.at = "off" => t \in Tasks
  /\ w.at \in {"rag", "disclosure", "priority", "fetch"} => t \in Branches
  /\ w.at = "disclosure" => ByQuestion[t].disclosure # "none"
  /\ w.at = "priority" => w.next \in 1..Len(ByQuestion[t].urls)
  /\ w.at \in {"search", "widen", "fetch"} => w.next \in 1..Len(ByQuestion[t].queries)
  /\ w.at = "fetch" => w.rank \in 1..Ranked

WorkTyped ==
  /\ work \in [Threads -> WorkStates]
  /\ \A t \in Threads : HasItsCall(t, work[t])

Typed ==
  /\ WorkTyped
  /\ scope \in Scopes /\ run \in RunStates /\ mode \in Modes
  /\ asked \in [Threads -> Traces \cup {NoCall}]
  /\ trace \in Seq(Traces) /\ left \subseteq DOMAIN trace
  /\ shown \in Shown /\ seenAs \in Observed

---------------------------------------------------------------------------
(* What the questions hold. *)

LEMMA QuestionTypes ==
  ASSUME NEW t \in Threads
  PROVE  /\ ByQuestion[t].rag \in BOOLEAN /\ ByQuestion[t].typed \in BOOLEAN
         /\ ByQuestion[t].disclosure \in {"none", "named", "financial"}
         /\ ByQuestion[t].urls \in Seq(STRING) /\ ByQuestion[t].queries \in Seq(STRING)
         /\ Limit(t) \in Nat /\ PriorityLimit(t) \in Nat /\ PriorityLimit(t) <= Limit(t)
         /\ Len(ByQuestion[t].urls) \in Nat /\ Len(ByQuestion[t].queries) \in Nat
         /\ t \in Tasks => t \notin Branches /\ Len(ByQuestion[t].queries) = 1
<1>1. ByQuestion[t] \in Questions
  BY ResearchAssumption
<1>2. /\ ByQuestion[t].rag \in BOOLEAN /\ ByQuestion[t].typed \in BOOLEAN
      /\ ByQuestion[t].disclosure \in {"none", "named", "financial"}
      /\ ByQuestion[t].urls \in Seq(STRING) /\ ByQuestion[t].queries \in Seq(STRING)
      /\ Limit(t) \in Nat
  BY <1>1 DEF Questions, Limit
<1>3. PriorityLimit(t) \in Nat /\ PriorityLimit(t) <= Limit(t)
  BY <1>2 DEF PriorityLimit
<1>4. t \in Tasks => t \notin Branches /\ Len(ByQuestion[t].queries) = 1
  BY ResearchAssumption
<1> QED
  BY <1>2, <1>3, <1>4

LEMMA TextOf ==
  ASSUME NEW s \in Seq(STRING), NEW k \in 1..Len(s)
  PROVE  s[k] \in STRING
OBVIOUS

LEMMA NonEmptyText ==
  ASSUME NEW s \in Seq(STRING)
  PROVE  s # <<>> <=> 1 \in 1..Len(s)
BY EmptySeq

LEMMA RankedPositive == Ranked \in Nat \ {0}
BY ResearchAssumption

LEMMA QueryText ==
  ASSUME NEW t \in Threads, NEW k \in 1..Len(ByQuestion[t].queries)
  PROVE  ByQuestion[t].queries[k] \in STRING
BY QuestionTypes, TextOf

(* A call's shape tells where it came from. *)
LEMMA CallTyped ==
  ASSUME NEW t \in Threads, NEW w \in WorkStates, w = work[t], HasItsCall(t, w), Asks(t)
  PROVE  /\ CallOf(t) \in Calls
         /\ w.at = "rag" => CallOf(t)[1] = "rag"
         /\ w.at = "disclosure" => CallOf(t)[1] = "disclosure"
         /\ w.at = "priority" => CallOf(t)[1] = "fetch" /\ CallOf(t)[3] = 0
                                 /\ CallOf(t)[2] = ByQuestion[t].urls[w.next]
         /\ w.at \in {"search", "widen"} => /\ CallOf(t)[1] \in {"typed", "untyped"}
                                            /\ CallOf(t)[2] = ByQuestion[t].queries[w.next]
                                            /\ CallOf(t)[3] = IF t \in Tasks THEN 2 ELSE 3
         /\ w.at = "fetch" => CallOf(t) = <<"fetch", ByQuestion[t].queries[w.next], w.rank>>
         /\ w.at \in {"rag", "disclosure", "priority", "search", "widen", "fetch"}
<1>1. w.at \in {"rag", "disclosure", "priority", "search", "widen", "fetch"}
  BY DEF Asks, Ended, WorkStates
<1>2. CASE w.at = "rag"
  <2>1. RagQuery(t) \in STRING
    <3>1. ByQuestion[t].queries # <<>> => ByQuestion[t].queries[1] \in STRING
      BY QuestionTypes, NonEmptyText, TextOf
    <3>2. t \in STRING
      BY <1>2, ResearchAssumption DEF HasItsCall
    <3> QED
      BY <3>1, <3>2 DEF RagQuery
  <2>2. CallOf(t) = <<"rag", RagQuery(t), 0>>
    BY <1>2 DEF CallOf, CallAt, Call
  <2> QED
    BY <1>2, <2>1, <2>2 DEF Calls
<1>3. CASE w.at = "disclosure"
  <2>1. t \in STRING
    BY <1>3, ResearchAssumption DEF HasItsCall
  <2>2. CallOf(t) = <<"disclosure", t, 0>>
    BY <1>3 DEF CallOf, CallAt, Call
  <2> QED
    BY <1>3, <2>1, <2>2 DEF Calls
<1>4. CASE w.at = "priority"
  <2>1. ByQuestion[t].urls[w.next] \in STRING
    BY <1>4, QuestionTypes, TextOf DEF HasItsCall
  <2>2. CallOf(t) = <<"fetch", ByQuestion[t].urls[w.next], 0>>
    BY <1>4 DEF CallOf, CallAt, Call, Url
  <2> QED
    BY <1>4, <2>1, <2>2 DEF Calls
<1>5. CASE w.at \in {"search", "widen"}
  <2>1. ByQuestion[t].queries[w.next] \in STRING
    <3>1. w.next \in 1..Len(ByQuestion[t].queries)
      BY <1>5 DEF HasItsCall
    <3> QED
      BY <3>1, QueryText
  <2>2. \E tool \in {"typed", "untyped"} :
          CallOf(t) = <<tool, ByQuestion[t].queries[w.next], TopK(t)>>
    <3>1. ByQuestion[t].typed \in BOOLEAN
      BY QuestionTypes
    <3> QED
      BY <1>5, <3>1 DEF CallOf, CallAt, Call, Query
  <2>3. TopK(t) = (IF t \in Tasks THEN 2 ELSE 3) /\ TopK(t) \in Nat
    BY DEF TopK
  <2> QED
    BY <1>5, <2>1, <2>2, <2>3 DEF Calls
<1>6. CASE w.at = "fetch"
  <2>1. ByQuestion[t].queries[w.next] \in STRING /\ w.rank \in Nat
    BY <1>6, QueryText DEF HasItsCall, WorkStates
  <2>2. CallOf(t) = <<"fetch", ByQuestion[t].queries[w.next], w.rank>>
    BY <1>6 DEF CallOf, CallAt, Call, Found, Query
  <2> QED
    BY <1>6, <2>1, <2>2 DEF Calls
<1> QED
  BY <1>1, <1>2, <1>3, <1>4, <1>5, <1>6

---------------------------------------------------------------------------
(* Where a thread goes next. *)

KeepsFound(w, v) == v.calls = w.calls /\ v.seen = w.seen

LEMMA GoneOn ==
  ASSUME NEW t \in Threads, NEW w \in WorkStates,
         NEW place \in {"done", "raised"}
  PROVE  LET v == GoOn(w, place)
         IN  v \in WorkStates /\ HasItsCall(t, v) /\ KeepsFound(w, v) /\ v.at = place
BY DEF GoOn, WorkStates, HasItsCall, KeepsFound

LEMMA ToQuerySound ==
  ASSUME NEW t \in Threads, NEW w \in WorkStates, NEW k \in Nat \ {0}
  PROVE  LET v == ToQuery(t, w, k)
         IN  /\ v \in WorkStates /\ HasItsCall(t, v) /\ KeepsFound(w, v)
             /\ v.at \in {"search", "done"}
             /\ v.at = "done" => k > Len(ByQuestion[t].queries) \/ (w.hydrated /\ k # 1)
<1>1. Len(ByQuestion[t].queries) \in Nat
  BY QuestionTypes
<1>2. CASE k <= Len(ByQuestion[t].queries) /\ (w.hydrated => k = 1)
  <2> DEFINE v == [w EXCEPT !.at = "search", !.next = k, !.rank = 0]
  <2>1. ToQuery(t, w, k) = v
    BY <1>2 DEF ToQuery
  <2>2. v \in WorkStates /\ v.at = "search" /\ v.next = k /\ KeepsFound(w, v)
    BY DEF WorkStates, KeepsFound
  <2>3. HasItsCall(t, v)
    BY <1>1, <1>2, <2>2 DEF HasItsCall
  <2> QED
    BY <2>1, <2>2, <2>3
<1>3. CASE ~ (k <= Len(ByQuestion[t].queries) /\ (w.hydrated => k = 1))
  <2>1. ToQuery(t, w, k) = GoOn(w, "done")
    BY <1>3 DEF ToQuery
  <2>2. k > Len(ByQuestion[t].queries) \/ (w.hydrated /\ k # 1)
    BY <1>1, <1>3
  <2> QED
    BY <2>1, <2>2, GoneOn
<1> QED
  BY <1>2, <1>3

LEMMA ToUrlSound ==
  ASSUME NEW t \in Branches, NEW w \in WorkStates, NEW k \in Nat \ {0}
  PROVE  LET v == ToUrl(t, w, k)
         IN  /\ v \in WorkStates /\ HasItsCall(t, v) /\ KeepsFound(w, v)
             /\ v.at \in {"priority", "search", "done"}
             /\ v.at = "priority" => w.calls < PriorityLimit(t)
             /\ v.at = "done" => ByQuestion[t].queries = <<>>
<1>1. t \in Threads
  BY DEF Threads
<1>2. Len(ByQuestion[t].urls) \in Nat
  BY <1>1, QuestionTypes
<1>3. CASE k <= Len(ByQuestion[t].urls) /\ w.calls < PriorityLimit(t)
  <2> DEFINE v == [w EXCEPT !.at = "priority", !.next = k]
  <2>1. ToUrl(t, w, k) = v
    BY <1>3 DEF ToUrl
  <2>2. v \in WorkStates /\ v.at = "priority" /\ v.next = k /\ KeepsFound(w, v)
    BY DEF WorkStates, KeepsFound
  <2>3. HasItsCall(t, v)
    BY <1>2, <1>3, <2>2 DEF HasItsCall
  <2> QED
    BY <1>3, <2>1, <2>2, <2>3
<1>4. CASE ~ (k <= Len(ByQuestion[t].urls) /\ w.calls < PriorityLimit(t))
  <2>1. ToUrl(t, w, k) = ToQuery(t, w, 1)
    BY <1>4 DEF ToUrl
  <2>2. 1 > Len(ByQuestion[t].queries) => ByQuestion[t].queries = <<>>
    BY <1>1, QuestionTypes, NonEmptyText
  <2>3. 1 \in Nat \ {0}
    OBVIOUS
  <2> QED
    BY <1>1, <2>1, <2>2, <2>3, ToQuerySound
<1> QED
  BY <1>3, <1>4

LEMMA ToDisclosureSound ==
  ASSUME NEW t \in Branches, NEW w \in WorkStates
  PROVE  LET v == ToDisclosure(t, w)
         IN  /\ v \in WorkStates /\ HasItsCall(t, v) /\ KeepsFound(w, v)
             /\ v.at \in {"disclosure", "priority", "search", "done"}
             /\ v.at # "disclosure" => ByQuestion[t].disclosure = "none"
             /\ v.at = "priority" => w.calls < PriorityLimit(t)
             /\ v.at = "done" => ByQuestion[t].queries = <<>>
<1>1. 1 \in Nat \ {0} /\ t \in Threads
  BY DEF Threads
<1>2. CASE ByQuestion[t].disclosure # "none"
  <2>1. ToDisclosure(t, w) = GoOn(w, "disclosure")
    BY <1>2 DEF ToDisclosure
  <2> DEFINE v == GoOn(w, "disclosure")
  <2>2. v \in WorkStates /\ HasItsCall(t, v) /\ KeepsFound(w, v) /\ v.at = "disclosure"
    BY <1>2 DEF GoOn, WorkStates, HasItsCall, KeepsFound
  <2> QED
    BY <2>1, <2>2
<1>3. CASE ByQuestion[t].disclosure = "none"
  <2>1. ToDisclosure(t, w) = ToUrl(t, w, 1)
    BY <1>3 DEF ToDisclosure
  <2> QED
    BY <1>1, <1>3, <2>1, ToUrlSound
<1> QED
  BY <1>2, <1>3

(* A task has one query only. *)
LEMMA NextQuerySound ==
  ASSUME NEW t \in Threads, NEW w \in WorkStates, w.next \in 1..Len(ByQuestion[t].queries)
  PROVE  LET v == NextQuery(t, w)
         IN  /\ v \in WorkStates /\ HasItsCall(t, v) /\ KeepsFound(w, v)
             /\ v.at \in {"search", "done"}
             /\ t \in Tasks => v.at = "done"
<1>1. /\ w.next + 1 \in Nat \ {0} /\ Len(ByQuestion[t].queries) \in Nat
      /\ t \in Tasks => Len(ByQuestion[t].queries) = 1
  BY QuestionTypes DEF WorkStates
<1>2. CASE t \in Tasks
  <2>1. ~ (w.next + 1 <= Len(ByQuestion[t].queries))
    <3>1. Len(ByQuestion[t].queries) = 1 /\ w.next \in 1..1
      BY <1>1, <1>2
    <3> QED
      BY <3>1
  <2>2. NextQuery(t, w) = GoOn(w, "done")
    BY <2>1 DEF NextQuery, ToQuery
  <2> QED
    BY <2>2, GoneOn
<1>3. CASE t \notin Tasks
  BY <1>1, <1>3, ToQuerySound DEF NextQuery
<1> QED
  BY <1>2, <1>3

---------------------------------------------------------------------------
(* What an answer makes of a thread. *)

FoundAt(t, w) == <<"fetch", ByQuestion[t].queries[w.next], w.rank>>

LEMMA FoundTyped ==
  ASSUME NEW t \in Threads, NEW w, w.next \in 1..Len(ByQuestion[t].queries), NEW i \in Nat
  PROVE  Found(t, w, i) = <<"fetch", ByQuestion[t].queries[w.next], i>> /\ Found(t, w, i) \in Calls
<1>1. ByQuestion[t].queries[w.next] \in STRING
  BY QuestionTypes, TextOf
<1>2. Found(t, w, i) = <<"fetch", ByQuestion[t].queries[w.next], i>>
  BY DEF Found, Call, Query
<1> QED
  BY <1>1, <1>2 DEF Calls

(* A source that is ranked stays unless its body is rejected. *)
LEMMA RankingSound ==
  ASSUME NEW t \in Threads, NEW w \in WorkStates,
         w.next \in 1..Len(ByQuestion[t].queries), NEW k \in 1..(Ranked + 1)
  PROVE  LET v == Ranking(t, w, k)
         IN  /\ v \in WorkStates /\ HasItsCall(t, v)
             /\ v.calls = w.calls /\ w.seen \subseteq v.seen
             /\ v.at \in {"search", "done", "fetch"}
             /\ t \in Tasks => v.at = "done"
             /\ v.at = "fetch" => FoundAt(t, v) \in v.seen
             /\ k = 1 => Found(t, w, 1) \in v.seen
<1>1. Ranked \in Nat \ {0} /\ k \in Nat
  BY RankedPositive
<1>2. CASE t \in Tasks \/ w.hydrated
  <2> DEFINE u == [w EXCEPT !.seen = w.seen \cup {Found(t, w, i) : i \in k..Ranked}]
  <2>1. Ranking(t, w, k) = NextQuery(t, u)
    BY <1>2 DEF Ranking
  <2>2. \A i \in k..Ranked : Found(t, w, i) \in Calls
    BY <1>1, FoundTyped
  <2>3. /\ u \in WorkStates /\ u.next = w.next /\ u.calls = w.calls
        /\ u.seen = w.seen \cup {Found(t, w, i) : i \in k..Ranked}
    BY <2>2 DEF WorkStates
  <2>4. k = 1 => Found(t, w, 1) \in u.seen
    <3>1. k = 1 => 1 \in k..Ranked
      BY <1>1
    <3> QED
      BY <2>3, <3>1
  <2> HIDE DEF u
  <2> QED
    BY <2>1, <2>3, <2>4, NextQuerySound DEF KeepsFound
<1>3. CASE ~ (t \in Tasks \/ w.hydrated) /\ k > Ranked
  <2>1. Ranking(t, w, k) = NextQuery(t, w) /\ k # 1
    BY <1>1, <1>3 DEF Ranking
  <2> QED
    BY <1>3, <2>1, NextQuerySound DEF KeepsFound
<1>4. CASE ~ (t \in Tasks \/ w.hydrated) /\ ~ (k > Ranked)
  <2> DEFINE v == [w EXCEPT !.at = "fetch", !.rank = k, !.seen = w.seen \cup {Found(t, w, k)}]
  <2>1. Ranking(t, w, k) = v
    BY <1>4 DEF Ranking
  <2>2. Found(t, w, k) \in Calls /\ Found(t, w, k) = <<"fetch", ByQuestion[t].queries[w.next], k>>
    BY <1>1, FoundTyped
  <2>3. /\ v \in WorkStates /\ v.at = "fetch" /\ v.next = w.next /\ v.rank = k
        /\ v.calls = w.calls /\ v.seen = w.seen \cup {Found(t, w, k)}
    BY <1>1, <2>2 DEF WorkStates
  <2>4. t \in Branches /\ k \in 1..Ranked
    BY <1>1, <1>4 DEF Threads
  <2> HIDE DEF v
  <2>5. HasItsCall(t, v)
    BY <2>3, <2>4 DEF HasItsCall
  <2>6. FoundAt(t, v) = Found(t, w, k)
    BY <2>2, <2>3 DEF FoundAt
  <2> QED
    BY <1>4, <2>1, <2>3, <2>5, <2>6
<1> QED
  BY <1>2, <1>3, <1>4

LEMMA RefusedSound ==
  ASSUME NEW t \in Threads, NEW w \in WorkStates, NEW refusal \in Refusals
  PROVE  LET v == Refused(t, w, refusal)
         IN  /\ v \in WorkStates /\ HasItsCall(t, v) /\ KeepsFound(w, v)
             /\ v.at = IF t \in Tasks \/ w.at \in {"disclosure", "priority"}
                       THEN "raised" ELSE "done"
<1>1. LET v == Stopped(w)
      IN  v \in WorkStates /\ HasItsCall(t, v) /\ KeepsFound(w, v) /\ v.at = "done"
  BY DEF Stopped, WorkStates, HasItsCall, KeepsFound
<1>2. LET v == Raise(w, refusal)
      IN  v \in WorkStates /\ HasItsCall(t, v) /\ KeepsFound(w, v) /\ v.at = "raised"
  BY DEF Raise, WorkStates, HasItsCall, KeepsFound
<1> QED
  BY <1>1, <1>2 DEF Refused

(* What a thread asks for depends on its place alone. *)
LEMMA SameCall ==
  ASSUME NEW t, NEW v, NEW w, v.at = w.at, v.next = w.next, v.rank = w.rank
  PROVE  CallAt(t, v) = CallAt(t, w) /\ \A k : Found(t, v, k) = Found(t, w, k)
BY DEF CallAt, Call, Url, Query, Found

(* A work state v that an answer leads to from w. *)
AnswerUsed(t, w, answer, v) ==
  /\ v \in WorkStates /\ HasItsCall(t, v)
  /\ v.at # "off"
  /\ v.calls = w.calls
  /\ w.seen \ (IF answer = "rejected" THEN {CallAt(t, w)} ELSE {}) \subseteq v.seen
  /\ v.at = "fetch" => FoundAt(t, v) \in v.seen
  /\ answer = "found" /\ w.at \in {"rag", "disclosure", "priority"} =>
       CallAt(t, w) \in v.seen
  /\ answer = "found" /\ w.at \in {"search", "widen"} => Found(t, w, 1) \in v.seen
  /\ v.at = "raised" =>
       answer \in Refusals /\ (t \in Tasks \/ w.at \in {"disclosure", "priority"})
  /\ w.at \in {"rag", "disclosure", "priority"} /\ answer \notin Refusals =>
       /\ v.at \in {"disclosure", "priority", "search", "done"}
       /\ v.at = "disclosure" => w.at = "rag"
       /\ w.at = "rag" /\ v.at # "disclosure" => ByQuestion[t].disclosure = "none"
       /\ v.at = "priority" => v.calls < PriorityLimit(t)
       /\ v.at = "done" => ByQuestion[t].queries = <<>>
  /\ w.at \in {"disclosure", "priority"} /\ answer \in Refusals => v.at = "raised"
  /\ t \in Tasks => v.at \in {"done", "raised", "widen"}
  /\ t \in Tasks /\ v.at = "widen" => w.at = "search"

LEMMA AfterAnswerSound ==
  ASSUME NEW t \in Threads, work[t] \in WorkStates, HasItsCall(t, work[t]), Asks(t),
         NEW w \in WorkStates, w.at = work[t].at, w.next = work[t].next, w.rank = work[t].rank,
         NEW answer \in AnswersOf, w.at = "fetch" => answer # "none"
  PROVE  AnswerUsed(t, w, answer, AfterAnswer(t, w, answer))
<1> DEFINE v == AfterAnswer(t, w, answer)
           noted == IF answer = "found" THEN [w EXCEPT !.seen = w.seen \cup {CallAt(t, w)}] ELSE w
<1> SUFFICES AnswerUsed(t, w, answer, v)
  OBVIOUS
<1>0. CallAt(t, w) = CallOf(t)
  BY SameCall DEF CallOf
<1>1. /\ CallAt(t, w) \in Calls
      /\ w.at \in {"rag", "disclosure", "priority", "search", "widen", "fetch"}
      /\ t \in Tasks => w.at \in {"search", "widen"} /\ t \notin Branches
      /\ t \notin Tasks => t \in Branches
      /\ HasItsCall(t, w)
  BY <1>0, CallTyped, ResearchAssumption DEF HasItsCall, Threads
<1>2. /\ noted \in WorkStates /\ noted.at = w.at /\ noted.next = w.next /\ noted.calls = w.calls
      /\ noted.hydrated = w.hydrated /\ w.seen \subseteq noted.seen
      /\ answer = "found" => CallAt(t, w) \in noted.seen
  BY <1>1 DEF WorkStates
<1>3. 1 \in Nat \ {0} /\ w.next + 1 \in Nat \ {0} /\ w.rank + 1 \in Nat \ {0}
      /\ Ranked \in Nat \ {0}
  <2>1. w.next \in Nat /\ w.rank \in Nat
    BY DEF WorkStates
  <2>2. \A k \in Nat : k + 1 \in Nat \ {0}
    OBVIOUS
  <2> QED
    BY <2>1, <2>2, RankedPositive
<1>4. CASE answer \in Refusals
  <2>1. v = Refused(t, w, answer)
    BY <1>4 DEF AfterAnswer
  <2>2. answer \notin {"found", "rejected"}
    BY <1>4 DEF Refusals
  <2> HIDE DEF v, noted
  <2>3. /\ v \in WorkStates /\ HasItsCall(t, v) /\ KeepsFound(w, v)
        /\ v.at = IF t \in Tasks \/ w.at \in {"disclosure", "priority"}
                  THEN "raised" ELSE "done"
    BY <1>4, <2>1, RefusedSound
  <2> QED
    BY <1>1, <1>4, <2>2, <2>3 DEF KeepsFound, AnswerUsed
<1>5. CASE answer \notin Refusals /\ w.at = "rag"
  <2>1. v = ToDisclosure(t, noted) /\ t \in Branches /\ t \notin Tasks
    BY <1>1, <1>5 DEF AfterAnswer
  <2> HIDE DEF v, noted
  <2> QED
    BY <1>1, <1>2, <1>5, <2>1, ToDisclosureSound DEF KeepsFound, AnswerUsed
<1>6. CASE answer \notin Refusals /\ w.at = "disclosure"
  <2> DEFINE told == [noted EXCEPT !.hydrated = answer = "found"
                                               /\ ByQuestion[t].disclosure = "financial"]
  <2>1. v = ToUrl(t, told, 1) /\ t \in Branches /\ t \notin Tasks
    BY <1>1, <1>6 DEF AfterAnswer, AfterDisclosure
  <2>2. told \in WorkStates /\ told.calls = w.calls /\ told.seen = noted.seen
    <3>1. (answer = "found" /\ ByQuestion[t].disclosure = "financial") \in BOOLEAN
      OBVIOUS
    <3> HIDE DEF noted
    <3> QED
      BY <1>2, <3>1 DEF WorkStates
  <2> HIDE DEF v, noted, told
  <2>3. /\ v \in WorkStates /\ HasItsCall(t, v) /\ KeepsFound(told, v)
        /\ v.at \in {"priority", "search", "done"}
        /\ v.at = "priority" => told.calls < PriorityLimit(t)
        /\ v.at = "done" => ByQuestion[t].queries = <<>>
    BY <1>3, <2>1, <2>2, ToUrlSound
  <2> QED
    BY <1>1, <1>2, <1>6, <2>1, <2>2, <2>3 DEF KeepsFound, AnswerUsed
<1>7. CASE answer \notin Refusals /\ w.at = "priority"
  <2>1. v = ToUrl(t, noted, w.next + 1) /\ t \in Branches /\ t \notin Tasks
    BY <1>1, <1>7 DEF AfterAnswer
  <2> HIDE DEF v, noted
  <2>2. /\ v \in WorkStates /\ HasItsCall(t, v) /\ KeepsFound(noted, v)
        /\ v.at \in {"priority", "search", "done"}
        /\ v.at = "priority" => noted.calls < PriorityLimit(t)
        /\ v.at = "done" => ByQuestion[t].queries = <<>>
    BY <1>2, <1>3, <2>1, ToUrlSound
  <2> QED
    BY <1>1, <1>2, <1>7, <2>1, <2>2 DEF KeepsFound, AnswerUsed
<1>8. CASE answer \notin Refusals /\ w.at \in {"search", "widen"}
  <2>1. v = AfterSearch(t, w, answer)
    BY <1>8 DEF AfterAnswer
  <2>2. w.next \in 1..Len(ByQuestion[t].queries)
    BY <1>1, <1>8 DEF HasItsCall
  <2>3. CASE answer = "found"
    <3>1. v = Ranking(t, w, 1) /\ 1 \in 1..(Ranked + 1)
      BY <1>3, <2>1, <2>3 DEF AfterSearch
    <3> HIDE DEF v, noted
    <3> QED
      BY <1>1, <1>8, <2>2, <2>3, <3>1, RankingSound DEF AnswerUsed
  <2>4. CASE answer = "none" /\ w.at = "search" /\ ByQuestion[t].typed
    <3>1. v = GoOn(w, "widen")
      BY <2>1, <2>4 DEF AfterSearch
    <3>2. v \in WorkStates /\ v.at = "widen" /\ v.next = w.next /\ KeepsFound(w, v)
      BY <3>1 DEF GoOn, WorkStates, KeepsFound
    <3> HIDE DEF v, noted
    <3>3. HasItsCall(t, v)
      BY <2>2, <3>2 DEF HasItsCall
    <3> QED
      BY <1>1, <1>8, <2>4, <3>2, <3>3 DEF KeepsFound, AnswerUsed
  <2>5. CASE answer # "found" /\ ~ (answer = "none" /\ w.at = "search" /\ ByQuestion[t].typed)
    <3>1. v = NextQuery(t, w)
      BY <2>1, <2>5 DEF AfterSearch
    <3> HIDE DEF v, noted
    <3> QED
      BY <1>1, <1>8, <2>2, <2>5, <3>1, NextQuerySound DEF KeepsFound, AnswerUsed
  <2> QED
    BY <2>3, <2>4, <2>5
<1>9. CASE answer \notin Refusals /\ w.at = "fetch"
  <2>1. v = AfterFetch(t, w, answer) /\ answer \in {"rejected", "primary", "found"}
    BY <1>9 DEF AfterAnswer, AnswersOf
  <2>2. /\ w.next \in 1..Len(ByQuestion[t].queries) /\ w.rank + 1 \in 1..(Ranked + 1)
        /\ t \in Branches /\ t \notin Tasks
    BY <1>1, <1>3, <1>9 DEF HasItsCall
  <2>3. CallAt(t, w) = Found(t, w, w.rank)
    BY <1>9 DEF CallAt
  <2>4. CASE answer = "rejected"
    <3> DEFINE less == [w EXCEPT !.seen = w.seen \ {Found(t, w, w.rank)}]
    <3>1. v = Ranking(t, less, w.rank + 1)
      BY <2>1, <2>4 DEF AfterFetch
    <3>2. /\ less \in WorkStates /\ less.next = w.next /\ less.calls = w.calls
          /\ less.seen = w.seen \ {CallAt(t, w)}
      BY <2>3 DEF WorkStates
    <3> HIDE DEF v, noted, less
    <3> QED
      BY <1>9, <2>2, <2>4, <3>1, <3>2, RankingSound DEF AnswerUsed
  <2>5. CASE answer = "primary"
    <3> DEFINE full == [w EXCEPT !.hydrated = TRUE]
    <3>1. v = NextQuery(t, full)
      BY <2>1, <2>5 DEF AfterFetch
    <3>2. /\ full \in WorkStates /\ full.next = w.next /\ full.calls = w.calls
          /\ full.seen = w.seen
      BY DEF WorkStates
    <3> HIDE DEF v, noted, full
    <3> QED
      BY <1>9, <2>2, <2>5, <3>1, <3>2, NextQuerySound DEF KeepsFound, AnswerUsed
  <2>6. CASE answer = "found"
    <3>1. v = Ranking(t, w, w.rank + 1)
      BY <2>1, <2>6 DEF AfterFetch
    <3> HIDE DEF v, noted
    <3> QED
      BY <1>9, <2>2, <2>6, <3>1, RankingSound DEF AnswerUsed
  <2> QED
    BY <2>1, <2>4, <2>5, <2>6
<1> QED
  BY <1>1, <1>4, <1>5, <1>6, <1>7, <1>8, <1>9

(* A work state v that a thread at w is left with when no call is left. *)
BrokenOff(t, w, v) ==
  /\ v \in WorkStates /\ HasItsCall(t, v) /\ KeepsFound(w, v)
  /\ v.at \in {"priority", "search", "done"}
  /\ v.at = "priority" => w.at = "disclosure" /\ w.calls < PriorityLimit(t)
  /\ w.at \in {"disclosure", "priority"} /\ v.at = "done" => ByQuestion[t].queries = <<>>
  /\ w.at = "search" => v.at = "done"
  /\ t \in Tasks => v.at = "done"

LEMMA BreakOffSound ==
  ASSUME NEW t \in Threads, work[t] \in WorkStates, HasItsCall(t, work[t]), Asks(t),
         NEW counts, ~ MayCall(t, counts)
  PROVE  BrokenOff(t, work[t], BreakOff(t, work[t])) /\ work[t].at # "rag"
<1> DEFINE w == [work[t] EXCEPT !.exhausted = work[t].exhausted \/ BranchSpent(t, work[t])]
           v == BreakOff(t, work[t])
<1> SUFFICES BrokenOff(t, work[t], v) /\ work[t].at # "rag"
  OBVIOUS
<1>1. BranchSpent(t, work[t]) \in BOOLEAN
  BY DEF BranchSpent
<1>2. /\ w \in WorkStates /\ w.at = work[t].at /\ w.next = work[t].next
      /\ w.calls = work[t].calls /\ w.seen = work[t].seen
  BY <1>1 DEF WorkStates
<1>3. HasItsCall(t, w)
  BY <1>2 DEF HasItsCall
<1>4. w.at \in {"disclosure", "priority", "search", "widen", "fetch"}
  BY <1>2 DEF MayCall, Charged, Asks, Ended, WorkStates
<1>5. 1 \in Nat \ {0} /\ (t \in Tasks => t \notin Branches)
  BY QuestionTypes
<1>6. CASE w.at = "disclosure"
  <2>1. v = ToUrl(t, w, 1)
    BY <1>6 DEF BreakOff
  <2>2. t \in Branches /\ t \notin Tasks
    BY <1>3, <1>5, <1>6 DEF HasItsCall
  <2> HIDE DEF v, w
  <2> QED
    BY <1>2, <1>5, <1>6, <2>1, <2>2, ToUrlSound DEF BrokenOff, KeepsFound
<1>7. CASE w.at = "priority"
  <2>1. v = ToQuery(t, w, 1)
    BY <1>7 DEF BreakOff
  <2>2. t \in Branches /\ t \notin Tasks
    BY <1>3, <1>5, <1>7 DEF HasItsCall
  <2>3. 1 > Len(ByQuestion[t].queries) => ByQuestion[t].queries = <<>>
    BY QuestionTypes, NonEmptyText
  <2> HIDE DEF v, w
  <2> QED
    BY <1>2, <1>5, <1>7, <2>1, <2>2, <2>3, ToQuerySound DEF BrokenOff, KeepsFound
<1>8. CASE w.at = "search" \/ (w.at \in {"widen", "fetch"} /\ w.exhausted)
  <2>1. v = GoOn(w, "done")
    BY <1>8 DEF BreakOff
  <2> HIDE DEF v, w
  <2> QED
    BY <1>2, <1>4, <1>8, <2>1, GoneOn DEF BrokenOff, KeepsFound
<1>9. CASE w.at \in {"widen", "fetch"} /\ ~ w.exhausted
  <2>1. v = NextQuery(t, w)
    BY <1>9 DEF BreakOff
  <2>2. w.next \in 1..Len(ByQuestion[t].queries)
    BY <1>3, <1>9 DEF HasItsCall
  <2> HIDE DEF v, w
  <2> QED
    BY <1>2, <1>9, <2>1, <2>2, NextQuerySound DEF BrokenOff, KeepsFound
<1> QED
  BY <1>2, <1>4, <1>6, <1>7, <1>8, <1>9

(* Where the branches start. *)
LEMMA FreshSound ==
  /\ FreshResearch \in [Threads -> WorkStates]
  /\ \A t \in Threads :
       LET v == FreshResearch[t]
       IN  /\ HasItsCall(t, v)
           /\ v.calls = 0 /\ v.seen = {}
           /\ v.at \in {"off", "rag", "disclosure", "priority", "search", "done"}
           /\ v.at = "off" <=> t \in Tasks
           /\ v.at = "priority" => 0 < PriorityLimit(t)
           /\ v.at = "done" => ByQuestion[t].queries = <<>>
<1> DEFINE Fresh(t) ==
      IF t \in Tasks THEN NewWork("off")
      ELSE IF ByQuestion[t].rag THEN NewWork("rag") ELSE ToDisclosure(t, NewWork("rag"))
           Good(t, v) ==
             /\ v \in WorkStates
             /\ HasItsCall(t, v)
             /\ v.calls = 0 /\ v.seen = {}
             /\ v.at \in {"off", "rag", "disclosure", "priority", "search", "done"}
             /\ v.at = "off" <=> t \in Tasks
             /\ v.at = "priority" => 0 < PriorityLimit(t)
             /\ v.at = "done" => ByQuestion[t].queries = <<>>
<1>1. ASSUME NEW place \in {"off", "rag"}
      PROVE  /\ NewWork(place) \in WorkStates /\ NewWork(place).at = place
             /\ NewWork(place).calls = 0 /\ NewWork(place).seen = {}
  BY DEF NewWork, WorkStates
<1>2. ASSUME NEW t \in Threads
      PROVE  Good(t, Fresh(t))
  <2>1. CASE t \in Tasks
    BY <1>1, <2>1 DEF HasItsCall
  <2>2. CASE t \notin Tasks /\ ByQuestion[t].rag
    BY <1>1, <2>2 DEF HasItsCall, Threads
  <2>3. CASE t \notin Tasks /\ ~ ByQuestion[t].rag
    <3>1. t \in Branches
      BY <2>3 DEF Threads
    <3> DEFINE v == ToDisclosure(t, NewWork("rag"))
    <3>2. Fresh(t) = v
      BY <2>3
    <3>3. /\ v \in WorkStates /\ HasItsCall(t, v) /\ KeepsFound(NewWork("rag"), v)
          /\ v.at \in {"disclosure", "priority", "search", "done"}
          /\ v.at = "priority" => NewWork("rag").calls < PriorityLimit(t)
          /\ v.at = "done" => ByQuestion[t].queries = <<>>
      BY <1>1, <3>1, ToDisclosureSound
    <3>4. NewWork("rag").calls = 0 /\ NewWork("rag").seen = {}
      BY <1>1
    <3> HIDE DEF Fresh, v
    <3>5. Good(t, v)
      BY <2>3, <3>3, <3>4 DEF KeepsFound
    <3> QED
      BY <3>2, <3>5
  <2> QED
    BY <2>1, <2>2, <2>3
<1>3. FreshResearch = [t \in Threads |-> Fresh(t)]
  BY DEF FreshResearch
<1> HIDE DEF Fresh
<1> QED
  BY <1>2, <1>3

---------------------------------------------------------------------------
(* Requests. *)

LEMMA AllowancesNat ==
  /\ max_searches \in Nat /\ max_search_requests \in Nat
  /\ max_fetch_requests \in Nat /\ max_authority_requests \in Nat
BY ResearchAssumption

LEMMA LaneSound ==
  ASSUME NEW t \in Threads, work[t] \in WorkStates, Asks(t)
  PROVE  /\ Lane(t) \in Lanes \cup {"none"}
         /\ Lane(t) = "search" <=> work[t].at \in {"search", "widen"}
         /\ Lane(t) = "none" <=> work[t].at = "rag"
         /\ RequestsOf(t) \subseteq Nat
<1>1. work[t].at \in {"rag", "disclosure", "priority", "search", "widen", "fetch"}
  BY DEF Asks, Ended, WorkStates
<1>2. /\ Lane(t) \in Lanes \cup {"none"}
      /\ Lane(t) = "search" <=> work[t].at \in {"search", "widen"}
      /\ Lane(t) = "none" <=> work[t].at = "rag"
  BY <1>1 DEF Lane, Lanes
<1>3. Lane(t) # "none" => MaxRequests[Lane(t)] \in Nat
  BY <1>2, ResearchAssumption
<1>4. \A n \in Nat : 1..n \subseteq Nat
  OBVIOUS
<1>5. {0} \subseteq Nat
  OBVIOUS
<1>6. RequestsOf(t) \subseteq Nat
  BY <1>3, <1>4, <1>5 DEF RequestsOf
<1> QED
  BY <1>2, <1>6

(* The quota is used one by one, and by nothing but a charged search. *)
LEMMA ChargedSound ==
  ASSUME scope \in Scopes, NEW t \in Threads, NEW counts \in BOOLEAN, MayCall(t, counts)
  PROVE  LET s == ChargedScope(t, counts)
         IN  /\ s \in Scopes /\ s.quota >= scope.quota
             /\ s.search = scope.search /\ s.fetch = scope.fetch /\ s.authority = scope.authority
<1>1. scope.quota \in Nat /\ scope.quota <= max_searches
  BY AllowancesNat DEF Scopes
<1>2. Charged(t) /\ counts => scope.quota + 1 \in 0..max_searches
  BY <1>1, AllowancesNat DEF MayCall, QuotaSpent
<1>3. CASE Charged(t) /\ counts
  <2>1. ChargedScope(t, counts) = [scope EXCEPT !.quota = scope.quota + 1]
    BY <1>3 DEF ChargedScope
  <2>2. scope.quota + 1 \in 0..max_searches /\ scope.quota + 1 >= scope.quota
    BY <1>1, <1>2, <1>3
  <2> QED
    BY <2>1, <2>2 DEF Scopes
<1>4. CASE ~ (Charged(t) /\ counts)
  <2>1. ChargedScope(t, counts) = [scope EXCEPT !.quota = scope.quota]
    BY <1>4 DEF ChargedScope
  <2> QED
    BY <1>1, <2>1 DEF Scopes
<1> QED
  BY <1>3, <1>4

(* The allowance of a lane is never exceeded, and only a search that fits  *)
(* takes from that of searches what it asks for.                           *)
LEMMA TakenSound ==
  ASSUME scope \in Scopes, NEW s \in Scopes, s.search = scope.search, s.fetch = scope.fetch,
         s.authority = scope.authority, NEW lane \in Lanes \cup {"none"}, NEW n \in Nat,
         NEW answer, answer \in Refusals \/ Fits(lane, n)
  PROVE  LET r == Taken(s, lane, n, answer)
         IN  /\ r \in Scopes /\ r.quota = s.quota
             /\ lane # "search" => r.search = s.search
             /\ lane = "search" /\ Fits(lane, n) => r.search = s.search + n
             /\ lane = "search" /\ ~ Fits(lane, n) => r.search = max_search_requests
<1>0. \A m \in Nat : m \in 0..m
  OBVIOUS
<1>1. CASE lane = "none"
  BY <1>1 DEF Taken, Fits
<1>2. CASE lane = "search"
  <2>1. scope[lane] = scope.search /\ Allowance(lane) = max_search_requests /\ scope.search \in Nat
    BY <1>2, AllowancesNat DEF Allowance, Scopes
  <2>2. CASE Fits(lane, n)
    <3>1. Taken(s, lane, n, answer) = [s EXCEPT !.search = s.search + n]
      BY <1>2, <2>2 DEF Taken
    <3>2. s.search + n \in 0..max_search_requests
      BY <1>2, <2>1, <2>2, AllowancesNat DEF Fits
    <3> QED
      BY <1>2, <2>2, <3>1, <3>2 DEF Scopes
  <2>3. CASE ~ Fits(lane, n)
    <3>1. Taken(s, lane, n, answer) = [s EXCEPT !.search = max_search_requests, !.refusal = answer]
      <4>1. Taken(s, lane, n, answer) = [s EXCEPT ![lane] = Allowance(lane), !.refusal = answer]
        BY <1>2, <2>3 DEF Taken
      <4> QED
        BY <1>2, <2>1, <4>1, Zenon
    <3>2. max_search_requests \in 0..max_search_requests
      BY <1>0, AllowancesNat
    <3> QED
      BY <1>2, <2>3, <3>1, <3>2 DEF Scopes
  <2> QED
    BY <2>2, <2>3
<1>3. CASE lane = "fetch"
  <2>1. scope[lane] = scope.fetch /\ Allowance(lane) = max_fetch_requests /\ scope.fetch \in Nat
    BY <1>3, AllowancesNat DEF Allowance, Scopes
  <2>2. CASE Fits(lane, n)
    <3>1. Taken(s, lane, n, answer) = [s EXCEPT !.fetch = s.fetch + n]
      BY <1>3, <2>2 DEF Taken
    <3>2. s.fetch + n \in 0..max_fetch_requests
      BY <1>3, <2>1, <2>2, AllowancesNat DEF Fits
    <3> QED
      BY <1>3, <3>1, <3>2 DEF Scopes
  <2>3. CASE ~ Fits(lane, n)
    <3>1. Taken(s, lane, n, answer) = [s EXCEPT !.fetch = max_fetch_requests, !.refusal = answer]
      <4>1. Taken(s, lane, n, answer) = [s EXCEPT ![lane] = Allowance(lane), !.refusal = answer]
        BY <1>3, <2>3 DEF Taken
      <4> QED
        BY <1>3, <2>1, <4>1, Zenon
    <3>2. max_fetch_requests \in 0..max_fetch_requests
      BY <1>0, AllowancesNat
    <3> QED
      BY <1>3, <2>3, <3>1, <3>2 DEF Scopes
  <2> QED
    BY <2>2, <2>3
<1>4. CASE lane = "authority"
  <2>1. /\ scope[lane] = scope.authority /\ Allowance(lane) = max_authority_requests
        /\ scope.authority \in Nat
    BY <1>4, AllowancesNat DEF Allowance, Scopes
  <2>2. CASE Fits(lane, n)
    <3>1. Taken(s, lane, n, answer) = [s EXCEPT !.authority = s.authority + n]
      BY <1>4, <2>2 DEF Taken
    <3>2. s.authority + n \in 0..max_authority_requests
      BY <1>4, <2>1, <2>2, AllowancesNat DEF Fits
    <3> QED
      BY <1>4, <3>1, <3>2 DEF Scopes
  <2>3. CASE ~ Fits(lane, n)
    <3>1. /\ Taken(s, lane, n, answer)
               = [s EXCEPT !.authority = max_authority_requests, !.refusal = answer]
      <4>1. Taken(s, lane, n, answer) = [s EXCEPT ![lane] = Allowance(lane), !.refusal = answer]
        BY <1>4, <2>3 DEF Taken
      <4> QED
        BY <1>4, <2>1, <4>1, Zenon
    <3>2. max_authority_requests \in 0..max_authority_requests
      BY <1>0, AllowancesNat
    <3> QED
      BY <1>4, <2>3, <3>1, <3>2 DEF Scopes
  <2> QED
    BY <2>2, <2>3
<1> QED
  BY <1>1, <1>2, <1>3, <1>4 DEF Lanes

(* A charge, and then what the call takes. *)
LEMMA CallPaid ==
  ASSUME scope \in Scopes, NEW t \in Threads, work[t] \in WorkStates, Asks(t),
         NEW counts \in BOOLEAN, MayCall(t, counts), NEW n \in Nat,
         NEW answer, answer \in Refusals \/ Fits(Lane(t), n)
  PROVE  LET r == Taken(ChargedScope(t, counts), Lane(t), n, answer)
         IN  /\ r \in Scopes /\ r.quota >= scope.quota
             /\ Lane(t) # "search" => r.search = scope.search
             /\ Lane(t) = "search" /\ Fits(Lane(t), n) => r.search = scope.search + n
             /\ Lane(t) = "search" /\ ~ Fits(Lane(t), n) => r.search = max_search_requests
<1> DEFINE s == ChargedScope(t, counts)
           r == Taken(s, Lane(t), n, answer)
<1>1. /\ s \in Scopes /\ s.quota >= scope.quota
      /\ s.search = scope.search /\ s.fetch = scope.fetch /\ s.authority = scope.authority
  BY ChargedSound
<1>2. Lane(t) \in Lanes \cup {"none"}
  BY LaneSound
<1> HIDE DEF s
<1>3. /\ r \in Scopes /\ r.quota = s.quota
      /\ Lane(t) # "search" => r.search = s.search
      /\ Lane(t) = "search" /\ Fits(Lane(t), n) => r.search = s.search + n
      /\ Lane(t) = "search" /\ ~ Fits(Lane(t), n) => r.search = max_search_requests
  BY <1>1, <1>2, TakenSound
<1> HIDE DEF r
<1>4. r \in Scopes /\ r.quota >= scope.quota
  BY <1>1, <1>3
<1>5. /\ Lane(t) # "search" => r.search = scope.search
      /\ Lane(t) = "search" /\ Fits(Lane(t), n) => r.search = scope.search + n
      /\ Lane(t) = "search" /\ ~ Fits(Lane(t), n) => r.search = max_search_requests
  BY <1>1, <1>3
<1> QED
  BY <1>4, <1>5 DEF r, s

---------------------------------------------------------------------------
(* Numbers and heads of queues. *)

(* A nonempty set of naturals has a least element. *)
LEMMA MinimumExists ==
  ASSUME NEW S \in SUBSET Nat, S # {}
  PROVE  \E x \in S : \A y \in S : x <= y
<1> DEFINE below(m) == {k \in S : k < m}
           B == {below(m) : m \in S}
           R == StrictSubsetOrdering(Nat)
<1>1. B \subseteq FiniteSubsetsOf(Nat)
  <2> SUFFICES ASSUME NEW m \in S PROVE IsFiniteSet(below(m))
    BY DEF FiniteSubsetsOf
  <2>1. m \in Nat /\ \A k \in S : k \in Nat
    OBVIOUS
  <2>2. \A k \in below(m) : k \in 0..m
    BY <2>1
  <2>3. IsFiniteSet(0..m)
    BY <2>1, FS_Interval
  <2>4. below(m) \in SUBSET (0..m)
    BY <2>2
  <2> QED
    BY <2>3, <2>4, FS_Subset
<1>2. IsWellFoundedOn(R, FiniteSubsetsOf(Nat))
  BY FS_StrictSubsetOrderingWellFounded
<1>3. B # {}
  OBVIOUS
<1>4. PICK b \in B : \A c \in B : ~ (<<c, b>> \in R)
  <2> HIDE DEF B, R
  <2> QED
    BY <1>1, <1>2, <1>3, WFMin
<1>5. PICK m \in S : b = below(m)
  OBVIOUS
<1>6. ASSUME NEW y \in S, y < m PROVE FALSE
  <2>1. below(y) \subseteq below(m) /\ below(y) # below(m)
    <3>1. y \in below(m) /\ y \notin below(y)
      BY <1>6
    <3>2. \A k \in S : k < y => k < m
      BY <1>6
    <3> QED
      BY <3>1, <3>2
  <2>2. below(y) \in SUBSET Nat /\ below(m) \in SUBSET Nat
    OBVIOUS
  <2>3. <<below(y), b>> \in R
    BY <1>5, <2>1, <2>2 DEF StrictSubsetOrdering
  <2> QED
    BY <1>4, <2>3
<1> QED
  BY <1>6

(* The highest of numbers up to n. *)
LEMMA HighestSound ==
  ASSUME NEW S \in SUBSET Nat, S # {}, NEW n \in Nat, \A x \in S : x <= n
  PROVE  Max(S) \in S /\ \A x \in S : x <= Max(S)
<1> DEFINE Bounds(m) == \A x \in S : x <= m
           U == {m \in Nat : Bounds(m)}
<1>1. U \in SUBSET Nat /\ U # {}
  OBVIOUS
<1>2. PICK m \in U : \A k \in U : m <= k
  <2> HIDE DEF U
  <2> QED
    BY <1>1, MinimumExists
<1>3. m \in Nat /\ \A x \in S : x <= m /\ x \in Nat
  OBVIOUS
<1>4. m \in S
  <2> SUFFICES ASSUME m \notin S PROVE FALSE
    OBVIOUS
  <2>1. \A x \in S : x < m
    BY <1>3
  <2>2. PICK y : y \in S
    OBVIOUS
  <2>3. m - 1 \in Nat /\ \A x \in S : x <= m - 1
    <3>1. y \in Nat /\ y < m
      BY <2>1, <2>2
    <3>2. m - 1 \in Nat
      BY <1>3, <3>1
    <3> QED
      BY <1>3, <2>1, <3>2
  <2>4. m - 1 \in U
    BY <2>3
  <2> HIDE DEF U
  <2>5. m <= m - 1
    BY <1>2, <2>4
  <2> QED
    BY <1>3, <2>5
<1>5. \E x \in S : \A y \in S : x >= y
  BY <1>3, <1>4
<1>6. Max(S) \in S /\ \A y \in S : Max(S) >= y
  BY <1>5 DEF Max
<1> QED
  BY <1>3, <1>6

(* The number a call is given is the next one, if there is none missing.   *)
LEMMA NextSequenceSound ==
  ASSUME trace \in Seq(Traces), \A i \in DOMAIN trace : trace[i].sequence <= Len(trace),
         NEW t \in Threads
  PROVE  /\ NextSequence(t) \in 1..(Len(trace) + 1)
         /\ Contiguous => NextSequence(t) = Len(trace) + 1
<1> DEFINE numbers == {trace[i].sequence : i \in DOMAIN trace}
           S == {0} \cup numbers
           n == Len(trace)
<1>1. n \in Nat /\ DOMAIN trace = 1..n
  OBVIOUS
<1>2. \A i \in DOMAIN trace : trace[i].sequence \in Nat
  <2>1. \A i \in DOMAIN trace : trace[i] \in Traces
    BY <1>1
  <2> QED
    BY <2>1 DEF Traces
<1>3. S \in SUBSET Nat /\ S # {} /\ 0 \in S
  BY <1>2
<1>4. \A x \in S : x <= n
  BY <1>1
<1> HIDE DEF S, n
<1>5. Max(S) \in S /\ \A x \in S : x <= Max(S)
  BY <1>1, <1>3, <1>4, HighestSound
<1>6. Max(S) \in Nat /\ Max(S) <= n
  BY <1>3, <1>4, <1>5
<1>7. NextSequence(t) = 1 + Max(S)
  BY DEF NextSequence, S
<1>8. ASSUME Contiguous PROVE Max(S) = n
  <2>1. numbers = 1..n
    BY <1>1, <1>8 DEF Contiguous
  <2>2. n \in S
    BY <1>1, <2>1 DEF S
  <2>3. n <= Max(S)
    BY <1>5, <2>2
  <2> QED
    BY <1>1, <1>6, <2>3
<1>9. 1 + Max(S) \in 1..(n + 1) /\ (Max(S) = n => 1 + Max(S) = n + 1)
  BY <1>1, <1>6
<1> QED
  BY <1>7, <1>8, <1>9 DEF n

LEMMA FirstSound ==
  ASSUME trace \in Seq(Traces), left \subseteq DOMAIN trace, NEW c, Queue(c) # {}
  PROVE  First(c) \in Queue(c) /\ First(c) \in left /\ \A j \in Queue(c) : First(c) <= j
<1>1. Queue(c) \in SUBSET Nat /\ Queue(c) \subseteq left
  BY DEF Queue
<1>2. \E i \in Queue(c) : \A j \in Queue(c) : i <= j
  BY <1>1, MinimumExists
<1> QED
  BY <1>1, <1>2 DEF First

LEMMA AnswersSound ==
  ASSUME NEW t \in Threads, work[t] \in WorkStates, HasItsCall(t, work[t]), Asks(t)
  PROVE  /\ Answers(t) \subseteq AnswersOf \ Refusals
         /\ work[t].at = "fetch" => "none" \notin Answers(t)
<1>1. /\ work[t].at \in {"rag", "disclosure", "priority", "search", "widen", "fetch"}
      /\ work[t].at = "fetch" => t \in Branches
      /\ t \in Tasks => t \notin Branches
      /\ t \in Branches \/ t \in Tasks
  BY QuestionTypes DEF Asks, Ended, WorkStates, HasItsCall, Threads
<1>2. CASE work[t].at \in {"rag", "disclosure", "priority"} \/ t \in Tasks
  BY <1>1, <1>2 DEF Answers, AnswersOf, Refusals
<1>3. CASE work[t].at = "fetch"
  BY <1>1, <1>3 DEF Answers, AnswersOf, Refusals
<1>4. CASE work[t].at \in {"search", "widen"} /\ t \in Branches
  BY <1>1, <1>4 DEF Answers, AnswersOf, Refusals
<1> QED
  BY <1>1, <1>2, <1>3, <1>4

---------------------------------------------------------------------------
(* The invariant the others rest on. *)

(* The phase of the engine and where the threads are in it. *)
Phased ==
  /\ run.phase = "research" => ~ run.joined /\ \A t \in Tasks : work[t].at = "off"
  /\ run.phase # "research" => \A b \in Branches : Ended(b)
  /\ run.phase = "retry" => run.joined /\ \A t \in Tasks \ run.active : work[t].at = "off"
  /\ Over => \A t \in Threads : ~ Asks(t)

(* An answer that is not used yet belongs to the call its thread is at.    *)
AwaitedAt(t) ==
  asked[t] # NoCall =>
    /\ FirstRun /\ Asks(t)
    /\ asked[t].call = CallOf(t) /\ asked[t].by = t
    /\ asked[t].answer \in Answers(t) \cup Refusals
    /\ work[t].at = "rag" => asked[t].answer \notin Refusals

Awaited == \A t \in Threads : AwaitedAt(t)

(* A call's number is at most one more than the calls recorded; what is    *)
(* recorded of a fetch is the answer of a fetch.                           *)
TraceSound ==
  /\ \A i \in DOMAIN trace :
       /\ trace[i].sequence <= Len(trace)
       /\ trace[i].call[1] = "fetch" /\ trace[i].call[3] # 0 => trace[i].answer # "none"
  /\ \A t \in Threads : asked[t].sequence <= Len(trace) + 1

Base == Typed /\ Phased /\ Awaited /\ TraceSound

(* A thread that asks is a branch, or later a retry that was scheduled.    *)
LEMMA AskingPhase ==
  ASSUME Typed, Phased, NEW t \in Threads, Asks(t)
  PROVE  \/ run.phase = "research" /\ t \in Branches
         \/ run.phase = "retry" /\ t \in Tasks /\ t \in run.active
<1>1. run.phase \in {"research", "retry", "completed", "budget_exceeded"}
  BY DEF Typed, RunStates
<1>2. t \in Branches \/ t \in Tasks
  BY DEF Threads
<1>3. CASE run.phase = "research"
  BY <1>2, <1>3 DEF Phased, Asks
<1>4. CASE run.phase = "retry"
  BY <1>2, <1>4 DEF Phased, Asks
<1>5. run.phase \notin {"completed", "budget_exceeded"}
  BY DEF Phased, Over
<1> QED
  BY <1>1, <1>3, <1>4, <1>5

(* One thread moves on. *)
LEMMA MovedOn ==
  ASSUME Typed, Phased, NEW t \in Threads, Asks(t),
         NEW v \in WorkStates, HasItsCall(t, v), v.at # "off",
         work' = [work EXCEPT ![t] = v], run' = run
  PROVE  /\ WorkTyped' /\ Phased'
         /\ work'[t] = v /\ \A u \in Threads \ {t} : work'[u] = work[u]
<1>1. /\ work' \in [Threads -> WorkStates]
      /\ work'[t] = v /\ \A u \in Threads \ {t} : work'[u] = work[u]
  BY DEF Typed, WorkTyped
<1>2. WorkTyped'
  <2>1. \A u \in Threads : HasItsCall(u, work'[u])
    BY <1>1 DEF Typed, WorkTyped
  <2> QED
    BY <1>1, <2>1 DEF WorkTyped
<1>3. \/ run.phase = "research" /\ t \in Branches
      \/ run.phase = "retry" /\ t \in Tasks /\ t \in run.active
  BY AskingPhase
<1>4. /\ Tasks \subseteq Threads /\ Branches \subseteq Threads
      /\ t \in Branches => t \notin Tasks
  BY QuestionTypes DEF Threads
<1>5. CASE run.phase = "research" /\ t \in Branches
  <2>1. \A u \in Tasks : work'[u] = work[u]
    BY <1>1, <1>4, <1>5
  <2> QED
    BY <1>2, <1>1, <1>5, <2>1 DEF Phased, Over
<1>6. CASE run.phase = "retry" /\ t \in Tasks /\ t \in run.active
  <2>1. \A b \in Branches : work'[b] = work[b]
    BY <1>1, <1>4, <1>6
  <2>2. \A u \in Tasks \ run.active : work'[u] = work[u]
    BY <1>1, <1>4, <1>6
  <2> QED
    BY <1>2, <1>1, <1>6, <2>1, <2>2 DEF Phased, Over, Ended
<1> QED
  BY <1>1, <1>2, <1>3, <1>5, <1>6

LEMMA AwaitedKept ==
  ASSUME NEW u \in Threads, AwaitedAt(u),
         work'[u].at = work[u].at, work'[u].next = work[u].next, work'[u].rank = work[u].rank,
         asked'[u] # NoCall => asked[u] # NoCall,
         asked'[u].call = asked[u].call, asked'[u].by = asked[u].by,
         asked'[u].answer = asked[u].answer,
         mode' = mode
  PROVE  AwaitedAt(u)'
<1>1. CallOf(u)' = CallOf(u)
  BY DEF CallOf, CallAt, Call, Url, Query, Found, TopK
<1>2. Answers(u)' = Answers(u)
  BY DEF Answers
<1>3. Asks(u)' = Asks(u) /\ FirstRun' = FirstRun
  BY DEF Asks, Ended, FirstRun
<1> QED
  BY <1>1, <1>2, <1>3 DEF AwaitedAt

(* What a call of the first run finds and leaves. *)
LEMMA AskStep ==
  ASSUME Base, NEW t \in Threads, Ask(t)
  PROVE  /\ FirstRun /\ Asks(t) /\ asked[t] = NoCall
         /\ MayCall(t, mode = "bare")
         /\ work' = [work EXCEPT ![t] = ChargedWork(t)]
         /\ ChargedWork(t) \in WorkStates /\ HasItsCall(t, ChargedWork(t))
         /\ ChargedWork(t).at = work[t].at /\ ChargedWork(t).next = work[t].next
         /\ ChargedWork(t).rank = work[t].rank /\ ChargedWork(t).seen = work[t].seen
         /\ ChargedWork(t).calls = IF work[t].at = "rag" THEN work[t].calls
                                   ELSE work[t].calls + 1
         /\ \E n \in RequestsOf(t), got \in Answers(t) \cup Refusals :
              /\ got \in Refusals <=> ~ Fits(Lane(t), n)
              /\ scope' = Taken(ChargedScope(t, mode = "bare"), Lane(t), n, got)
              /\ asked' = [asked EXCEPT ![t] =
                   [call |-> CallOf(t), by |-> t, sequence |-> 0, answer |-> got]]
              /\ seenAs' = [seenAs EXCEPT !.repeated = @ \/ (t \in Tasks /\ n > 1)]
         /\ UNCHANGED <<run, mode, trace, left, kept, shown>>
<1> DEFINE w == ChargedWork(t)
<1>1. work[t] \in WorkStates /\ HasItsCall(t, work[t])
  BY DEF Base, Typed, WorkTyped
<1>2. w = [work[t] EXCEPT !.calls = IF Charged(t) THEN work[t].calls + 1 ELSE work[t].calls]
  BY DEF ChargedWork
<1>3. /\ w \in WorkStates /\ w.at = work[t].at /\ w.next = work[t].next
      /\ w.rank = work[t].rank /\ w.seen = work[t].seen
      /\ w.calls = IF work[t].at = "rag" THEN work[t].calls ELSE work[t].calls + 1
  BY <1>1, <1>2 DEF WorkStates, Charged
<1> HIDE DEF w
<1>4. HasItsCall(t, w)
  BY <1>1, <1>3 DEF HasItsCall
<1>5. /\ FirstRun /\ Asks(t) /\ asked[t] = NoCall /\ MayCall(t, mode = "bare")
      /\ work' = [work EXCEPT ![t] = w]
      /\ UNCHANGED <<run, mode, trace, left, kept, shown>>
  BY DEF Ask, FirstRun, w
<1>6. \E n \in RequestsOf(t), got \in Answers(t) \cup Refusals :
        /\ got \in Refusals <=> ~ Fits(Lane(t), n)
        /\ scope' = Taken(ChargedScope(t, mode = "bare"), Lane(t), n, got)
        /\ asked' = [asked EXCEPT ![t] =
             [call |-> CallOf(t), by |-> t, sequence |-> 0, answer |-> got]]
        /\ seenAs' = [seenAs EXCEPT !.repeated = @ \/ (t \in Tasks /\ n > 1)]
  BY <1>1, <1>5, LaneSound DEF Ask, Note, RefusalsOf, Refusals, Lanes
<1> QED
  BY <1>3, <1>4, <1>5, <1>6 DEF w

LEMMA NotedSound ==
  ASSUME seenAs \in Observed, NEW what \in {"overlap", "hidden", "repeated", "reordered"},
         NEW holds \in BOOLEAN, Note(what, holds)
  PROVE  /\ seenAs' \in Observed
         /\ \A field \in {"overlap", "hidden", "repeated", "reordered", "unraised", "either"} :
              seenAs[field] => seenAs'[field]
BY DEF Note, Observed

LEMMA AskBase ==
  ASSUME Base, NEW t \in Threads, Ask(t)
  PROVE  Base'
<1> DEFINE w == ChargedWork(t)
<1>1. /\ FirstRun /\ Asks(t) /\ MayCall(t, mode = "bare")
      /\ work' = [work EXCEPT ![t] = w]
      /\ w \in WorkStates /\ HasItsCall(t, w)
      /\ w.at = work[t].at /\ w.next = work[t].next /\ w.rank = work[t].rank
      /\ UNCHANGED <<run, mode, trace, left, kept, shown>>
  BY AskStep
<1>2. PICK n \in RequestsOf(t), got \in Answers(t) \cup Refusals :
        /\ got \in Refusals <=> ~ Fits(Lane(t), n)
        /\ scope' = Taken(ChargedScope(t, mode = "bare"), Lane(t), n, got)
        /\ asked' = [asked EXCEPT ![t] =
             [call |-> CallOf(t), by |-> t, sequence |-> 0, answer |-> got]]
        /\ seenAs' = [seenAs EXCEPT !.repeated = @ \/ (t \in Tasks /\ n > 1)]
  BY AskStep
<1> DEFINE call == [call |-> CallOf(t), by |-> t, sequence |-> 0, answer |-> got]
<1> HIDE DEF w
<1>3. Typed /\ Phased /\ Awaited /\ TraceSound /\ w.at # "off"
  BY <1>1 DEF Base, Asks
<1>4. work[t] \in WorkStates /\ HasItsCall(t, work[t])
  BY <1>3 DEF Typed, WorkTyped
<1>5. /\ WorkTyped' /\ Phased' /\ work'[t] = w
      /\ \A u \in Threads \ {t} : work'[u] = work[u]
  BY <1>1, <1>3, MovedOn
<1>6. scope' \in Scopes
  BY <1>1, <1>2, <1>3, <1>4, CallPaid, LaneSound DEF Typed
<1>7. got \in Answers(t) \cup Refusals /\ got \in AnswersOf
  BY <1>1, <1>2, <1>4, AnswersSound DEF AnswersOf
<1>8. work[t].at = "rag" => got \notin Refusals
  BY <1>1, <1>2, <1>4, LaneSound DEF Fits
<1>9. CallOf(t) \in Calls
  BY <1>1, <1>4, CallTyped
<1>10. call \in Traces /\ call.sequence = 0 /\ call.call = CallOf(t) /\ call.by = t
       /\ call.answer = got
  BY <1>7, <1>9 DEF Traces
<1>11. /\ asked' \in [Threads -> Traces \cup {NoCall}] /\ asked'[t] = call
       /\ \A u \in Threads \ {t} : asked'[u] = asked[u]
  <2>1. asked' = [asked EXCEPT ![t] = call]
    BY <1>2
  <2> HIDE DEF call
  <2> QED
    BY <1>3, <1>10, <2>1 DEF Typed
<1> HIDE DEF call
<1>12. seenAs' \in Observed
  <2>1. (t \in Tasks /\ n > 1) \in BOOLEAN
    OBVIOUS
  <2>2. Note("repeated", t \in Tasks /\ n > 1)
    BY <1>2 DEF Note
  <2> QED
    BY <1>3, <2>1, <2>2, NotedSound DEF Typed
<1>13. Typed'
  BY <1>1, <1>3, <1>5, <1>6, <1>11, <1>12 DEF Typed
<1>14. Awaited'
  <2>1. AwaitedAt(t)'
    <3>1. CallOf(t)' = CallOf(t)
      BY <1>1, <1>5 DEF CallOf, CallAt, Call, Url, Query, Found, TopK
    <3>2. Answers(t)' = Answers(t)
      BY <1>1, <1>5 DEF Answers
    <3>3. Asks(t)' /\ FirstRun'
      BY <1>1, <1>5 DEF Asks, Ended, FirstRun
    <3> QED
      BY <1>1, <1>5, <1>7, <1>8, <1>10, <1>11, <3>1, <3>2, <3>3 DEF AwaitedAt
  <2>2. ASSUME NEW u \in Threads \ {t}
        PROVE  AwaitedAt(u)'
    BY <1>1, <1>3, <1>5, <1>11, AwaitedKept DEF Awaited
  <2> QED
    BY <2>1, <2>2 DEF Awaited
<1>15. TraceSound'
  <2>1. Len(trace) \in Nat
    BY <1>3 DEF Typed
  <2> QED
    BY <1>1, <1>3, <1>10, <1>11, <2>1 DEF TraceSound
<1> QED
  BY <1>5, <1>13, <1>14, <1>15 DEF Base

LEMMA NoCallUnnumbered == NoCall.sequence = 0
BY DEF NoCall, Call

LEMMA NumberStep ==
  ASSUME Base, NEW t \in Threads, Number(t)
  PROVE  /\ NextSequence(t) \in 1..(Len(trace) + 1)
         /\ Contiguous => NextSequence(t) = Len(trace) + 1
         /\ asked' \in [Threads -> Traces \cup {NoCall}]
         /\ asked'[t].sequence = NextSequence(t) /\ asked'[t].sequence # 0
         /\ asked'[t].call = asked[t].call
         /\ asked'[t].by = asked[t].by /\ asked'[t].answer = asked[t].answer
         /\ \A u \in Threads \ {t} : asked'[u] = asked[u]
<1> DEFINE n == NextSequence(t)
           x == [asked[t] EXCEPT !.sequence = n]
<1>1. Typed /\ TraceSound
  BY DEF Base
<1>2. trace \in Seq(Traces) /\ Len(trace) \in Nat
  BY <1>1 DEF Typed
<1>3. n \in 1..(Len(trace) + 1) /\ (Contiguous => n = Len(trace) + 1)
  BY <1>1, <1>2, NextSequenceSound DEF TraceSound
<1>4. n \in Nat /\ n # 0
  BY <1>2, <1>3
<1>5. asked[t] \in Traces /\ asked' = [asked EXCEPT ![t] = x]
  BY <1>1 DEF Number, Typed
<1> HIDE DEF n
<1>6. /\ x \in Traces /\ x.sequence = n /\ x.call = asked[t].call
      /\ x.by = asked[t].by /\ x.answer = asked[t].answer
  BY <1>4, <1>5 DEF Traces
<1> HIDE DEF x
<1>7. /\ asked' \in [Threads -> Traces \cup {NoCall}] /\ asked'[t] = x
      /\ \A u \in Threads \ {t} : asked'[u] = asked[u]
  BY <1>1, <1>5, <1>6 DEF Typed
<1> QED
  BY <1>3, <1>4, <1>6, <1>7 DEF n

LEMMA NumberBase ==
  ASSUME Base, NEW t \in Threads, Number(t)
  PROVE  Base'
<1>1. Typed /\ Phased /\ Awaited /\ TraceSound
  BY DEF Base
<1>2. Len(trace) \in Nat
  BY <1>1 DEF Typed
<1>3. /\ asked' \in [Threads -> Traces \cup {NoCall}]
      /\ asked'[t].sequence \in 1..(Len(trace) + 1) /\ asked'[t].call = asked[t].call
      /\ asked'[t].by = asked[t].by /\ asked'[t].answer = asked[t].answer
      /\ \A u \in Threads \ {t} : asked'[u] = asked[u]
  BY NumberStep
<1>4. asked'[t].sequence <= Len(trace) + 1
  BY <1>2, <1>3
<1>7. /\ work' = work /\ scope' = scope /\ run' = run
      /\ UNCHANGED <<mode, trace, left, kept, shown>>
  BY DEF Number, research
<1>8. seenAs' \in Observed
  <2>1. (\E u \in Threads : asked[u].sequence > 0) \in BOOLEAN
    OBVIOUS
  <2>2. Note("overlap", \E u \in Threads : asked[u].sequence > 0)
    BY DEF Number
  <2> QED
    BY <1>1, <2>1, <2>2, NotedSound DEF Typed
<1>9. Typed'
  BY <1>1, <1>3, <1>7, <1>8 DEF Typed, WorkTyped
<1>10. Phased'
  BY <1>1, <1>7 DEF Phased, Ended, Asks, Over
<1>11. Awaited'
  <2>1. ASSUME NEW u \in Threads
        PROVE  AwaitedAt(u)'
    <3>1. /\ asked'[u].call = asked[u].call /\ asked'[u].by = asked[u].by
          /\ asked'[u].answer = asked[u].answer
          /\ asked'[u] # NoCall => asked[u] # NoCall
      BY <1>3 DEF Number
    <3> QED
      BY <1>1, <1>7, <3>1, AwaitedKept DEF Awaited
  <2> QED
    BY <2>1 DEF Awaited
<1>12. TraceSound'
  BY <1>1, <1>3, <1>4, <1>7 DEF TraceSound
<1> QED
  BY <1>9, <1>10, <1>11, <1>12 DEF Base

(* What a thread is told of the answer. *)
Told(t) == IF Hidden(t) THEN "none" ELSE asked[t].answer

LEMMA UseStep ==
  ASSUME Base, NEW t \in Threads, Use(t)
  PROVE  /\ FirstRun /\ Asks(t) /\ asked[t] # NoCall /\ asked[t] \in Traces
         /\ asked[t].call = CallOf(t) /\ asked[t].by = t
         /\ asked[t].answer \in Answers(t) \cup Refusals
         /\ work[t].at = "rag" => asked[t].answer \notin Refusals
         /\ Told(t) \in AnswersOf
         /\ AnswerUsed(t, work[t], Told(t), AfterAnswer(t, work[t], Told(t)))
         /\ work' = [work EXCEPT ![t] = AfterAnswer(t, work[t], Told(t))]
         /\ trace' = IF mode = "live" THEN Append(trace, asked[t]) ELSE trace
         /\ mode = "live" => asked[t].sequence > 0
         /\ asked' = [asked EXCEPT ![t] = NoCall]
         /\ shown' = [shown EXCEPT ![t] = shown[t] \cup {<<asked[t].call, asked[t].answer>>}]
         /\ Note("hidden", Hidden(t))
         /\ UNCHANGED <<scope, run, mode, left, kept>>
<1>1. Typed /\ Awaited
  BY DEF Base
<1>2. work[t] \in WorkStates /\ HasItsCall(t, work[t])
  BY <1>1 DEF Typed, WorkTyped
<1>3. asked[t] # NoCall /\ asked[t] \in Traces
  BY <1>1 DEF Use, Typed
<1>4. /\ FirstRun /\ Asks(t)
      /\ asked[t].call = CallOf(t) /\ asked[t].by = t
      /\ asked[t].answer \in Answers(t) \cup Refusals
      /\ work[t].at = "rag" => asked[t].answer \notin Refusals
  BY <1>1, <1>3 DEF Awaited, AwaitedAt
<1>5. Told(t) \in AnswersOf /\ (work[t].at = "fetch" => Told(t) # "none")
  BY <1>2, <1>4, AnswersSound DEF Told, Hidden, AnswersOf, Refusals
<1>6. AnswerUsed(t, work[t], Told(t), AfterAnswer(t, work[t], Told(t)))
  BY <1>2, <1>4, <1>5, AfterAnswerSound
<1>7. /\ work' = [work EXCEPT ![t] = AfterAnswer(t, work[t], Told(t))]
      /\ trace' = IF mode = "live" THEN Append(trace, asked[t]) ELSE trace
      /\ mode = "live" => asked[t].sequence > 0
      /\ asked' = [asked EXCEPT ![t] = NoCall]
      /\ shown' = [shown EXCEPT ![t] = shown[t] \cup {<<asked[t].call, asked[t].answer>>}]
      /\ Note("hidden", Hidden(t))
      /\ UNCHANGED <<scope, run, mode, left, kept>>
  BY DEF Use, Told, Recorded
<1> QED
  BY <1>3, <1>4, <1>5, <1>6, <1>7

LEMMA UseBase ==
  ASSUME Base, NEW t \in Threads, Use(t)
  PROVE  Base'
<1> DEFINE v == AfterAnswer(t, work[t], Told(t))
<1>1. Typed /\ Phased /\ Awaited /\ TraceSound
  BY DEF Base
<1>2. /\ FirstRun /\ Asks(t) /\ asked[t] \in Traces
      /\ asked[t].call = CallOf(t) /\ asked[t].by = t
      /\ asked[t].answer \in Answers(t) \cup Refusals
      /\ AnswerUsed(t, work[t], Told(t), v)
      /\ work' = [work EXCEPT ![t] = v]
      /\ trace' = IF mode = "live" THEN Append(trace, asked[t]) ELSE trace
      /\ asked' = [asked EXCEPT ![t] = NoCall]
      /\ shown' = [shown EXCEPT ![t] = shown[t] \cup {<<asked[t].call, asked[t].answer>>}]
      /\ Note("hidden", Hidden(t))
      /\ UNCHANGED <<scope, run, mode, left, kept>>
  BY UseStep
<1> HIDE DEF v
<1>3. v \in WorkStates /\ HasItsCall(t, v) /\ v.at # "off"
  BY <1>2 DEF AnswerUsed
<1>4. work[t] \in WorkStates /\ HasItsCall(t, work[t])
  BY <1>1 DEF Typed, WorkTyped
<1>5. /\ WorkTyped' /\ Phased' /\ work'[t] = v
      /\ \A u \in Threads \ {t} : work'[u] = work[u]
  BY <1>1, <1>2, <1>3, MovedOn
<1>6. /\ asked' \in [Threads -> Traces \cup {NoCall}] /\ asked'[t] = NoCall
      /\ \A u \in Threads \ {t} : asked'[u] = asked[u]
  BY <1>1, <1>2 DEF Typed
<1>7. /\ trace' \in Seq(Traces) /\ DOMAIN trace \subseteq DOMAIN trace'
      /\ Len(trace) \in Nat /\ Len(trace') \in Nat /\ Len(trace) <= Len(trace')
      /\ \A i \in DOMAIN trace' : \/ i \in DOMAIN trace /\ trace'[i] = trace[i]
                                  \/ i = Len(trace') /\ Len(trace') = Len(trace) + 1
                                     /\ trace'[i] = asked[t]
  BY <1>1, <1>2 DEF Typed
<1>8. shown' \in Shown
  <2>1. <<asked[t].call, asked[t].answer>> \in Calls \X AnswersOf
    BY <1>2 DEF Traces
  <2> QED
    BY <1>1, <1>2, <2>1 DEF Typed, Shown
<1>9. seenAs' \in Observed
  <2>1. Hidden(t) \in BOOLEAN
    BY DEF Hidden
  <2> QED
    BY <1>1, <1>2, <2>1, NotedSound DEF Typed
<1>10. Typed'
  BY <1>1, <1>2, <1>5, <1>6, <1>7, <1>8, <1>9 DEF Typed
<1>11. Awaited'
  <2>1. AwaitedAt(t)'
    BY <1>6 DEF AwaitedAt
  <2>2. ASSUME NEW u \in Threads \ {t}
        PROVE  AwaitedAt(u)'
    BY <1>1, <1>2, <1>5, <1>6, AwaitedKept DEF Awaited
  <2> QED
    BY <2>1, <2>2 DEF Awaited
<1>12. TraceSound'
  <2>1. asked[t].call[1] = "fetch" /\ asked[t].call[3] # 0 => asked[t].answer # "none"
    <3>1. CallOf(t)[1] = "fetch" /\ CallOf(t)[3] # 0 => work[t].at = "fetch"
      BY <1>2, <1>4, CallTyped
    <3>2. work[t].at = "fetch" => asked[t].answer # "none"
      <4>1. "none" \notin Refusals
        BY DEF Refusals
      <4> QED
        BY <1>2, <1>4, <4>1, AnswersSound
    <3> QED
      BY <1>2, <3>1, <3>2
  <2>2. ASSUME NEW i \in DOMAIN trace'
        PROVE  /\ trace'[i].sequence <= Len(trace')
               /\ trace'[i].call[1] = "fetch" /\ trace'[i].call[3] # 0
                    => trace'[i].answer # "none"
    <3>1. CASE i \in DOMAIN trace /\ trace'[i] = trace[i]
      <4>1. trace[i] \in Traces
        BY <1>1, <3>1 DEF Typed
      <4>2. trace[i].sequence \in Nat /\ trace[i].sequence <= Len(trace)
        BY <1>1, <3>1, <4>1 DEF TraceSound, Traces
      <4>3. trace[i].sequence <= Len(trace')
        BY <1>7, <4>2
      <4> QED
        BY <1>1, <3>1, <4>3 DEF TraceSound
    <3>2. CASE i = Len(trace') /\ Len(trace') = Len(trace) + 1 /\ trace'[i] = asked[t]
      BY <1>1, <2>1, <3>2 DEF TraceSound
    <3> QED
      BY <1>7, <3>1, <3>2
  <2>3. ASSUME NEW u \in Threads
        PROVE  asked'[u].sequence <= Len(trace') + 1
    <3>1. CASE u = t
      <4>1. asked'[u].sequence = 0
        BY <1>6, <3>1, NoCallUnnumbered
      <4> QED
        BY <1>7, <4>1
    <3>2. CASE u # t
      <4>1. asked[u] \in Traces \cup {NoCall} /\ asked'[u] = asked[u]
        BY <1>1, <1>6, <3>2 DEF Typed
      <4>2. asked[u].sequence \in Nat /\ asked[u].sequence <= Len(trace) + 1
        BY <1>1, <4>1, NoCallUnnumbered DEF Traces, TraceSound
      <4> QED
        BY <1>7, <4>1, <4>2
    <3> QED
      BY <3>1, <3>2
  <2> QED
    BY <2>2, <2>3 DEF TraceSound
<1> QED
  BY <1>5, <1>10, <1>11, <1>12 DEF Base

LEMMA BreakStep ==
  ASSUME Base, NEW t \in Threads, Break(t)
  PROVE  /\ Asks(t) /\ asked[t] = NoCall /\ work[t].at # "rag"
         /\ ~ MayCall(t, mode = "bare") /\ Charged(t)
         /\ BrokenOff(t, work[t], BreakOff(t, work[t]))
         /\ work' = [work EXCEPT ![t] = BreakOff(t, work[t])]
         /\ UNCHANGED <<scope, run, mode, asked, trace, left, kept, shown, seenAs>>
<1>1. work[t] \in WorkStates /\ HasItsCall(t, work[t])
  BY DEF Base, Typed, WorkTyped
<1>2. /\ Asks(t) /\ asked[t] = NoCall /\ ~ MayCall(t, mode = "bare")
      /\ work' = [work EXCEPT ![t] = BreakOff(t, work[t])]
      /\ UNCHANGED <<scope, run, mode, asked, trace, left, kept, shown, seenAs>>
  BY DEF Break
<1>3. BrokenOff(t, work[t], BreakOff(t, work[t])) /\ work[t].at # "rag"
  BY <1>1, <1>2, BreakOffSound
<1>4. Charged(t)
  BY <1>3 DEF Charged
<1> QED
  BY <1>2, <1>3, <1>4

LEMMA BreakBase ==
  ASSUME Base, NEW t \in Threads, Break(t)
  PROVE  Base'
<1> DEFINE v == BreakOff(t, work[t])
<1>1. Typed /\ Phased /\ Awaited /\ TraceSound
  BY DEF Base
<1>2. /\ Asks(t) /\ asked[t] = NoCall /\ BrokenOff(t, work[t], v)
      /\ work' = [work EXCEPT ![t] = v]
      /\ UNCHANGED <<scope, run, mode, asked, trace, left, kept, shown, seenAs>>
  BY BreakStep
<1> HIDE DEF v
<1>3. v \in WorkStates /\ HasItsCall(t, v) /\ v.at # "off"
  BY <1>2 DEF BrokenOff
<1>4. /\ WorkTyped' /\ Phased' /\ work'[t] = v
      /\ \A u \in Threads \ {t} : work'[u] = work[u]
  BY <1>1, <1>2, <1>3, MovedOn
<1>5. Typed'
  BY <1>1, <1>2, <1>4 DEF Typed
<1>6. Awaited'
  <2>1. AwaitedAt(t)'
    BY <1>2 DEF AwaitedAt
  <2>2. ASSUME NEW u \in Threads \ {t}
        PROVE  AwaitedAt(u)'
    BY <1>1, <1>2, <1>4, AwaitedKept DEF Awaited
  <2> QED
    BY <2>1, <2>2 DEF Awaited
<1>7. TraceSound'
  BY <1>1, <1>2 DEF TraceSound
<1> QED
  BY <1>4, <1>5, <1>6, <1>7 DEF Base

LEMMA JoinStep ==
  ASSUME Base, Join
  PROVE  /\ run.phase = "research" /\ scope' = scope
         /\ \A b \in Branches : Ended(b)
         /\ \/ /\ \E b \in RaisedBy(Branches) :
                    run' = [run EXCEPT !.phase = "budget_exceeded", !.detail = work[b].error]
               /\ work' = work
            \/ /\ Output = {} /\ RaisedBy(Branches) = {}
               /\ run' = [run EXCEPT !.phase = "budget_exceeded", !.detail = scope.refusal]
               /\ work' = work
            \/ /\ RaisedBy(Branches) = {}
               /\ run' = [run EXCEPT !.phase = "retry", !.joined = TRUE, !.active = Scheduled]
               /\ work' = [t \in Threads |->
                    IF t \in Scheduled THEN NewWork("search") ELSE work[t]]
<1>1. CASE RaisedBy(Branches) # {}
  <2>1. ~ \A b \in Branches : work[b].at = "done"
    BY <1>1 DEF RaisedBy
  <2>2. Surfaced(Branches) /\ UNCHANGED <<work, scope>>
    BY <1>1, <2>1 DEF Join
  <2> QED
    BY <1>1, <2>2 DEF Join, Surfaced, Finish
<1>2. CASE /\ RaisedBy(Branches) = {}
           /\ (\A b \in Branches : work[b].at = "done") /\ Output = {}
                /\ (\E b \in Branches : work[b].refused)
  BY <1>2 DEF Join, Finish
<1>3. CASE /\ RaisedBy(Branches) = {}
           /\ ~ ((\A b \in Branches : work[b].at = "done") /\ Output = {}
                 /\ (\E b \in Branches : work[b].refused))
  BY <1>3 DEF Join
<1> QED
  BY <1>1, <1>2, <1>3

LEMMA ConcludeStep ==
  ASSUME Conclude
  PROVE  /\ run.phase = "retry" /\ UNCHANGED <<work, scope>>
         /\ \A t \in run.active : Ended(t)
         /\ \/ \E t \in RaisedBy(run.active) :
                 run' = [run EXCEPT !.phase = "budget_exceeded", !.detail = work[t].error]
            \/ /\ RaisedBy(run.active) = {}
               /\ run' = [run EXCEPT !.phase = "completed", !.detail = "none"]
BY DEF Conclude, Surfaced, Finish

LEMMA SearchFresh ==
  ASSUME NEW t \in Tasks
  PROVE  LET w == NewWork("search")
         IN  /\ w \in WorkStates /\ HasItsCall(t, w)
             /\ w.at = "search" /\ w.next = 1 /\ w.calls = 0 /\ w.seen = {}
<1>1. Len(ByQuestion[t].queries) = 1
  BY QuestionTypes DEF Threads
<1>2. 1 \in 1..1
  OBVIOUS
<1> QED
  BY <1>1, <1>2 DEF NewWork, WorkStates, HasItsCall

LEMMA EngineBase ==
  ASSUME Base, Engine
  PROVE  Base'
<1>1. Typed /\ Phased /\ Awaited /\ TraceSound
  BY DEF Base
<1>2. UNCHANGED <<mode, asked, trace, left, kept, shown, seenAs>> /\ (Join \/ Conclude)
  BY DEF Engine
<1>3. Scheduled \subseteq Tasks /\ Tasks \subseteq Threads /\ Branches \subseteq Threads
      /\ \A b \in Branches : b \notin Tasks
  BY QuestionTypes DEF Scheduled, Tasks, Threads
<1>4. TraceSound'
  BY <1>1, <1>2 DEF TraceSound
<1>5. ASSUME work' = work, NEW d \in {"none"} \cup Refusals,
             NEW p \in {"completed", "budget_exceeded"},
             scope' = scope, run' = [run EXCEPT !.phase = p, !.detail = d],
             \A t \in Threads : ~ Asks(t)
      PROVE  Base'
  <2>1. run' \in RunStates /\ run'.phase = p /\ run'.joined = run.joined
        /\ run'.active = run.active
    BY <1>1, <1>5 DEF Typed, RunStates
  <2>2. Typed'
    BY <1>1, <1>2, <1>5, <2>1 DEF Typed, WorkTyped
  <2>3. Phased'
    <3>1. \A b \in Branches : Ended(b)
      <4>1. \A b \in Branches : HasItsCall(b, work[b])
        BY <1>1, <1>3 DEF Typed, WorkTyped
      <4> QED
        BY <1>3, <1>5, <4>1 DEF Asks, HasItsCall
    <3> QED
      BY <1>1, <1>5, <2>1, <3>1 DEF Phased, Ended, Asks, Over
  <2>4. Awaited'
    <3>1. ASSUME NEW u \in Threads
          PROVE  AwaitedAt(u)'
      BY <1>1, <1>2, <1>5, AwaitedKept DEF Awaited
    <3> QED
      BY <3>1 DEF Awaited
  <2> QED
    BY <1>4, <2>2, <2>3, <2>4 DEF Base
<1>6. CASE Join
  <2>1. /\ run.phase = "research" /\ scope' = scope
        /\ \A b \in Branches : Ended(b)
    BY <1>6, JoinStep
  <2>2. \A t \in Tasks : work[t].at = "off"
    BY <1>1, <2>1 DEF Phased
  <2>3. \A t \in Threads : ~ Asks(t)
    BY <2>1, <2>2 DEF Asks, Threads
  <2>4. CASE /\ \E b \in RaisedBy(Branches) :
                  run' = [run EXCEPT !.phase = "budget_exceeded", !.detail = work[b].error]
             /\ work' = work
    <3>1. \A b \in RaisedBy(Branches) : work[b].error \in {"none"} \cup Refusals
      BY <1>1, <1>3 DEF Typed, WorkTyped, WorkStates, RaisedBy
    <3> QED
      BY <1>5, <2>1, <2>3, <2>4, <3>1
  <2>5. CASE /\ run' = [run EXCEPT !.phase = "budget_exceeded", !.detail = scope.refusal]
             /\ work' = work
    <3>1. scope.refusal \in {"none"} \cup Refusals
      BY <1>1 DEF Typed, Scopes
    <3> QED
      BY <1>5, <2>1, <2>3, <2>5, <3>1
  <2>6. CASE /\ run' = [run EXCEPT !.phase = "retry", !.joined = TRUE, !.active = Scheduled]
             /\ work' = [t \in Threads |->
                  IF t \in Scheduled THEN NewWork("search") ELSE work[t]]
    <3>1. /\ run' \in RunStates /\ run'.phase = "retry" /\ run'.joined = TRUE
          /\ run'.active = Scheduled
      BY <1>1, <1>3, <2>6 DEF Typed, RunStates
    <3>2. \A t \in Threads : work'[t] = IF t \in Scheduled THEN NewWork("search") ELSE work[t]
      BY <2>6
    <3>3. \A t \in Threads : work'[t] \in WorkStates /\ HasItsCall(t, work'[t])
      BY <1>1, <1>3, <3>2, SearchFresh DEF Typed, WorkTyped
    <3>4. WorkTyped'
      BY <2>6, <3>3 DEF WorkTyped
    <3>5. Typed'
      BY <1>1, <1>2, <2>1, <3>1, <3>4 DEF Typed
    <3>6. Phased'
      <4>1. \A b \in Branches : work'[b] = work[b]
        BY <1>3, <3>2
      <4>2. \A t \in Tasks \ Scheduled : work'[t].at = "off"
        BY <1>3, <2>2, <3>2
      <4> QED
        BY <2>1, <3>1, <4>1, <4>2 DEF Phased, Over, Ended
    <3>7. Awaited'
      <4>1. ASSUME NEW u \in Threads
            PROVE  asked[u] = NoCall
        BY <1>1, <2>3 DEF Awaited, AwaitedAt
      <4> QED
        BY <1>2, <4>1 DEF Awaited, AwaitedAt
    <3> QED
      BY <1>4, <3>5, <3>6, <3>7 DEF Base
  <2> QED
    BY <1>6, <2>4, <2>5, <2>6, JoinStep
<1>7. CASE Conclude
  <2>0. run.phase = "retry" /\ \A t \in run.active : Ended(t)
    BY <1>7, ConcludeStep
  <2>1. /\ UNCHANGED <<work, scope>>
        /\ \/ \E t \in RaisedBy(run.active) :
                run' = [run EXCEPT !.phase = "budget_exceeded", !.detail = work[t].error]
           \/ run' = [run EXCEPT !.phase = "completed", !.detail = "none"]
    BY <1>7, ConcludeStep
  <2>2. \A t \in Threads : ~ Asks(t)
    BY <1>1, <2>0 DEF Phased, Asks, Threads
  <2>3. \A t \in RaisedBy(run.active) : work[t].error \in {"none"} \cup Refusals
    <3>1. run.active \subseteq Threads
      BY <1>1, <1>3 DEF Typed, RunStates
    <3> QED
      BY <1>1, <3>1 DEF Typed, WorkTyped, WorkStates, RaisedBy
  <2> QED
    <3>1. ASSUME NEW t \in RaisedBy(run.active),
                 run' = [run EXCEPT !.phase = "budget_exceeded", !.detail = work[t].error]
          PROVE  Base'
      <4>1. work[t].error \in {"none"} \cup Refusals
        BY <2>3
      <4> QED
        BY <1>5, <2>1, <2>2, <3>1, <4>1
    <3>2. CASE run' = [run EXCEPT !.phase = "completed", !.detail = "none"]
      BY <1>5, <2>1, <2>2, <3>2
    <3> QED
      BY <2>1, <3>1, <3>2
<1> QED
  BY <1>2, <1>6, <1>7

LEMMA FreshBase ==
  /\ FreshResearch \in [Threads -> WorkStates]
  /\ \A t \in Threads : HasItsCall(t, FreshResearch[t])
  /\ \A t \in Tasks : FreshResearch[t].at = "off"
  /\ NewScope \in Scopes /\ NewRun \in RunStates
  /\ NewRun.phase = "research" /\ ~ NewRun.joined
<1>1. NewScope \in Scopes
  <2>1. \A m \in Nat : 0 \in 0..m
    OBVIOUS
  <2> QED
    BY <2>1, AllowancesNat DEF NewScope, Scopes
<1>2. NewRun \in RunStates /\ NewRun.phase = "research" /\ ~ NewRun.joined
  BY DEF NewRun, RunStates
<1> QED
  BY <1>1, <1>2, FreshSound DEF Threads

LEMMA ReplayStep ==
  ASSUME Base, Replay
  PROVE  /\ Over /\ shown' = [t \in Threads |-> {}] /\ UNCHANGED <<asked, trace>>
         /\ seenAs' \in Observed
         /\ \A field \in {"overlap", "hidden", "repeated", "reordered"} :
              seenAs'[field] = seenAs[field]
         /\ \/ /\ mode' = "replay" /\ left' = DOMAIN trace
               /\ work' = FreshResearch /\ scope' = NewScope /\ run' = NewRun
            \/ /\ mode' = "rejected" /\ left' = left
               /\ work' = work /\ scope' = scope /\ run' = run
<1>1. seenAs \in Observed /\ Unraised \in BOOLEAN /\ Either \in BOOLEAN
  BY DEF Base, Typed, Unraised, Either
<1>2. seenAs' = [seenAs EXCEPT !.unraised = Unraised, !.either = Either]
  BY DEF Replay
<1>3. /\ seenAs' \in Observed
      /\ \A field \in {"overlap", "hidden", "repeated", "reordered"} :
           seenAs'[field] = seenAs[field]
  BY <1>1, <1>2 DEF Observed
<1> QED
  BY <1>3 DEF Replay, research

LEMMA ReplayBase ==
  ASSUME Base, Replay
  PROVE  Base'
<1>1. Typed /\ Phased /\ Awaited /\ TraceSound
  BY DEF Base
<1>2. /\ Over /\ shown' = [t \in Threads |-> {}] /\ UNCHANGED <<asked, trace>>
      /\ seenAs' \in Observed
      /\ \/ /\ mode' = "replay" /\ left' = DOMAIN trace
            /\ work' = FreshResearch /\ scope' = NewScope /\ run' = NewRun
         \/ /\ mode' = "rejected" /\ left' = left
            /\ work' = work /\ scope' = scope /\ run' = run
  BY ReplayStep
<1>3. \A t \in Threads : ~ Asks(t) /\ asked[t] = NoCall
  BY <1>1, <1>2 DEF Phased, Awaited, AwaitedAt
<1>4. Awaited' /\ TraceSound'
  BY <1>1, <1>2, <1>3 DEF Awaited, AwaitedAt, TraceSound
<1>5. shown' \in Shown
  BY <1>2 DEF Shown
<1>6. mode' \in Modes
  BY <1>2 DEF Modes
<1>7. CASE /\ mode' = "replay" /\ left' = DOMAIN trace
           /\ work' = FreshResearch /\ scope' = NewScope /\ run' = NewRun
  <2>1. WorkTyped'
    BY <1>7, FreshBase DEF WorkTyped
  <2>2. Typed'
    BY <1>1, <1>2, <1>5, <1>6, <1>7, <2>1, FreshBase DEF Typed
  <2>3. Phased'
    BY <1>7, FreshBase DEF Phased, Over
  <2> QED
    BY <1>4, <2>2, <2>3 DEF Base
<1>8. CASE left' = left /\ work' = work /\ scope' = scope /\ run' = run
  <2>1. Typed'
    BY <1>1, <1>2, <1>5, <1>6, <1>8 DEF Typed, WorkTyped
  <2>2. Phased'
    BY <1>1, <1>8 DEF Phased, Ended, Asks, Over
  <2> QED
    BY <1>4, <2>1, <2>2 DEF Base
<1> QED
  BY <1>2, <1>7, <1>8

LEMMA AskReplayStep ==
  ASSUME Base, NEW t \in Threads, AskReplay(t)
  PROVE  /\ mode = "replay" /\ Asks(t)
         /\ UNCHANGED <<run, asked, trace, kept, shown>>
         /\ seenAs' \in Observed
         /\ \A field \in {"overlap", "hidden", "repeated", "reordered", "unraised", "either"} :
              seenAs[field] => seenAs'[field]
         /\ \/ mode' = "missed" /\ UNCHANGED <<work, scope, left>>
            \/ \E i \in DOMAIN trace :
                 LET v == AfterAnswer(t, ChargedWork(t), trace[i].answer)
                 IN  /\ mode' = mode /\ left' = left \ {i} /\ scope' \in Scopes
                     /\ trace[i].call = CallOf(t)
                     /\ work' = [work EXCEPT ![t] = v]
                     /\ AnswerUsed(t, ChargedWork(t), trace[i].answer, v)
<1> DEFINE c == CallOf(t)
           i == First(c)
           v == AfterAnswer(t, ChargedWork(t), trace[i].answer)
<1>1. Typed /\ TraceSound
  BY DEF Base
<1>2. work[t] \in WorkStates /\ HasItsCall(t, work[t]) /\ Asks(t)
  BY <1>1 DEF Typed, WorkTyped, AskReplay
<1>3. mode = "replay" /\ UNCHANGED <<run, asked, trace, kept, shown>>
  BY DEF AskReplay
<1>4. CASE Queue(c) = {} \/ trace[i].call # c
  <2>1. mode' = "missed" /\ Note("reordered", Queue(c) # {}) /\ UNCHANGED <<work, scope, left>>
    BY <1>4 DEF AskReplay
  <2>2. (Queue(c) # {}) \in BOOLEAN
    OBVIOUS
  <2>3. /\ seenAs' \in Observed
        /\ \A field \in {"overlap", "hidden", "repeated", "reordered", "unraised", "either"} :
             seenAs[field] => seenAs'[field]
    BY <1>1, <2>1, <2>2, NotedSound DEF Typed
  <2> QED
    BY <1>2, <1>3, <2>1, <2>3
<1>5. CASE ~ (Queue(c) = {} \/ trace[i].call # c)
  <2>1. /\ work' = [work EXCEPT ![t] = v]
        /\ scope' = Repeated(t, trace[i].answer)
        /\ left' = left \ {i} /\ mode' = mode
        /\ Note("reordered", trace[i].by # t)
    BY <1>5 DEF AskReplay
  <2>2. i \in DOMAIN trace
    BY <1>1, <1>5, FirstSound DEF Typed
  <2>3. trace[i] \in Traces /\ trace[i].call = c
    BY <1>1, <1>5, <2>2 DEF Typed
  <2>4. trace[i].answer \in AnswersOf
    BY <2>3 DEF Traces
  <2>5. work[t].at = "fetch" => trace[i].answer # "none"
    <3>1. work[t].at = "fetch" => c[1] = "fetch" /\ c[3] # 0
      <4>1. work[t].at = "fetch" => c = <<"fetch", ByQuestion[t].queries[work[t].next], work[t].rank>>
        BY <1>2, CallTyped
      <4>2. work[t].at = "fetch" => work[t].rank # 0
        BY <1>2, ResearchAssumption DEF HasItsCall
      <4> QED
        BY <4>1, <4>2
    <3> QED
      BY <1>1, <2>2, <2>3, <3>1 DEF TraceSound
  <2>6. /\ ChargedWork(t) \in WorkStates
        /\ ChargedWork(t).at = work[t].at /\ ChargedWork(t).next = work[t].next
        /\ ChargedWork(t).rank = work[t].rank
    BY <1>2 DEF ChargedWork, WorkStates
  <2>7. AnswerUsed(t, ChargedWork(t), trace[i].answer, v)
    BY <1>2, <2>4, <2>5, <2>6, AfterAnswerSound
  <2>8. scope' \in Scopes
    <3>1. Lane(t) \in Lanes \cup {"none"} /\ 1 \in Nat
      BY <1>2, LaneSound
    <3>2. trace[i].answer \in Refusals => Taken(scope, Lane(t), 1, trace[i].answer) \in Scopes
      BY <1>1, <3>1, TakenSound DEF Typed
    <3> QED
      BY <1>1, <2>1, <3>2 DEF Repeated, Typed
  <2>9. /\ seenAs' \in Observed
        /\ \A field \in {"overlap", "hidden", "repeated", "reordered", "unraised", "either"} :
             seenAs[field] => seenAs'[field]
    <3>1. (trace[i].by # t) \in BOOLEAN
      OBVIOUS
    <3> QED
      BY <1>1, <2>1, <3>1, NotedSound DEF Typed
  <2> HIDE DEF v, i
  <2>10. \E j \in DOMAIN trace :
           LET u == AfterAnswer(t, ChargedWork(t), trace[j].answer)
           IN  /\ mode' = mode /\ left' = left \ {j} /\ scope' \in Scopes
               /\ trace[j].call = CallOf(t)
               /\ work' = [work EXCEPT ![t] = u]
               /\ AnswerUsed(t, ChargedWork(t), trace[j].answer, u)
    BY <2>1, <2>2, <2>3, <2>7, <2>8 DEF v
  <2> QED
    BY <1>2, <1>3, <2>9, <2>10
<1> QED
  BY <1>4, <1>5

LEMMA AskReplayBase ==
  ASSUME Base, NEW t \in Threads, AskReplay(t)
  PROVE  Base'
<1>1. Typed /\ Phased /\ Awaited /\ TraceSound
  BY DEF Base
<1>2. /\ mode = "replay" /\ Asks(t)
      /\ UNCHANGED <<run, asked, trace, kept, shown>> /\ seenAs' \in Observed
  BY AskReplayStep
<1>3. \A u \in Threads : asked[u] = NoCall
  BY <1>1, <1>2 DEF Awaited, AwaitedAt, FirstRun
<1>4. Awaited' /\ TraceSound'
  BY <1>1, <1>2, <1>3 DEF Awaited, AwaitedAt, TraceSound
<1>5. CASE mode' = "missed" /\ UNCHANGED <<work, scope, left>>
  <2>1. Typed'
    BY <1>1, <1>2, <1>5 DEF Typed, WorkTyped, Modes
  <2>2. Phased'
    BY <1>1, <1>2, <1>5 DEF Phased, Ended, Asks, Over
  <2> QED
    BY <1>4, <2>1, <2>2 DEF Base
<1>6. ASSUME NEW i \in DOMAIN trace, NEW v,
             mode' = mode, left' = left \ {i}, scope' \in Scopes,
             work' = [work EXCEPT ![t] = v],
             AnswerUsed(t, ChargedWork(t), trace[i].answer, v)
      PROVE  Base'
  <2>1. v \in WorkStates /\ HasItsCall(t, v) /\ v.at # "off"
    BY <1>6 DEF AnswerUsed
  <2>2. WorkTyped' /\ Phased'
    BY <1>1, <1>2, <1>6, <2>1, MovedOn
  <2>3. Typed'
    BY <1>1, <1>2, <1>6, <2>2 DEF Typed
  <2> QED
    BY <1>4, <2>2, <2>3 DEF Base
<1> QED
  BY <1>5, <1>6, AskReplayStep

LEMMA VerdictBase ==
  ASSUME Base, Verdict
  PROVE  Base'
<1>1. Typed /\ Phased /\ Awaited /\ TraceSound
  BY DEF Base
<1>2. /\ mode = "replay" /\ mode' \in Modes
      /\ UNCHANGED <<work, scope, run, asked, trace, left, kept, shown, seenAs>>
  BY DEF Verdict, Modes, research
<1>3. \A u \in Threads : asked[u] = NoCall
  BY <1>1, <1>2 DEF Awaited, AwaitedAt, FirstRun
<1>4. Awaited' /\ TraceSound'
  BY <1>1, <1>2, <1>3 DEF Awaited, AwaitedAt, TraceSound
<1>5. Typed'
  BY <1>1, <1>2 DEF Typed, WorkTyped
<1>6. Phased'
  BY <1>1, <1>2 DEF Phased, Ended, Asks, Over
<1> QED
  BY <1>4, <1>5, <1>6 DEF Base

LEMMA InitBase ==
  ASSUME Init
  PROVE  Base
<1>1. /\ work = FreshResearch /\ scope = NewScope /\ run = NewRun
      /\ FirstRun /\ mode \in Modes
      /\ asked = [t \in Threads |-> NoCall]
      /\ trace = <<>> /\ left = {}
      /\ shown = [t \in Threads |-> {}] /\ seenAs = Nothing
  BY DEF Init, FirstRun, Modes
<1>2. WorkTyped
  BY <1>1, FreshBase DEF WorkTyped
<1>3. asked \in [Threads -> Traces \cup {NoCall}] /\ \A t \in Threads : asked[t] = NoCall
  BY <1>1
<1>4. shown \in Shown /\ seenAs \in Observed
  BY <1>1 DEF Shown, Observed, Nothing
<1>5. Typed
  BY <1>1, <1>2, <1>3, <1>4, FreshBase DEF Typed
<1>6. Phased
  BY <1>1, FreshBase DEF Phased, Over
<1>7. Awaited /\ TraceSound
  BY <1>1, <1>3, NoCallUnnumbered DEF Awaited, AwaitedAt, TraceSound
<1> QED
  BY <1>5, <1>6, <1>7 DEF Base

LEMMA NextBase ==
  ASSUME Base, [Next]_vars
  PROVE  Base'
<1>1. CASE UNCHANGED vars
  <2>1. UNCHANGED <<work, scope, run, mode, asked, trace, left, shown, seenAs>>
    BY <1>1 DEF vars
  <2>2. Typed'
    BY <2>1 DEF Base, Typed, WorkTyped
  <2>3. Phased'
    BY <2>1 DEF Base, Phased, Ended, Asks, Over
  <2>4. ASSUME NEW u \in Threads
        PROVE  AwaitedAt(u)'
    BY <2>1, AwaitedKept DEF Base, Awaited
  <2>5. TraceSound'
    BY <2>1 DEF Base, TraceSound
  <2> QED
    BY <2>2, <2>3, <2>4, <2>5 DEF Base, Awaited
<1>2. ASSUME NEW t \in Threads, Ask(t) \/ Number(t) \/ Use(t) \/ AskReplay(t) \/ Break(t)
      PROVE  Base'
  BY <1>2, AskBase, NumberBase, UseBase, AskReplayBase, BreakBase
<1> QED
  BY <1>1, <1>2, EngineBase, ReplayBase, VerdictBase DEF Next

LEMMA BaseInvariant == Spec => []Base
<1>1. Init => Base
  BY InitBase
<1>2. Base /\ [Next]_vars => Base'
  BY NextBase
<1> QED
  BY <1>1, <1>2, PTL DEF Spec

(* The variables hold what their types say: the run's quota of searches    *)
(* and its allowances of requests are never overrun, by a run nor by its   *)
(* replay, whatever the branches take at once (run_context.py:31-209).     *)
THEOREM TypeCorrect == Spec => []TypeOK
<1>1. Base => TypeOK
  BY DEF Base, Typed, WorkTyped, TypeOK, RunStates, Scopes, Modes
<1> QED
  BY <1>1, BaseInvariant, PTL

---------------------------------------------------------------------------
(* The numbers of a recording. *)

(* Unless two calls were at the recorder at once, the numbers appended are *)
(* those from 1 on, and the one given out is the next.                     *)
Numbered ==
  /\ TraceAccepted
  /\ ~ seenAs.overlap =>
       /\ Contiguous
       /\ \A t \in Threads : asked[t].sequence \in {0, Len(trace) + 1}
       /\ \A t, u \in Threads : asked[t].sequence # 0 /\ asked[u].sequence # 0 => t = u

(* No call is numbered or appended. *)
LEMMA NumbersStay ==
  ASSUME Numbered, trace' = trace, seenAs.overlap => seenAs'.overlap,
         mode' # "rejected" \/ mode' = mode,
         \A t \in Threads : asked'[t].sequence \in {0, asked[t].sequence}
  PROVE  Numbered'
<1>1. TraceAccepted'
  BY DEF Numbered, TraceAccepted
<1>2. Contiguous' = Contiguous
  BY DEF Contiguous
<1> QED
  BY <1>1, <1>2 DEF Numbered

LEMMA NumberNumbered ==
  ASSUME Base, Numbered, NEW t \in Threads, Number(t)
  PROVE  Numbered'
<1>1. Typed
  BY DEF Base
<1>2. trace \in Seq(Traces) /\ Len(trace) \in Nat
  BY <1>1 DEF Typed
<1>3. /\ NextSequence(t) \in 1..(Len(trace) + 1)
      /\ Contiguous => NextSequence(t) = Len(trace) + 1
      /\ asked'[t].sequence = NextSequence(t)
      /\ \A u \in Threads \ {t} : asked'[u] = asked[u]
  BY NumberStep
<1>4. mode' = mode /\ trace' = trace
  BY DEF Number
<1>6. seenAs'.overlap = (seenAs.overlap \/ \E u \in Threads : asked[u].sequence > 0)
  BY <1>1 DEF Number, Note, Typed, Observed
<1>7. TraceAccepted' /\ Contiguous' = Contiguous
  BY <1>4, <1>6 DEF Numbered, TraceAccepted, Contiguous
<1>8. ASSUME ~ seenAs'.overlap
      PROVE  /\ Contiguous
             /\ asked'[t].sequence = Len(trace) + 1
             /\ \A u \in Threads \ {t} : asked'[u].sequence = 0
  <2>1. ~ seenAs.overlap /\ \A u \in Threads : ~ (asked[u].sequence > 0)
    BY <1>6, <1>8
  <2>2. Contiguous /\ \A u \in Threads : asked[u].sequence \in {0, Len(trace) + 1}
    BY <2>1 DEF Numbered
  <2>3. \A u \in Threads : asked[u].sequence = 0
    BY <1>2, <2>1, <2>2
  <2> QED
    BY <1>3, <2>2, <2>3
<1> QED
  BY <1>4, <1>7, <1>8 DEF Numbered

LEMMA UseNumbered ==
  ASSUME Base, Numbered, NEW t \in Threads, Use(t)
  PROVE  Numbered'
<1>1. Typed /\ TraceSound
  BY DEF Base
<1>2. trace \in Seq(Traces) /\ Len(trace) \in Nat
  BY <1>1 DEF Typed
<1>3. /\ asked[t] \in Traces
      /\ trace' = IF mode = "live" THEN Append(trace, asked[t]) ELSE trace
      /\ mode = "live" => asked[t].sequence > 0
      /\ asked' = [asked EXCEPT ![t] = NoCall]
      /\ Note("hidden", Hidden(t)) /\ mode' = mode
  BY UseStep
<1>4. asked'[t].sequence = 0 /\ \A u \in Threads \ {t} : asked'[u] = asked[u]
  BY <1>1, <1>3, NoCallUnnumbered DEF Typed
<1>5. seenAs'.overlap = seenAs.overlap
  BY <1>1, <1>3 DEF Note, Typed, Observed
<1>6. CASE mode # "live"
  BY <1>3, <1>4, <1>5, <1>6, NumbersStay
<1>7. CASE mode = "live"
  <2>1. /\ trace' = Append(trace, asked[t]) /\ Len(trace') = Len(trace) + 1
        /\ DOMAIN trace = 1..Len(trace) /\ DOMAIN trace' = 1..(Len(trace) + 1)
        /\ \A i \in DOMAIN trace : trace'[i] = trace[i]
        /\ trace'[Len(trace) + 1] = asked[t]
    BY <1>2, <1>3, <1>7
  <2>2. TraceAccepted'
    BY <1>3, <1>5 DEF Numbered, TraceAccepted
  <2>3. ASSUME ~ seenAs.overlap
        PROVE  /\ Contiguous'
               /\ \A u \in Threads : asked'[u].sequence = 0
    <3>1. /\ Contiguous
          /\ \A u \in Threads : asked[u].sequence \in {0, Len(trace) + 1}
          /\ \A u, v \in Threads : asked[u].sequence # 0 /\ asked[v].sequence # 0 => u = v
      BY <2>3 DEF Numbered
    <3>2. asked[t].sequence = Len(trace) + 1 /\ asked[t].sequence # 0
      BY <1>2, <1>3, <1>7, <3>1
    <3>3. \A u \in Threads \ {t} : asked[u].sequence = 0
      BY <3>1, <3>2
    <3>4. {trace'[i].sequence : i \in DOMAIN trace'} = DOMAIN trace'
      <4> DEFINE numbers == {trace[i].sequence : i \in DOMAIN trace}
      <4>1. numbers = 1..Len(trace)
        BY <2>1, <3>1 DEF Contiguous
      <4>2. 1..(Len(trace) + 1) = (1..Len(trace)) \cup {Len(trace) + 1}
        BY <1>2
      <4>3. {trace'[i].sequence : i \in DOMAIN trace'} = numbers \cup {asked[t].sequence}
        BY <2>1, <4>2
      <4> HIDE DEF numbers
      <4> QED
        BY <2>1, <3>2, <4>1, <4>2, <4>3
    <3> QED
      BY <1>4, <3>3, <3>4 DEF Contiguous
  <2> QED
    BY <1>5, <2>2, <2>3 DEF Numbered
<1> QED
  BY <1>6, <1>7

LEMMA NextNumbered ==
  ASSUME Base, Numbered, [Next]_vars
  PROVE  Numbered'
<1>1. Typed
  BY DEF Base
<1>2. ASSUME NEW t \in Threads, Ask(t)
      PROVE  Numbered'
  <2>1. /\ trace' = trace /\ mode' = mode /\ seenAs'.overlap = seenAs.overlap
        /\ \E call : call.sequence = 0 /\ asked' = [asked EXCEPT ![t] = call]
    BY <1>1, <1>2 DEF Ask, Note, Typed, Observed
  <2>2. \A u \in Threads : asked'[u].sequence \in {0, asked[u].sequence}
    BY <1>1, <2>1 DEF Typed
  <2> QED
    BY <2>1, <2>2, NumbersStay
<1>3. ASSUME NEW t \in Threads, AskReplay(t)
      PROVE  Numbered'
  <2>1. /\ trace' = trace /\ asked' = asked /\ (mode' = mode \/ mode' = "missed")
        /\ seenAs["overlap"] => seenAs'["overlap"]
    BY <1>3, AskReplayStep
  <2> QED
    BY <2>1, NumbersStay
<1>4. ASSUME NEW t \in Threads, Break(t)
      PROVE  Numbered'
  BY <1>4, NumbersStay DEF Break
<1>5. ASSUME Engine PROVE Numbered'
  BY <1>5, NumbersStay DEF Engine
<1>6. ASSUME Replay PROVE Numbered'
  <2>1. /\ UNCHANGED <<asked, trace>> /\ seenAs'.overlap = seenAs.overlap
        /\ mode' = IF Contiguous THEN "replay" ELSE "rejected"
    BY <1>6, ReplayStep DEF Replay
  <2>2. Contiguous' = Contiguous
    BY <2>1 DEF Contiguous
  <2>3. TraceAccepted'
    BY <2>1 DEF Numbered, TraceAccepted
  <2> QED
    BY <2>1, <2>2, <2>3 DEF Numbered
<1>7. ASSUME Verdict PROVE Numbered'
  <2>1. UNCHANGED <<asked, trace, seenAs>> /\ mode' # "rejected"
    BY <1>7 DEF Verdict
  <2> QED
    BY <2>1, NumbersStay
<1>8. ASSUME UNCHANGED vars PROVE Numbered'
  BY <1>8, NumbersStay DEF vars
<1> QED
  BY <1>2, <1>3, <1>4, <1>5, <1>6, <1>7, <1>8, NumberNumbered, UseNumbered DEF Next

LEMMA InitNumbered ==
  ASSUME Init
  PROVE  Numbered
<1>1. trace = <<>> /\ mode # "rejected" /\ \A t \in Threads : asked[t].sequence = 0
  BY NoCallUnnumbered DEF Init
<1>2. Contiguous
  BY <1>1 DEF Contiguous
<1> QED
  BY <1>1, <1>2 DEF Numbered, TraceAccepted

(* A recording that is refused for its numbers had two calls at the        *)
(* recorder at once: whatever the branches record, however long the run,   *)
(* calls that are numbered and appended one by one leave no gap and no     *)
(* double (trajectory.py:194-222, 470-475).                                *)
THEOREM RecordingAccepted == Spec => []TraceAccepted
<1>1. Init => Numbered
  BY InitNumbered
<1>2. Base /\ Numbered /\ [Next]_vars => Numbered'
  BY NextNumbered
<1>3. Numbered => TraceAccepted
  BY DEF Numbered
<1> QED
  BY <1>1, <1>2, <1>3, BaseInvariant, PTL DEF Spec

---------------------------------------------------------------------------
(* The query that is left to a branch. *)

SearchedBy(b) == \E e \in shown[b] : Searched(e[1])

(* A branch that has not searched yet has a call left for it, or was ended *)
(* by an error or for want of the run's quota.                             *)
Room(b) ==
  /\ \/ work[b].at \in {"rag", "disclosure", "priority", "search", "raised"}
     \/ work[b].at = "done" /\ QuotaSpent(mode = "bare")
  /\ work[b].at = "rag" => work[b].calls = 0
  /\ work[b].at = "disclosure" => work[b].calls = (IF asked[b] = NoCall THEN 0 ELSE 1)
  /\ work[b].at = "priority" =>
       IF asked[b] = NoCall THEN work[b].calls + 1 < Limit(b) ELSE work[b].calls < Limit(b)
  /\ work[b].at = "search" => asked[b] # NoCall \/ work[b].calls < Limit(b)

Owed(b) == ByQuestion[b].queries # <<>> /\ Reserved(b) /\ ~ SearchedBy(b)

QueryLeft == FirstRun => \A b \in Branches : Owed(b) => Room(b)

LEMMA NoCallApart == \A x \in Traces : x # NoCall
<1> SUFFICES ASSUME NEW x \in Traces PROVE x # NoCall
  OBVIOUS
<1>1. x.call[1] # "none"
  BY DEF Traces, Calls
<1>2. NoCall.call[1] = "none"
  BY DEF NoCall, Call
<1> QED
  BY <1>1, <1>2

LEMMA ReservedSound ==
  ASSUME NEW b \in Branches, ByQuestion[b].queries # <<>>, Reserved(b)
  PROVE  /\ Limit(b) \in Nat /\ Limit(b) >= 1 /\ PriorityLimit(b) = Limit(b) - 1
         /\ ByQuestion[b].disclosure # "none" => Limit(b) >= 2
<1>1. Limit(b) \in Nat
  BY QuestionTypes DEF Threads
<1> QED
  BY <1>1 DEF Reserved, PriorityLimit

LEMMA RoomKept ==
  ASSUME NEW b \in Branches, scope \in Scopes, scope' \in Scopes,
         scope'.quota >= scope.quota, mode' = mode,
         work'[b] = work[b], asked'[b] = NoCall <=> asked[b] = NoCall, Room(b)
  PROVE  Room(b)'
<1>1. QuotaSpent(mode = "bare") => QuotaSpent(mode = "bare")'
  <2>1. scope.quota \in Nat /\ scope'.quota \in Nat
    BY AllowancesNat DEF Scopes
  <2> QED
    BY <2>1, AllowancesNat DEF QuotaSpent
<1> QED
  BY <1>1 DEF Room

(* One thread moves on, and keeps its room if it is a branch. *)
LEMMA QueryLeftKept ==
  ASSUME Base, Base', QueryLeft, NEW t \in Threads, mode' = mode, scope'.quota >= scope.quota,
         \A u \in Threads \ {t} :
           work'[u] = work[u] /\ asked'[u] = asked[u] /\ shown'[u] = shown[u],
         FirstRun /\ t \in Branches /\ Owed(t)' => Room(t)'
  PROVE  QueryLeft'
<1> SUFFICES ASSUME FirstRun', NEW b \in Branches, Owed(b)'
             PROVE  Room(b)'
  BY DEF QueryLeft
<1>1. FirstRun /\ b \in Threads
  BY DEF FirstRun, Threads
<1>2. CASE b = t
  BY <1>1, <1>2
<1>3. CASE b # t
  <2>1. work'[b] = work[b] /\ asked'[b] = asked[b] /\ shown'[b] = shown[b]
    BY <1>1, <1>3
  <2>2. Owed(b)
    BY <2>1 DEF Owed, SearchedBy
  <2> QED
    BY <1>1, <2>1, <2>2, RoomKept DEF QueryLeft, Base, Typed
<1> QED
  BY <1>2, <1>3

LEMMA AskQueryLeft ==
  ASSUME Base, Base', QueryLeft, NEW t \in Threads, Ask(t)
  PROVE  QueryLeft'
<1> DEFINE w == ChargedWork(t)
<1>1. /\ FirstRun /\ Asks(t) /\ asked[t] = NoCall /\ MayCall(t, mode = "bare")
      /\ work' = [work EXCEPT ![t] = w]
      /\ w \in WorkStates /\ w.at = work[t].at
      /\ w.calls = IF work[t].at = "rag" THEN work[t].calls ELSE work[t].calls + 1
      /\ UNCHANGED <<run, mode, trace, left, kept, shown>>
  BY AskStep
<1>2. PICK n \in RequestsOf(t), got \in Answers(t) \cup Refusals :
        /\ got \in Refusals <=> ~ Fits(Lane(t), n)
        /\ scope' = Taken(ChargedScope(t, mode = "bare"), Lane(t), n, got)
        /\ asked' = [asked EXCEPT ![t] =
             [call |-> CallOf(t), by |-> t, sequence |-> 0, answer |-> got]]
        /\ seenAs' = [seenAs EXCEPT !.repeated = @ \/ (t \in Tasks /\ n > 1)]
  BY AskStep
<1> HIDE DEF w
<1>3. Typed /\ work[t] \in WorkStates
  BY DEF Base, Typed, WorkTyped
<1>4. scope'.quota >= scope.quota
  BY <1>1, <1>2, <1>3, CallPaid, LaneSound DEF Typed
<1>5. asked'[t] # NoCall
  <2>1. asked'[t].call = CallOf(t)
    BY <1>2, <1>3 DEF Typed
  <2>2. CallOf(t) \in Calls
    BY <1>1, <1>3, CallTyped DEF Typed, WorkTyped
  <2>3. CallOf(t)[1] # "none" /\ NoCall.call[1] = "none"
    BY <2>2 DEF Calls, NoCall, Call
  <2> QED
    BY <2>1, <2>3
<1>6. work'[t] = w /\ \A u \in Threads \ {t} : work'[u] = work[u] /\ asked'[u] = asked[u]
  BY <1>1, <1>2, <1>3 DEF Typed, WorkTyped
<1>7. ASSUME t \in Branches, Owed(t)'
      PROVE  Room(t)'
  <2>1. Room(t)
    BY <1>1, <1>7 DEF QueryLeft, Owed, SearchedBy
  <2>2. work[t].calls \in Nat /\ work[t].at \notin {"done", "raised"}
    BY <1>1, <1>3 DEF WorkStates, Asks, Ended
  <2> QED
    BY <1>1, <1>5, <1>6, <2>1, <2>2 DEF Room
<1> QED
  BY <1>1, <1>4, <1>6, <1>7, QueryLeftKept

LEMMA UseQueryLeft ==
  ASSUME Base, Base', QueryLeft, NEW t \in Threads, Use(t)
  PROVE  QueryLeft'
<1> DEFINE v == AfterAnswer(t, work[t], Told(t))
<1>1. /\ FirstRun /\ Asks(t) /\ asked[t] # NoCall /\ asked[t].call = CallOf(t)
      /\ work[t].at = "rag" => asked[t].answer \notin Refusals
      /\ AnswerUsed(t, work[t], Told(t), v)
      /\ work' = [work EXCEPT ![t] = v]
      /\ asked' = [asked EXCEPT ![t] = NoCall]
      /\ shown' = [shown EXCEPT ![t] = shown[t] \cup {<<asked[t].call, asked[t].answer>>}]
      /\ UNCHANGED <<scope, run, mode, left, kept>>
  BY UseStep
<1> HIDE DEF v
<1>2. Typed /\ work[t] \in WorkStates /\ HasItsCall(t, work[t])
  BY DEF Base, Typed, WorkTyped
<1>3. /\ work'[t] = v /\ asked'[t] = NoCall
      /\ shown'[t] = shown[t] \cup {<<CallOf(t), asked[t].answer>>}
      /\ \A u \in Threads \ {t} :
           work'[u] = work[u] /\ asked'[u] = asked[u] /\ shown'[u] = shown[u]
  BY <1>1, <1>2 DEF Typed, WorkTyped, Shown
<1>4. scope'.quota >= scope.quota
  <2>1. scope.quota \in Nat
    BY <1>2, AllowancesNat DEF Typed, Scopes
  <2> QED
    BY <1>1, <2>1
<1>5. ASSUME t \in Branches, Owed(t)'
      PROVE  Room(t)'
  <2>1. Owed(t) /\ ~ Searched(CallOf(t))
    <3> DEFINE e == <<CallOf(t), asked[t].answer>>
    <3>1. ~ \E f \in shown'[t] : Searched(f[1])
      BY <1>5 DEF Owed, SearchedBy, Searched
    <3>2. e \in shown'[t] /\ shown[t] \subseteq shown'[t] /\ e[1] = CallOf(t)
      BY <1>3
    <3> HIDE DEF e
    <3>3. ~ Searched(CallOf(t)) /\ ~ \E f \in shown[t] : Searched(f[1])
      BY <3>1, <3>2
    <3> QED
      BY <1>5, <3>3 DEF Owed, SearchedBy
  <2>2. Room(t)
    BY <1>1, <1>5, <2>1 DEF QueryLeft
  <2>3. work[t].at \in {"rag", "disclosure", "priority"}
    <3>1. work[t].at \notin {"search", "widen"}
      BY <1>1, <1>2, <2>1, CallTyped DEF Searched
    <3> QED
      BY <1>1, <2>2, <3>1 DEF Room, Asks, Ended
  <2>4. /\ Limit(t) \in Nat /\ Limit(t) >= 1 /\ PriorityLimit(t) = Limit(t) - 1
        /\ ByQuestion[t].disclosure # "none" => Limit(t) >= 2
        /\ ByQuestion[t].queries # <<>>
    BY <1>5, <2>1, ReservedSound DEF Owed
  <2>5. v.calls = work[t].calls /\ v.calls \in Nat
    BY <1>1, <1>2 DEF AnswerUsed, WorkStates
  <2>6. CASE Told(t) \in Refusals
    <3>1. work[t].at # "rag"
      BY <1>1, <2>6 DEF Told, Hidden
    <3>2. v.at = "raised"
      BY <1>1, <2>3, <2>6, <3>1 DEF AnswerUsed
    <3> QED
      BY <1>3, <3>2 DEF Room
  <2>7. CASE Told(t) \notin Refusals
    <3>1. /\ v.at \in {"disclosure", "priority", "search"}
          /\ v.at = "disclosure" => work[t].at = "rag"
          /\ work[t].at = "rag" /\ v.at # "disclosure" => ByQuestion[t].disclosure = "none"
          /\ v.at = "priority" => v.calls < PriorityLimit(t)
      BY <1>1, <2>3, <2>4, <2>7 DEF AnswerUsed
    <3>2. /\ work[t].at = "rag" => work[t].calls = 0
          /\ work[t].at = "disclosure" => work[t].calls = 1 /\ Limit(t) >= 2
          /\ work[t].at = "priority" => work[t].calls < Limit(t)
      BY <1>1, <1>2, <2>2, <2>4 DEF Room, HasItsCall
    <3>3. v.at = "search" => v.calls < Limit(t)
      BY <2>3, <2>4, <2>5, <3>2
    <3>4. v.at = "priority" => v.calls + 1 < Limit(t)
      BY <2>4, <2>5, <3>1
    <3>5. v.at = "disclosure" => v.calls = 0
      BY <2>5, <3>1, <3>2
    <3> QED
      BY <1>3, <3>1, <3>3, <3>4, <3>5 DEF Room
  <2> QED
    BY <2>6, <2>7
<1> QED
  BY <1>1, <1>3, <1>4, <1>5, QueryLeftKept

LEMMA BreakQueryLeft ==
  ASSUME Base, Base', QueryLeft, NEW t \in Threads, Break(t)
  PROVE  QueryLeft'
<1> DEFINE v == BreakOff(t, work[t])
<1>1. /\ Asks(t) /\ asked[t] = NoCall /\ work[t].at # "rag"
      /\ ~ MayCall(t, mode = "bare") /\ Charged(t)
      /\ BrokenOff(t, work[t], v)
      /\ work' = [work EXCEPT ![t] = v]
      /\ UNCHANGED <<scope, run, mode, asked, trace, left, kept, shown, seenAs>>
  BY BreakStep
<1> HIDE DEF v
<1>2. Typed /\ work[t] \in WorkStates /\ HasItsCall(t, work[t])
  BY DEF Base, Typed, WorkTyped
<1>3. work'[t] = v /\ \A u \in Threads \ {t} : work'[u] = work[u]
  BY <1>1, <1>2 DEF Typed, WorkTyped
<1>4. scope'.quota >= scope.quota
  <2>1. scope.quota \in Nat
    BY <1>2, AllowancesNat DEF Typed, Scopes
  <2> QED
    BY <1>1, <2>1
<1>5. ASSUME FirstRun, t \in Branches, Owed(t)'
      PROVE  Room(t)'
  <2>1. Owed(t)
    BY <1>1, <1>5 DEF Owed, SearchedBy
  <2>2. Room(t)
    BY <1>5, <2>1 DEF QueryLeft
  <2>3. work[t].at \in {"disclosure", "priority", "search"}
    BY <1>1, <2>2 DEF Room, Asks, Ended
  <2>4. /\ Limit(t) \in Nat /\ Limit(t) >= 1 /\ PriorityLimit(t) = Limit(t) - 1
        /\ ByQuestion[t].queries # <<>>
    BY <1>5, <2>1, ReservedSound DEF Owed
  <2>5. v.calls = work[t].calls /\ v.calls \in Nat
    BY <1>1, <1>2 DEF BrokenOff, KeepsFound, WorkStates
  <2>6. /\ work[t].at = "disclosure" => work[t].calls = 0
        /\ work[t].at = "priority" => work[t].calls + 1 < Limit(t)
        /\ work[t].at = "search" => work[t].calls < Limit(t)
    BY <1>1, <2>2 DEF Room
  <2>7. work[t].calls < Limit(t)
    BY <2>3, <2>4, <2>5, <2>6
  <2>8. QuotaSpent(mode = "bare")
    BY <1>1, <2>4, <2>5, <2>7 DEF MayCall, BranchSpent
  <2>9. QuotaSpent(mode = "bare")'
    BY <1>1, <2>8 DEF QuotaSpent
  <2>10. v.at \in {"priority", "search", "done"}
         /\ (v.at = "priority" => v.calls < PriorityLimit(t))
    BY <1>1, <2>5 DEF BrokenOff
  <2>11. v.at = "priority" => v.calls + 1 < Limit(t)
    BY <2>4, <2>5, <2>10
  <2> QED
    BY <1>1, <1>3, <2>5, <2>7, <2>9, <2>10, <2>11 DEF Room
<1> QED
  BY <1>1, <1>3, <1>4, <1>5, QueryLeftKept

(* The engine leaves the branches as they are. *)
LEMMA EngineStep ==
  ASSUME Base, Engine
  PROVE  /\ UNCHANGED <<scope, mode, asked, trace, left, kept, shown, seenAs>>
         /\ \A b \in Branches : work'[b] = work[b]
<1>1. Scheduled \subseteq Tasks /\ Branches \subseteq Threads /\ \A b \in Branches : b \notin Tasks
  BY QuestionTypes DEF Scheduled, Tasks, Threads
<1>2. UNCHANGED <<mode, asked, trace, left, kept, shown, seenAs>> /\ (Join \/ Conclude)
  BY DEF Engine
<1>3. CASE Join
  BY <1>1, <1>2, <1>3, JoinStep
<1>4. CASE Conclude
  BY <1>2, <1>4 DEF Conclude
<1> QED
  BY <1>2, <1>3, <1>4

LEMMA InitQueryLeft ==
  ASSUME Init
  PROVE  QueryLeft
<1>1. work = FreshResearch /\ \A t \in Threads : asked[t] = NoCall
  BY DEF Init
<1>2. ASSUME NEW b \in Branches, Owed(b)
      PROVE  Room(b)
  <2>1. b \in Threads /\ b \notin Tasks
    BY QuestionTypes DEF Threads
  <2>2. /\ work[b].calls = 0
        /\ work[b].at \in {"rag", "disclosure", "priority", "search", "done"}
        /\ work[b].at = "priority" => 0 < PriorityLimit(b)
        /\ work[b].at = "done" => ByQuestion[b].queries = <<>>
    BY <1>1, <2>1, FreshSound
  <2>3. /\ Limit(b) \in Nat /\ Limit(b) >= 1 /\ PriorityLimit(b) = Limit(b) - 1
        /\ ByQuestion[b].queries # <<>>
    BY <1>2, ReservedSound DEF Owed
  <2> QED
    BY <1>1, <2>1, <2>2, <2>3 DEF Room
<1> QED
  BY <1>2 DEF QueryLeft

(* No branch moves. *)
LEMMA QueryLeftStays ==
  ASSUME Base, QueryLeft, mode' = mode, scope' = scope, shown' = shown,
         \A b \in Branches :
           work'[b] = work[b] /\ (asked'[b] = NoCall <=> asked[b] = NoCall)
  PROVE  QueryLeft'
<1>1. scope \in Scopes /\ scope' \in Scopes /\ scope'.quota >= scope.quota
  <2>1. scope \in Scopes /\ scope.quota \in Nat
    BY AllowancesNat DEF Base, Typed, Scopes
  <2> QED
    BY <2>1
<1>2. ASSUME FirstRun', NEW b \in Branches, Owed(b)'
      PROVE  Room(b)'
  <2>1. FirstRun /\ Owed(b)
    BY <1>2 DEF FirstRun, Owed, SearchedBy
  <2> QED
    BY <1>1, <2>1, RoomKept DEF QueryLeft
<1> QED
  BY <1>2 DEF QueryLeft

LEMMA NextQueryLeft ==
  ASSUME Base, QueryLeft, [Next]_vars
  PROVE  QueryLeft'
<1>1. Base' /\ Branches \subseteq Threads
  BY NextBase DEF Threads
<1>2. ASSUME ~ FirstRun' PROVE QueryLeft'
  BY <1>2 DEF QueryLeft
<1>3. ASSUME NEW t \in Threads, Number(t)
      PROVE  QueryLeft'
  <2>1. UNCHANGED <<work, scope, mode, shown>> /\ asked[t] # NoCall
    BY <1>3 DEF Number, research
  <2>2. asked'[t] # NoCall /\ \A u \in Threads \ {t} : asked'[u] = asked[u]
    BY <1>3, NumberStep, NoCallUnnumbered
  <2> QED
    BY <1>1, <2>1, <2>2, QueryLeftStays
<1>4. ASSUME NEW t \in Threads, AskReplay(t)
      PROVE  QueryLeft'
  BY <1>2, <1>4, AskReplayStep DEF FirstRun
<1>5. ASSUME Engine PROVE QueryLeft'
  BY <1>5, EngineStep, QueryLeftStays
<1>6. ASSUME Replay \/ Verdict PROVE QueryLeft'
  <2>1. mode' \notin {"bare", "live"}
    BY <1>6 DEF Replay, Verdict
  <2> QED
    BY <1>2, <2>1 DEF FirstRun
<1>7. ASSUME UNCHANGED vars PROVE QueryLeft'
  BY <1>7, QueryLeftStays DEF vars
<1> QED
  BY <1>1, <1>3, <1>4, <1>5, <1>6, <1>7, AskQueryLeft, UseQueryLeft, BreakQueryLeft DEF Next

(* Prior urls never use up a branch's allocation: whatever its question    *)
(* holds and however the branches interleave, one that has a query and a   *)
(* call for it besides the disclosure's has searched for it when it is     *)
(* done, unless the run's quota of searches is used up                     *)
(* (agents/researcher.py:224-236).                                         *)
THEOREM QueryAlwaysMade == Spec => []QueryReserved
<1>1. Init => QueryLeft
  BY InitQueryLeft
<1>2. Base /\ QueryLeft /\ [Next]_vars => QueryLeft'
  BY NextQueryLeft
<1>3. Base /\ QueryLeft => QueryReserved
  <2> SUFFICES ASSUME Base, QueryLeft, FirstRun, ~ QuotaSpent(mode = "bare"),
                      NEW b \in Branches, work[b].at = "done", ByQuestion[b].queries # <<>>,
                      Reserved(b)
               PROVE  \E c \in Answered(b, AnswersOf) : Searched(c)
    BY DEF QueryReserved, FirstRun
  <2>1. ~ Room(b)
    BY DEF Room
  <2>2. PICK e \in shown[b] : Searched(e[1])
    BY <2>1 DEF QueryLeft, Owed, SearchedBy
  <2>3. e \in Calls \X AnswersOf
    BY DEF Base, Typed, Shown, Threads
  <2>4. e[1] \in Answered(b, AnswersOf)
    BY <2>3 DEF Answered
  <2> QED
    BY <2>2, <2>4
<1> QED
  BY <1>1, <1>2, <1>3, BaseInvariant, PTL DEF Spec

---------------------------------------------------------------------------
(* What the branches found is joined. *)

(* A branch holds what it was shown to have found, and one that ended with *)
(* an error was refused where nobody catches it.                           *)
KeptBy(b) ==
  /\ FoundBy(b) \subseteq work[b].seen
  /\ work[b].at = "fetch" => Found(b, work[b], work[b].rank) \in work[b].seen
  /\ work[b].at = "raised" => Uncaught(b)

Excused ==
  \/ ~ run.joined /\ \A b \in Branches : FoundBy(b) = {}
  \/ \E t \in Threads : work[t].at = "raised" /\ Uncaught(t)

NothingLost ==
  FirstRun =>
    /\ \A b \in Branches : KeptBy(b)
    /\ run.phase = "budget_exceeded" => Excused

LEMMA KeptBySame ==
  ASSUME NEW b \in Branches, KeptBy(b), shown'[b] = shown[b],
         work'[b].at = work[b].at, work'[b].next = work[b].next,
         work'[b].rank = work[b].rank, work'[b].seen = work[b].seen
  PROVE  KeptBy(b)'
<1>1. FoundBy(b)' = FoundBy(b) /\ Uncaught(b)' = Uncaught(b)
  BY DEF FoundBy, Answered, Uncaught
<1>2. Found(b, work[b], work[b].rank)' = Found(b, work[b], work[b].rank)
  BY DEF Found, Call, Query
<1> QED
  BY <1>1, <1>2 DEF KeptBy

(* One thread moves on, and keeps what it found if it is a branch. *)
LEMMA NothingLostKept ==
  ASSUME Base, NothingLost, NEW t \in Threads, Asks(t), run' = run, mode' = mode,
         \A u \in Threads \ {t} : work'[u] = work[u] /\ shown'[u] = shown[u],
         FirstRun /\ t \in Branches => KeptBy(t)'
  PROVE  NothingLost'
<1>1. run.phase # "budget_exceeded"
  BY AskingPhase DEF Base
<1>2. ASSUME FirstRun, NEW b \in Branches
      PROVE  KeptBy(b)'
  <2>1. CASE b = t
    BY <1>2, <2>1
  <2>2. CASE b # t
    <3>1. work'[b] = work[b] /\ shown'[b] = shown[b]
      BY <2>2 DEF Threads
    <3> QED
      BY <1>2, <3>1, KeptBySame DEF NothingLost
  <2> QED
    BY <2>1, <2>2
<1> QED
  BY <1>1, <1>2 DEF NothingLost, FirstRun

LEMMA PrimaryFetched ==
  ASSUME NEW t \in Threads, work[t] \in WorkStates, HasItsCall(t, work[t]), Asks(t),
         "primary" \in Answers(t)
  PROVE  work[t].at = "fetch"
<1>1. /\ work[t].at \in {"rag", "disclosure", "priority", "search", "widen", "fetch"}
      /\ t \in Tasks => t \notin Branches
      /\ t \in Branches \/ t \in Tasks
  BY QuestionTypes DEF Asks, Ended, WorkStates, Threads
<1>2. work[t].at = "fetch" \/ Answers(t) \in {{"found", "none"}, {"found", "none", "rejected"}}
  <2>1. CASE work[t].at \in {"rag", "disclosure", "priority"} \/ t \in Tasks
    BY <1>1, <2>1 DEF Answers, HasItsCall
  <2>2. CASE work[t].at \in {"search", "widen"} /\ t \in Branches
    BY <1>1, <2>2 DEF Answers
  <2> QED
    BY <1>1, <2>1, <2>2
<1> QED
  BY <1>2

LEMMA UseNothingLost ==
  ASSUME Base, NothingLost, NEW t \in Threads, Use(t)
  PROVE  NothingLost'
<1> DEFINE v == AfterAnswer(t, work[t], Told(t))
           c == CallOf(t)
           a == asked[t].answer
<1>1. /\ FirstRun /\ Asks(t) /\ asked[t].call = c
      /\ a \in Answers(t) \cup Refusals
      /\ AnswerUsed(t, work[t], Told(t), v)
      /\ work' = [work EXCEPT ![t] = v]
      /\ shown' = [shown EXCEPT ![t] = shown[t] \cup {<<asked[t].call, a>>}]
      /\ UNCHANGED <<scope, run, mode, left, kept>>
  BY UseStep
<1>2. Typed /\ work[t] \in WorkStates /\ HasItsCall(t, work[t])
  BY DEF Base, Typed, WorkTyped
<1>3. /\ a \in AnswersOf /\ (a \notin Refusals => Told(t) = a) /\ Told(t) \in {a, "none"}
      /\ a \in {"found", "none", "rejected", "primary"} => Told(t) = a
      /\ "none" \notin Refusals /\ "primary" \notin Refusals
  <2>1. /\ a \in AnswersOf /\ (a \notin Refusals => Told(t) = a) /\ Told(t) \in {a, "none"}
    BY <1>1, <1>2, AnswersSound DEF Told, Hidden, AnswersOf
  <2>2. /\ a \in {"found", "none", "rejected", "primary"} => a \notin Refusals
        /\ "none" \notin Refusals /\ "primary" \notin Refusals
    BY DEF Refusals
  <2> QED
    BY <2>1, <2>2
<1> HIDE DEF v
<1>4. /\ work'[t] = v /\ shown'[t] = shown[t] \cup {<<c, a>>}
      /\ \A u \in Threads \ {t} : work'[u] = work[u] /\ shown'[u] = shown[u]
  BY <1>1, <1>2 DEF Typed, WorkTyped, Shown
<1>5. ASSUME NEW answers
      PROVE  Answered(t, answers)' = Answered(t, answers) \cup (IF a \in answers THEN {c} ELSE {})
  <2> DEFINE e == <<c, a>>
             chosen(E) == {f \in E : f[2] \in answers}
  <2> HIDE DEF a, c
  <2>1. e[1] = c /\ e[2] = a /\ shown'[t] = shown[t] \cup {e}
    BY <1>4
  <2> HIDE DEF e
  <2>2. chosen(shown'[t]) = chosen(shown[t]) \cup (IF a \in answers THEN {e} ELSE {})
    BY <2>1
  <2> HIDE DEF chosen
  <2>3. {f[1] : f \in chosen(shown'[t])}
          = {f[1] : f \in chosen(shown[t])} \cup (IF a \in answers THEN {c} ELSE {})
    BY <2>1, <2>2
  <2> QED
    BY <2>3 DEF Answered, chosen
<1>6. /\ work[t].at = "rag" => c[1] = "rag"
      /\ work[t].at = "disclosure" => c[1] = "disclosure"
      /\ work[t].at = "priority" => c[1] = "fetch" /\ c[2] = ByQuestion[t].urls[work[t].next]
      /\ work[t].at \in {"search", "widen"} =>
           c[1] \in {"typed", "untyped"} /\ c[2] = ByQuestion[t].queries[work[t].next]
      /\ work[t].at = "fetch" => c = <<"fetch", ByQuestion[t].queries[work[t].next], work[t].rank>>
      /\ work[t].at \in {"rag", "disclosure", "priority", "search", "widen", "fetch"}
  BY <1>1, <1>2, CallTyped
<1> HIDE DEF c, a
<1>7. ASSUME t \in Branches
      PROVE  KeptBy(t)'
  <2>1. KeptBy(t)
    BY <1>1, <1>7 DEF NothingLost
  <2>2. t \notin Tasks
    BY <1>7, QuestionTypes
  <2> DEFINE source(d) == IF Searched(d) THEN Call("fetch", d[2], 1) ELSE d
             S == Answered(t, {"found", "primary"})
             R == Answered(t, {"rejected"})
  <2>3. FoundBy(t) = {source(d) : d \in S} \ R /\ FoundBy(t)' = {source(d) : d \in S'} \ R'
    BY DEF FoundBy, Searched, Call
  <2>4. S' = S \cup (IF a \in {"found", "primary"} THEN {c} ELSE {})
        /\ R' = R \cup (IF a = "rejected" THEN {c} ELSE {})
    BY <1>5
  <2>5. a \in {"found", "primary"} => source(c) \in v.seen
    <3>1. CASE a = "found" /\ work[t].at \in {"rag", "disclosure", "priority"}
      <4>1. ~ Searched(c)
        BY <1>6, <3>1 DEF Searched
      <4>2. c \in v.seen
        BY <1>1, <1>3, <3>1 DEF AnswerUsed, c, CallOf
      <4> QED
        BY <4>1, <4>2
    <3>2. CASE a = "found" /\ work[t].at \in {"search", "widen"}
      <4>1. Searched(c) /\ c[2] = ByQuestion[t].queries[work[t].next]
        BY <1>6, <3>2 DEF Searched
      <4>2. Found(t, work[t], 1) \in v.seen
        BY <1>1, <1>3, <3>2 DEF AnswerUsed
      <4> QED
        BY <4>1, <4>2 DEF Found, Query
    <3>3. CASE a \in {"found", "primary"} /\ work[t].at = "fetch"
      <4>1. ~ Searched(c)
        BY <1>6, <3>3 DEF Searched
      <4>2. c = Found(t, work[t], work[t].rank)
        BY <1>6, <3>3 DEF Found, Query, Call
      <4>3. c \in work[t].seen
        BY <2>1, <3>3, <4>2 DEF KeptBy
      <4>4. work[t].seen \subseteq v.seen
        BY <1>1, <1>3, <3>3 DEF AnswerUsed
      <4> QED
        BY <4>1, <4>3, <4>4
    <3>4. a = "primary" => work[t].at = "fetch"
      BY <1>1, <1>2, <1>3, PrimaryFetched
    <3> QED
      BY <1>6, <3>1, <3>2, <3>3, <3>4
  <2>6. work[t].seen \ (IF a = "rejected" THEN {c} ELSE {}) \subseteq v.seen
    BY <1>1, <1>3 DEF AnswerUsed, c, CallOf
  <2>7. FoundBy(t) \subseteq work[t].seen
    BY <2>1 DEF KeptBy
  <2> HIDE DEF source, S, R
  <2>8. FoundBy(t)' \subseteq v.seen
    BY <2>3, <2>4, <2>5, <2>6, <2>7
  <2>9. v.at = "fetch" => Found(t, work'[t], work'[t].rank) \in v.seen
    <3>1. work'[t].next = v.next /\ work'[t].rank = v.rank
      BY <1>4
    <3>2. Found(t, work'[t], work'[t].rank) = FoundAt(t, v)
      BY <3>1 DEF Found, FoundAt, Query, Call
    <3> QED
      BY <1>1, <3>2 DEF AnswerUsed
  <2>10. v.at = "raised" => Uncaught(t)'
    <3> SUFFICES ASSUME v.at = "raised" PROVE Uncaught(t)'
      OBVIOUS
    <3>1. Told(t) \in Refusals /\ work[t].at \in {"disclosure", "priority"}
      BY <1>1, <2>2 DEF AnswerUsed
    <3>2. a \in Refusals /\ c \in Answered(t, Refusals)'
      BY <1>3, <1>5, <3>1
    <3>3. work[t].at = "priority" => work[t].next \in DOMAIN ByQuestion[t].urls
      BY <1>2, QuestionTypes DEF HasItsCall
    <3> QED
      BY <1>6, <3>1, <3>2, <3>3 DEF Uncaught
  <2> QED
    BY <1>4, <2>8, <2>9, <2>10 DEF KeptBy
<1> QED
  BY <1>1, <1>4, <1>7, NothingLostKept

LEMMA NextNothingLost ==
  ASSUME Base, NothingLost, [Next]_vars
  PROVE  NothingLost'
<1>1. Typed /\ Phased
  BY DEF Base
<1>2. ASSUME ~ FirstRun' PROVE NothingLost'
  BY <1>2 DEF NothingLost
<1>3. ASSUME NEW t \in Threads, Ask(t)
      PROVE  NothingLost'
  <2> DEFINE w == ChargedWork(t)
  <2>1. /\ FirstRun /\ Asks(t) /\ work' = [work EXCEPT ![t] = w]
        /\ w.at = work[t].at /\ w.next = work[t].next /\ w.rank = work[t].rank
        /\ w.seen = work[t].seen
        /\ UNCHANGED <<run, mode, trace, left, kept, shown>>
    BY <1>3, AskStep
  <2> HIDE DEF w
  <2>2. work'[t] = w /\ \A u \in Threads \ {t} : work'[u] = work[u]
    BY <1>1, <2>1 DEF Typed, WorkTyped
  <2>3. ASSUME t \in Branches PROVE KeptBy(t)'
    BY <2>1, <2>2, <2>3, KeptBySame DEF NothingLost
  <2> QED
    BY <2>1, <2>2, <2>3, NothingLostKept
<1>4. ASSUME NEW t \in Threads, Break(t)
      PROVE  NothingLost'
  <2> DEFINE v == BreakOff(t, work[t])
  <2>1. /\ Asks(t) /\ BrokenOff(t, work[t], v) /\ work' = [work EXCEPT ![t] = v]
        /\ UNCHANGED <<scope, run, mode, asked, trace, left, kept, shown, seenAs>>
    BY <1>4, BreakStep
  <2> HIDE DEF v
  <2>2. work'[t] = v /\ \A u \in Threads \ {t} : work'[u] = work[u]
    BY <1>1, <2>1 DEF Typed, WorkTyped
  <2>3. v.seen = work[t].seen /\ v.at \in {"priority", "search", "done"}
    BY <2>1 DEF BrokenOff, KeepsFound
  <2>4. ASSUME FirstRun, t \in Branches PROVE KeptBy(t)'
    <3>1. FoundBy(t)' = FoundBy(t)
      BY <2>1 DEF FoundBy, Answered
    <3>2. FoundBy(t) \subseteq work[t].seen
      BY <2>4 DEF NothingLost, KeptBy
    <3> QED
      BY <2>2, <2>3, <3>1, <3>2 DEF KeptBy
  <2> QED
    BY <2>1, <2>2, <2>4, NothingLostKept
<1>5. ASSUME UNCHANGED <<work, run, mode, shown>>
      PROVE  NothingLost'
  <2>1. Excused' = Excused
    BY <1>5 DEF Excused, Uncaught, FoundBy, Answered
  <2>2. ASSUME FirstRun, NEW b \in Branches PROVE KeptBy(b)'
    BY <1>5, <2>2, KeptBySame DEF NothingLost
  <2> QED
    BY <1>5, <2>1, <2>2 DEF NothingLost, FirstRun
<1>6. ASSUME NEW t \in Threads, Number(t)
      PROVE  NothingLost'
  BY <1>5, <1>6 DEF Number, research
<1>7. ASSUME NEW t \in Threads, AskReplay(t)
      PROVE  NothingLost'
  BY <1>2, <1>7, AskReplayStep DEF FirstRun
<1>8. ASSUME Replay \/ Verdict PROVE NothingLost'
  <2>1. mode' \notin {"bare", "live"}
    BY <1>8 DEF Replay, Verdict
  <2> QED
    BY <1>2, <2>1 DEF FirstRun
<1>9. ASSUME UNCHANGED vars PROVE NothingLost'
  BY <1>5, <1>9 DEF vars
<1>10. ASSUME Engine PROVE NothingLost'
  <2>1. /\ UNCHANGED <<scope, mode, asked, trace, left, kept, shown, seenAs>>
        /\ \A b \in Branches : work'[b] = work[b]
    BY <1>10, EngineStep
  <2> SUFFICES ASSUME FirstRun PROVE NothingLost'
    BY <2>1 DEF NothingLost, FirstRun
  <2>2. \A b \in Branches : KeptBy(b)'
    BY <2>1, KeptBySame DEF NothingLost
  <2>3. run'.phase = "budget_exceeded" => Excused'
    <3>1. CASE Join
      <4>1. run.phase = "research" /\ ~ run.joined
        BY <1>1, <3>1, JoinStep DEF Phased
      <4>2. CASE RaisedBy(Branches) # {} /\ work' = work
        <5>1. PICK b \in Branches : work[b].at = "raised"
          BY <4>2 DEF RaisedBy
        <5>2. Uncaught(b)'
          BY <2>1, <2>2, <5>1 DEF KeptBy
        <5> QED
          BY <2>1, <5>1, <5>2 DEF Excused, Threads
      <4>3. CASE /\ Output = {}
                 /\ run' = [run EXCEPT !.phase = "budget_exceeded", !.detail = scope.refusal]
        <5>1. \A b \in Branches : FoundBy(b) = {}
          BY <4>3 DEF NothingLost, KeptBy, Output
        <5>2. \A b \in Branches : FoundBy(b)' = FoundBy(b)
          BY <2>1 DEF FoundBy, Answered
        <5>3. ~ run'.joined
          BY <1>1, <4>1, <4>3 DEF Typed, RunStates
        <5> QED
          BY <5>1, <5>2, <5>3 DEF Excused
      <4>4. CASE run' = [run EXCEPT !.phase = "retry", !.joined = TRUE, !.active = Scheduled]
        BY <1>1, <4>4 DEF Typed, RunStates
      <4> QED
        BY <3>1, <4>2, <4>3, <4>4, JoinStep
    <3>2. CASE Conclude
      <4>1. CASE RaisedBy(run.active) # {}
        <5>1. PICK t \in Tasks : work'[t].at = "raised"
          BY <1>1, <3>2, <4>1 DEF Conclude, Typed, RunStates, RaisedBy
        <5> QED
          BY <5>1 DEF Excused, Uncaught, Threads
      <4>2. CASE RaisedBy(run.active) = {}
        BY <1>1, <3>2, <4>2 DEF Conclude, Finish, Typed, RunStates
      <4> QED
        BY <4>1, <4>2
    <3> QED
      BY <1>10, <3>1, <3>2 DEF Engine
  <2> QED
    BY <2>2, <2>3 DEF NothingLost
<1> QED
  BY <1>3, <1>4, <1>6, <1>7, <1>8, <1>9, <1>10, UseNothingLost DEF Next

LEMMA InitNothingLost ==
  ASSUME Init
  PROVE  NothingLost
<1>1. work = FreshResearch /\ run = NewRun /\ \A t \in Threads : shown[t] = {}
  BY DEF Init
<1>2. ASSUME NEW b \in Branches
      PROVE  KeptBy(b)
  <2>1. b \in Threads
    BY DEF Threads
  <2>2. work[b].at \in {"off", "rag", "disclosure", "priority", "search", "done"}
    BY <1>1, <2>1, FreshSound
  <2>3. FoundBy(b) = {}
    BY <1>1, <2>1 DEF FoundBy, Answered
  <2> QED
    BY <2>2, <2>3 DEF KeptBy
<1> QED
  BY <1>1, <1>2 DEF NothingLost, NewRun

(* A refused request costs a run nothing it has found: whatever the        *)
(* branches ask and in whatever order they are refused, all of it is       *)
(* joined, and a run ends over its allowance only with nothing to join or  *)
(* because of a refusal that nobody catches                                *)
(* (agents/researcher.py:108-118, nodes/research.py:402).                  *)
THEOREM WorkKeptOnRefusal == Spec => []RefusalKeepsWork
<1>1. Init => NothingLost
  BY InitNothingLost
<1>2. Base /\ NothingLost /\ [Next]_vars => NothingLost'
  BY NextNothingLost
<1>3. NothingLost => RefusalKeepsWork
  BY DEF NothingLost, RefusalKeepsWork, KeptBy, Excused, FirstRun
<1> QED
  BY <1>1, <1>2, <1>3, BaseInvariant, PTL DEF Spec

---------------------------------------------------------------------------
(* The allowance the retries were scheduled within. *)

(* The scheduled retries that have not made their first search, and those  *)
(* that may still make a second, without a source type.                    *)
OwesFirst == {t \in run.active : work[t].at = "search" /\ asked[t] = NoCall}
OwesSecond ==
  {t \in run.active : work[t].at = "search" \/ (work[t].at = "widen" /\ asked[t] = NoCall)}

Payable ==
  scope.search + Cardinality(OwesFirst) + Cardinality(OwesSecond) <= max_search_requests

Afforded ==
  /\ RetriesFit
  /\ \A t \in Tasks : asked[t].answer \in Refusals => seenAs.repeated
  /\ \A i \in DOMAIN trace :
       Searched(trace[i].call) /\ trace[i].call[3] = 2 /\ trace[i].answer \in Refusals =>
         seenAs.repeated
  /\ FirstRun /\ run.phase = "retry" /\ ~ seenAs.repeated => Payable

LEMMA TasksFinite ==
  /\ IsFiniteSet(Tasks)
  /\ \A n \in Nat :
       LET S == {retry_queue[i] : i \in DOMAIN retry_queue \cap 1..n}
       IN  IsFiniteSet(S) /\ Cardinality(S) <= n
<1>1. retry_queue \in Seq(Tasks) /\ Len(retry_queue) \in Nat
      /\ DOMAIN retry_queue = 1..Len(retry_queue)
  BY ResearchAssumption
<1>2. ASSUME NEW n \in Nat
      PROVE  LET S == {retry_queue[i] : i \in DOMAIN retry_queue \cap 1..n}
             IN  IsFiniteSet(S) /\ Cardinality(S) <= n
  <2> DEFINE D == DOMAIN retry_queue \cap 1..n
             S == {retry_queue[i] : i \in D}
             f == [i \in D |-> retry_queue[i]]
  <2>1. IsFiniteSet(1..n) /\ Cardinality(1..n) = n
    <3>1. 1 \in Int /\ n \in Int
      OBVIOUS
    <3>2. IsFiniteSet(1..n) /\ Cardinality(1..n) = IF 1 > n THEN 0 ELSE n - 1 + 1
      BY <3>1, FS_Interval
    <3>3. (IF 1 > n THEN 0 ELSE n - 1 + 1) = n
      OBVIOUS
    <3> QED
      BY <3>2, <3>3
  <2>2. D \in SUBSET (1..n)
    OBVIOUS
  <2>3. IsFiniteSet(D) /\ Cardinality(D) <= n
    <3> HIDE DEF D
    <3> QED
      BY <2>1, <2>2, FS_Subset
  <2>4. f \in Surjection(D, S)
    BY DEF Surjection
  <2> HIDE DEF D, S, f
  <2>5. IsFiniteSet(S) /\ Cardinality(S) <= Cardinality(D)
    BY <2>3, <2>4, FS_Surjection
  <2>6. Cardinality(S) \in Nat /\ Cardinality(D) \in Nat
    BY <2>3, <2>5, FS_CardinalityType
  <2>7. Cardinality(S) <= n
    BY <2>3, <2>5, <2>6
  <2> QED
    BY <2>5, <2>7 DEF S, D
<1>3. Tasks = {retry_queue[i] : i \in DOMAIN retry_queue \cap 1..Len(retry_queue)}
  BY <1>1 DEF Tasks
<1> QED
  BY <1>1, <1>2, <1>3

LEMMA OwedFinite ==
  ASSUME Typed
  PROVE  /\ IsFiniteSet(OwesFirst) /\ Cardinality(OwesFirst) \in Nat
         /\ IsFiniteSet(OwesSecond) /\ Cardinality(OwesSecond) \in Nat
<1>1. OwesFirst \in SUBSET Tasks /\ OwesSecond \in SUBSET Tasks
  BY DEF Typed, RunStates, OwesFirst, OwesSecond
<1>2. IsFiniteSet(OwesFirst) /\ IsFiniteSet(OwesSecond)
  BY <1>1, TasksFinite, FS_Subset
<1> QED
  BY <1>2, FS_CardinalityType

LEMMA SearchesNat ==
  ASSUME Typed
  PROVE  scope.search \in Nat /\ max_search_requests \in Nat
BY AllowancesNat DEF Typed, Scopes

(* No retry owes more than it did. *)
LEMMA OwedLess ==
  ASSUME Typed, Payable, scope' = scope,
         OwesFirst' \subseteq OwesFirst, OwesSecond' \subseteq OwesSecond
  PROVE  Payable'
<1>1. /\ Cardinality(OwesFirst) \in Nat /\ Cardinality(OwesSecond) \in Nat
      /\ IsFiniteSet(OwesFirst) /\ IsFiniteSet(OwesSecond)
  BY OwedFinite
<1>2. Cardinality(OwesFirst') \in Nat /\ Cardinality(OwesSecond') \in Nat
  <2>1. IsFiniteSet(OwesFirst') /\ IsFiniteSet(OwesSecond')
    BY <1>1, FS_Subset
  <2> QED
    BY <2>1, FS_CardinalityType
<1> DEFINE a == Cardinality(OwesFirst)
           b == Cardinality(OwesSecond)
           c == Cardinality(OwesFirst')
           d == Cardinality(OwesSecond')
<1>3. c <= a /\ d <= b
  BY <1>1, FS_Subset
<1>4. scope.search \in Nat /\ max_search_requests \in Nat /\ scope'.search = scope.search
  BY SearchesNat
<1>5. a \in Nat /\ b \in Nat /\ c \in Nat /\ d \in Nat
      /\ scope.search + a + b <= max_search_requests
  BY <1>1, <1>2 DEF Payable
<1> HIDE DEF a, b, c, d
<1>6. scope'.search + c + d <= max_search_requests
  BY <1>3, <1>4, <1>5
<1> QED
  BY <1>6 DEF Payable, c, d

(* Nothing is asked, used or moved. *)
LEMMA AffordedStays ==
  ASSUME Typed, Afforded, mode' = mode, scope' = scope, run' = run, work' = work,
         trace' = trace, seenAs.repeated => seenAs'.repeated,
         \A t \in Threads : /\ asked'[t].answer = asked[t].answer
                            /\ asked'[t] = NoCall <=> asked[t] = NoCall
  PROVE  Afforded'
<1>1. Tasks \subseteq Threads /\ run.active \subseteq Tasks
  BY DEF Threads, Typed, RunStates
<1>2. RetriesFit'
  BY DEF Afforded, RetriesFit
<1>3. OwesFirst' = OwesFirst /\ OwesSecond' = OwesSecond
  BY <1>1 DEF OwesFirst, OwesSecond
<1>4. Payable' = Payable
  BY <1>3 DEF Payable
<1> QED
  BY <1>1, <1>2, <1>4 DEF Afforded, FirstRun

(* A search of a retry was reckoned with. *)
LEMMA AskAfforded ==
  ASSUME Base, Afforded, NEW t \in Threads, Ask(t)
  PROVE  Afforded'
<1> DEFINE w == ChargedWork(t)
<1>1. /\ FirstRun /\ Asks(t) /\ asked[t] = NoCall /\ MayCall(t, mode = "bare")
      /\ work' = [work EXCEPT ![t] = w] /\ w.at = work[t].at
      /\ UNCHANGED <<run, mode, trace, left, kept, shown>>
  BY AskStep
<1>2. PICK n \in RequestsOf(t), got \in Answers(t) \cup Refusals :
        /\ got \in Refusals <=> ~ Fits(Lane(t), n)
        /\ scope' = Taken(ChargedScope(t, mode = "bare"), Lane(t), n, got)
        /\ asked' = [asked EXCEPT ![t] =
             [call |-> CallOf(t), by |-> t, sequence |-> 0, answer |-> got]]
        /\ seenAs' = [seenAs EXCEPT !.repeated = @ \/ (t \in Tasks /\ n > 1)]
  BY AskStep
<1> HIDE DEF w
<1>3. /\ Typed /\ Phased /\ work[t] \in WorkStates /\ HasItsCall(t, work[t])
      /\ Tasks \subseteq Threads
  BY DEF Base, Typed, WorkTyped, Threads
<1>4. /\ \/ run.phase = "research" /\ t \in Branches
         \/ run.phase = "retry" /\ t \in Tasks /\ t \in run.active
      /\ t \in Branches => t \notin Tasks
  BY <1>1, <1>3, AskingPhase, QuestionTypes
<1>5. /\ work'[t].at = work[t].at
      /\ \A u \in Threads \ {t} : work'[u] = work[u] /\ asked'[u] = asked[u]
      /\ asked'[t].answer = got
  BY <1>1, <1>2, <1>3 DEF Typed, WorkTyped
<1>6. asked'[t] # NoCall
  <2>1. asked'[t].call = CallOf(t)
    BY <1>2, <1>3 DEF Typed
  <2>2. CallOf(t) \in Calls
    BY <1>1, <1>3, CallTyped
  <2>3. CallOf(t)[1] # "none" /\ NoCall.call[1] = "none"
    BY <2>2 DEF Calls, NoCall, Call
  <2> QED
    BY <2>1, <2>3
<1>7. seenAs'.repeated = (seenAs.repeated \/ (t \in Tasks /\ n > 1))
  BY <1>2, <1>3 DEF Typed, Observed
<1>9. ASSUME t \in Tasks, ~ seenAs'.repeated
      PROVE  got \notin Refusals /\ Payable'
  <2>1. work[t].at \in {"search", "widen"} /\ t \in run.active /\ run.phase = "retry"
    BY <1>1, <1>3, <1>4, <1>9 DEF HasItsCall, Asks, Ended, WorkStates
  <2>2. Lane(t) = "search"
    BY <1>1, <1>3, <2>1, LaneSound
  <2>3. n = 1
    <3>1. n \in 1..MaxRequests[Lane(t)] /\ MaxRequests[Lane(t)] \in Nat /\ ~ (n > 1)
      BY <1>7, <1>9, <2>2, ResearchAssumption DEF RequestsOf, Lanes
    <3> QED
      BY <3>1
  <2>4. Payable
    BY <1>1, <1>7, <1>9, <2>1 DEF Afforded
  <2> DEFINE a == Cardinality(OwesFirst)
             b == Cardinality(OwesSecond)
             c == Cardinality(OwesFirst')
             d == Cardinality(OwesSecond')
  <2>5. /\ IsFiniteSet(OwesFirst) /\ a \in Nat
        /\ IsFiniteSet(OwesSecond) /\ b \in Nat
    BY <1>3, OwedFinite
  <2>6. scope.search \in Nat /\ max_search_requests \in Nat
    BY <1>3, SearchesNat
  <2>7. t \in OwesSecond /\ b >= 1
    <3>1. t \in OwesSecond
      BY <1>1, <2>1 DEF OwesSecond
    <3>2. b # 0
      BY <2>5, <3>1, FS_EmptySet
    <3> HIDE DEF b
    <3> QED
      BY <2>5, <3>1, <3>2
  <2>8. run.active \subseteq Threads
    BY <1>3 DEF Typed, RunStates
  <2>9. c + d = a + b - 1 /\ c \in Nat /\ d \in Nat
    <3>1. CASE work[t].at = "search"
      <4>1. OwesFirst' = OwesFirst \ {t} /\ t \in OwesFirst
        BY <1>1, <1>5, <1>6, <2>1, <2>8, <3>1 DEF OwesFirst
      <4>2. OwesSecond' = OwesSecond
        BY <1>1, <1>5, <2>1, <2>8, <3>1 DEF OwesSecond
      <4>3. c = a - 1 /\ d = b
        BY <2>5, <4>1, <4>2, FS_RemoveElement
      <4>4. a # 0
        BY <2>5, <4>1, FS_EmptySet
      <4> HIDE DEF a, b, c, d
      <4> QED
        BY <2>5, <4>3, <4>4
    <3>2. CASE work[t].at = "widen"
      <4>1. OwesFirst' = OwesFirst
        BY <1>1, <1>5, <2>1, <2>8, <3>2 DEF OwesFirst
      <4>2. OwesSecond' = OwesSecond \ {t}
        BY <1>1, <1>5, <1>6, <2>1, <2>8, <3>2 DEF OwesSecond
      <4>3. c = a /\ d = b - 1
        BY <2>5, <2>7, <4>1, <4>2, FS_RemoveElement
      <4> HIDE DEF a, b, c, d
      <4> QED
        BY <2>5, <2>7, <4>3
    <3> QED
      BY <2>1, <3>1, <3>2
  <2>10. scope.search + a + b <= max_search_requests
    BY <2>4 DEF Payable
  <2> HIDE DEF a, b, c, d
  <2>11. scope.search + 1 <= max_search_requests
    BY <2>5, <2>6, <2>7, <2>10
  <2>12. Fits(Lane(t), n)
    BY <2>2, <2>3, <2>11 DEF Fits, Allowance
  <2>13. scope'.search = scope.search + 1
    <3>1. n \in Nat
      BY <2>3
    <3>2. scope \in Scopes
      BY <1>3 DEF Typed
    <3>3. Taken(ChargedScope(t, mode = "bare"), Lane(t), n, got).search = scope.search + n
      BY <1>1, <1>3, <2>2, <2>12, <3>1, <3>2, CallPaid
    <3> QED
      BY <1>2, <2>3, <3>3
  <2>14. scope'.search + c + d <= max_search_requests
    BY <2>5, <2>6, <2>9, <2>10, <2>13
  <2>15. got \notin Refusals
    BY <1>2, <2>12
  <2> QED
    BY <2>14, <2>15 DEF Payable, c, d
<1>10. RetriesFit'
  <2>1. ASSUME NEW u \in Tasks, work'[u].at = "raised"
        PROVE  work[u].at = "raised"
    BY <1>3, <1>5, <2>1
  <2> QED
    BY <1>7, <2>1 DEF Afforded, RetriesFit
<1>11. \A u \in Tasks : asked'[u].answer \in Refusals => seenAs'.repeated
  <2>1. ASSUME NEW u \in Tasks, asked'[u].answer \in Refusals
        PROVE  seenAs'.repeated
    <3>1. CASE u = t
      BY <1>5, <1>9, <2>1, <3>1
    <3>2. CASE u # t
      <4>1. asked'[u] = asked[u]
        BY <1>3, <1>5, <3>2
      <4> QED
        BY <1>7, <2>1, <4>1 DEF Afforded
    <3> QED
      BY <3>1, <3>2
  <2> QED
    BY <2>1
<1>12. ASSUME run'.phase = "retry", ~ seenAs'.repeated PROVE Payable'
  BY <1>1, <1>4, <1>9, <1>12
<1>13. \A i \in DOMAIN trace' :
         Searched(trace'[i].call) /\ trace'[i].call[3] = 2 /\ trace'[i].answer \in Refusals =>
           seenAs'.repeated
  BY <1>1, <1>7 DEF Afforded
<1> QED
  BY <1>10, <1>11, <1>12, <1>13 DEF Afforded, Searched

LEMMA TaskSearches ==
  ASSUME Typed, NEW t \in Threads, Asks(t)
  PROVE  /\ t \in Tasks => work[t].at \in {"search", "widen"} /\ Searched(CallOf(t))
                           /\ CallOf(t)[3] = 2
         /\ Searched(CallOf(t)) /\ CallOf(t)[3] = 2 => t \in Tasks
<1>1. /\ work[t] \in WorkStates /\ HasItsCall(t, work[t])
      /\ t \in Branches => t \notin Tasks
      /\ work[t].at \in {"rag", "disclosure", "priority", "search", "widen", "fetch"}
  BY QuestionTypes DEF Typed, WorkTyped, Asks, Ended, WorkStates
<1>2. t \in Tasks => work[t].at \in {"search", "widen"}
  BY <1>1 DEF HasItsCall
<1>3. work[t].at \in {"search", "widen"} =>
        Searched(CallOf(t)) /\ CallOf(t)[3] = IF t \in Tasks THEN 2 ELSE 3
  BY <1>1, CallTyped DEF Searched
<1>4. work[t].at \notin {"search", "widen"} => ~ Searched(CallOf(t))
  BY <1>1, CallTyped DEF Searched
<1> QED
  BY <1>2, <1>3, <1>4

LEMMA UseAfforded ==
  ASSUME Base, Afforded, NEW t \in Threads, Use(t)
  PROVE  Afforded'
<1> DEFINE v == AfterAnswer(t, work[t], Told(t))
<1>1. /\ FirstRun /\ Asks(t) /\ asked[t] # NoCall /\ asked[t].call = CallOf(t)
      /\ AnswerUsed(t, work[t], Told(t), v)
      /\ work' = [work EXCEPT ![t] = v]
      /\ trace' = IF mode = "live" THEN Append(trace, asked[t]) ELSE trace
      /\ asked' = [asked EXCEPT ![t] = NoCall]
      /\ Note("hidden", Hidden(t))
      /\ UNCHANGED <<scope, run, mode, left, kept>>
  BY UseStep
<1> HIDE DEF v
<1>2. Typed /\ Phased /\ Tasks \subseteq Threads /\ run.active \subseteq Tasks
  BY DEF Base, Typed, RunStates, Threads
<1>3. /\ work'[t] = v /\ asked'[t] = NoCall
      /\ \A u \in Threads \ {t} : work'[u] = work[u] /\ asked'[u] = asked[u]
  BY <1>1, <1>2 DEF Typed, WorkTyped
<1>4. seenAs'.repeated = seenAs.repeated
  BY <1>1, <1>2 DEF Note, Typed, Observed
<1>5. t \in Tasks /\ asked[t].answer \in Refusals => seenAs.repeated
  BY DEF Afforded
<1>6. RetriesFit'
  <2>1. ASSUME NEW u \in Tasks, work'[u].at = "raised"
        PROVE  seenAs'.repeated
    <3>1. CASE u = t
      <4>1. v.at = "raised"
        BY <1>3, <2>1, <3>1
      <4>2. Told(t) \in Refusals
        BY <1>1, <4>1 DEF AnswerUsed
      <4>3. asked[t].answer \in Refusals
        <5>1. "none" \notin Refusals
          BY DEF Refusals
        <5> QED
          BY <4>2, <5>1 DEF Told
      <4> QED
        BY <1>4, <1>5, <3>1, <4>3
    <3>2. CASE u # t
      <4>1. work[u].at = "raised"
        BY <1>2, <1>3, <2>1, <3>2
      <4> QED
        BY <1>4, <4>1 DEF Afforded, RetriesFit
    <3> QED
      BY <3>1, <3>2
  <2> QED
    BY <2>1 DEF RetriesFit
<1>7. \A u \in Tasks : asked'[u].answer \in Refusals => seenAs'.repeated
  <2>1. NoCall.answer \notin Refusals
    BY DEF NoCall, Call, Refusals
  <2> QED
    BY <1>2, <1>3, <1>4, <2>1 DEF Afforded
<1>8. \A i \in DOMAIN trace' :
        Searched(trace'[i].call) /\ trace'[i].call[3] = 2 /\ trace'[i].answer \in Refusals =>
          seenAs'.repeated
  <2>1. \A i \in DOMAIN trace' : \/ i \in DOMAIN trace /\ trace'[i] = trace[i]
                                 \/ trace'[i] = asked[t]
    BY <1>1, <1>2 DEF Typed
  <2>2. Searched(asked[t].call) /\ asked[t].call[3] = 2 => t \in Tasks
    BY <1>1, <1>2, TaskSearches
  <2> QED
    BY <1>4, <1>5, <2>1, <2>2 DEF Afforded
<1>9. ASSUME run'.phase = "retry", ~ seenAs'.repeated
      PROVE  Payable'
  <2>1. run' = run /\ scope' = scope /\ Payable
    BY <1>1, <1>4, <1>9 DEF Afforded
  <2>2. t \in Tasks /\ work[t].at \in {"search", "widen"}
    BY <1>1, <1>2, <2>1, <1>9, AskingPhase, TaskSearches
  <2>3. v.at \in {"done", "raised", "widen"} /\ (v.at = "widen" => work[t].at = "search")
    BY <1>1, <2>2 DEF AnswerUsed
  <2>4. OwesFirst' \subseteq OwesFirst
    BY <1>2, <1>3, <2>1, <2>3 DEF OwesFirst
  <2>5. OwesSecond' \subseteq OwesSecond
    BY <1>2, <1>3, <2>1, <2>3 DEF OwesSecond
  <2> QED
    BY <1>2, <2>1, <2>4, <2>5, OwedLess
<1> QED
  BY <1>6, <1>7, <1>8, <1>9 DEF Afforded, Searched

LEMMA BreakAfforded ==
  ASSUME Base, Afforded, NEW t \in Threads, Break(t)
  PROVE  Afforded'
<1> DEFINE v == BreakOff(t, work[t])
<1>1. /\ Asks(t) /\ BrokenOff(t, work[t], v) /\ work' = [work EXCEPT ![t] = v]
      /\ UNCHANGED <<scope, run, mode, asked, trace, left, kept, shown, seenAs>>
  BY BreakStep
<1> HIDE DEF v
<1>2. Typed /\ Tasks \subseteq Threads /\ run.active \subseteq Tasks
  BY DEF Base, Typed, RunStates, Threads
<1>3. work'[t] = v /\ \A u \in Threads \ {t} : work'[u] = work[u]
  BY <1>1, <1>2 DEF Typed, WorkTyped
<1>4. v.at # "raised" /\ (t \in Tasks => v.at = "done")
  BY <1>1 DEF BrokenOff
<1>5. RetriesFit'
  BY <1>1, <1>2, <1>3, <1>4 DEF Afforded, RetriesFit
<1>6. ASSUME FirstRun, run.phase = "retry", ~ seenAs.repeated
      PROVE  Payable'
  <2>1. Payable
    BY <1>6 DEF Afforded
  <2>2. OwesFirst' \subseteq OwesFirst
    BY <1>1, <1>2, <1>3, <1>4 DEF OwesFirst
  <2>3. OwesSecond' \subseteq OwesSecond
    BY <1>1, <1>2, <1>3, <1>4 DEF OwesSecond
  <2> QED
    BY <1>1, <1>2, <2>1, <2>2, <2>3, OwedLess
<1> QED
  BY <1>1, <1>5, <1>6 DEF Afforded, FirstRun

LEMMA AskReplayAfforded ==
  ASSUME Base, Afforded, NEW t \in Threads, AskReplay(t)
  PROVE  Afforded'
<1>1. /\ mode = "replay" /\ Asks(t)
      /\ UNCHANGED <<run, asked, trace, kept, shown>>
      /\ seenAs["repeated"] => seenAs'["repeated"]
      /\ ~ FirstRun'
  BY AskReplayStep DEF FirstRun
<1>2. Typed /\ Tasks \subseteq Threads
  BY DEF Base, Threads
<1>3. CASE work' = work
  BY <1>1, <1>3 DEF Afforded, RetriesFit
<1>4. ASSUME NEW i \in DOMAIN trace, NEW v, trace[i].call = CallOf(t),
             work' = [work EXCEPT ![t] = v],
             AnswerUsed(t, ChargedWork(t), trace[i].answer, v)
      PROVE  Afforded'
  <2>1. work'[t] = v /\ \A u \in Threads \ {t} : work'[u] = work[u]
    BY <1>2, <1>4 DEF Typed, WorkTyped
  <2>2. t \in Tasks /\ v.at = "raised" => seenAs.repeated
    <3>1. v.at = "raised" => trace[i].answer \in Refusals
      BY <1>4 DEF AnswerUsed
    <3>2. t \in Tasks => Searched(trace[i].call) /\ trace[i].call[3] = 2
      BY <1>1, <1>2, <1>4, TaskSearches
    <3> QED
      BY <3>1, <3>2 DEF Afforded
  <2>3. RetriesFit'
    BY <1>1, <1>2, <2>1, <2>2 DEF Afforded, RetriesFit
  <2> QED
    BY <1>1, <2>3 DEF Afforded
<1> QED
  BY <1>3, <1>4, AskReplayStep

(* What is scheduled fits, two searches each. *)
LEMMA JoinAfforded ==
  ASSUME Base, scope' = scope, run'.active = Scheduled
  PROVE  Payable'
<1>1. Typed
  BY DEF Base
<1>2. scope.search \in Nat /\ max_search_requests \in Nat /\ scope.search <= max_search_requests
  BY <1>1, SearchesNat DEF Typed, Scopes
<1>3. Capacity \in Nat /\ 2 * Capacity <= max_search_requests - scope.search
  <2>1. \A m, n \in Nat : n <= m => (m - n) \div 2 \in Nat /\ 2 * ((m - n) \div 2) <= m - n
    OBVIOUS
  <2> QED
    BY <1>2, <2>1 DEF Capacity
<1> DEFINE c == Cardinality(OwesFirst')
           d == Cardinality(OwesSecond')
           n == Capacity
<1>4. IsFiniteSet(Scheduled) /\ Cardinality(Scheduled) <= n
  BY <1>3, TasksFinite DEF Scheduled
<1>5. OwesFirst' \in SUBSET Scheduled /\ OwesSecond' \in SUBSET Scheduled
  BY DEF OwesFirst, OwesSecond
<1>6. /\ c \in Nat /\ d \in Nat /\ Cardinality(Scheduled) \in Nat
      /\ c <= Cardinality(Scheduled) /\ d <= Cardinality(Scheduled)
  BY <1>4, <1>5, FS_Subset, FS_CardinalityType
<1> HIDE DEF c, d, n
<1>7. c <= n /\ d <= n /\ n \in Nat
  BY <1>3, <1>4, <1>6 DEF n
<1>8. 2 * n <= max_search_requests - scope.search
  BY <1>3 DEF n
<1>9. scope'.search + c + d <= max_search_requests
  BY <1>2, <1>6, <1>7, <1>8
<1> QED
  BY <1>9 DEF Payable, c, d

LEMMA EngineAfforded ==
  ASSUME Base, Afforded, Engine
  PROVE  Afforded'
<1>1. UNCHANGED <<scope, mode, asked, trace, left, kept, shown, seenAs>>
  BY EngineStep
<1>2. Typed /\ Tasks \subseteq Threads
  BY DEF Base, Threads
<1>3. ASSUME work' = work, run'.phase # "retry"
      PROVE  Afforded'
  BY <1>1, <1>3 DEF Afforded, RetriesFit
<1>4. CASE Join
  <2>1. ASSUME NEW d, run' = [run EXCEPT !.phase = "budget_exceeded", !.detail = d],
               work' = work
        PROVE  Afforded'
    BY <1>2, <1>3, <2>1 DEF Typed, RunStates
  <2>2. CASE /\ run' = [run EXCEPT !.phase = "retry", !.joined = TRUE, !.active = Scheduled]
             /\ work' = [t \in Threads |->
                  IF t \in Scheduled THEN NewWork("search") ELSE work[t]]
    <3>1. run'.active = Scheduled
      BY <1>2, <2>2 DEF Typed, RunStates
    <3>2. Payable'
      BY <1>1, <3>1, JoinAfforded
    <3>3. \A t \in Tasks : work'[t].at = "raised" => work[t].at = "raised"
      BY <1>2, <2>2 DEF NewWork
    <3>4. RetriesFit'
      BY <1>1, <3>3 DEF Afforded, RetriesFit
    <3> QED
      BY <1>1, <3>2, <3>4 DEF Afforded
  <2> QED
    BY <1>4, <2>1, <2>2, JoinStep
<1>5. CASE Conclude
  <2>1. work' = work /\ run'.phase # "retry"
    BY <1>2, <1>5, ConcludeStep DEF Typed, RunStates
  <2> QED
    BY <1>3, <2>1
<1> QED
  BY <1>4, <1>5 DEF Engine

LEMMA NextAfforded ==
  ASSUME Base, Afforded, [Next]_vars
  PROVE  Afforded'
<1>1. Typed
  BY DEF Base
<1>2. ASSUME NEW t \in Threads, Number(t)
      PROVE  Afforded'
  <2>1. /\ UNCHANGED <<work, scope, run, mode, trace>> /\ asked[t] # NoCall
        /\ seenAs'.repeated = seenAs.repeated
    BY <1>1, <1>2 DEF Number, research, Note, Typed, Observed
  <2>2. /\ asked'[t] # NoCall /\ asked'[t].answer = asked[t].answer
        /\ \A u \in Threads \ {t} : asked'[u] = asked[u]
    BY <1>2, NumberStep, NoCallUnnumbered
  <2> QED
    BY <1>1, <2>1, <2>2, AffordedStays
<1>3. ASSUME Replay PROVE Afforded'
  <2>1. /\ UNCHANGED <<asked, trace>> /\ seenAs'.repeated = seenAs.repeated
        /\ (work' = FreshResearch \/ work' = work) /\ mode' \notin {"bare", "live"}
    BY <1>3, ReplayStep
  <2>2. \A t \in Tasks : work'[t].at = "raised" => work[t].at = "raised"
    BY <2>1, FreshSound DEF Threads
  <2>3. RetriesFit'
    BY <2>1, <2>2 DEF Afforded, RetriesFit
  <2> QED
    BY <2>1, <2>3 DEF Afforded, FirstRun
<1>4. ASSUME Verdict PROVE Afforded'
  <2>1. UNCHANGED <<work, asked, trace, seenAs>> /\ mode' \notin {"bare", "live"}
    BY <1>4 DEF Verdict, research
  <2> QED
    BY <2>1 DEF Afforded, RetriesFit, FirstRun
<1>5. ASSUME UNCHANGED vars PROVE Afforded'
  BY <1>1, <1>5, AffordedStays DEF vars
<1> QED
  BY <1>2, <1>3, <1>4, <1>5, AskAfforded, UseAfforded, BreakAfforded, AskReplayAfforded,
     EngineAfforded DEF Next

LEMMA InitAfforded ==
  ASSUME Init
  PROVE  Afforded
<1>1. /\ work = FreshResearch /\ run.phase = "research" /\ trace = <<>>
      /\ \A t \in Threads : asked[t] = NoCall
  BY FreshBase DEF Init
<1>2. NoCall.answer \notin Refusals
  BY DEF NoCall, Call, Refusals
<1>3. \A t \in Tasks : t \in Threads /\ work[t].at # "raised"
  BY <1>1, FreshSound DEF Threads
<1> QED
  BY <1>1, <1>2, <1>3 DEF Afforded, RetriesFit

(* The capacity check of the retries is enough: however many are in the    *)
(* queue and whatever the branches took before, a retry that was scheduled *)
(* is refused, and the run with it, only if a search of a retry took more  *)
(* than one request, which nothing reckons with (nodes/retry.py:14-36).    *)
THEOREM RetriesWithinAllowance == Spec => []RetriesFit
<1>1. Init => Afforded
  BY InitAfforded
<1>2. Base /\ Afforded /\ [Next]_vars => Afforded'
  BY NextAfforded
<1>3. Afforded => RetriesFit
  BY DEF Afforded
<1> QED
  BY <1>1, <1>2, <1>3, BaseInvariant, PTL DEF Spec

---------------------------------------------------------------------------
(* What a recorded run leaves behind for its replay. *)

States == [work : WorkStates, from : Nat]

Last(t) == Len(past[t])
Final(t) == past[t][Last(t)].work

Charge(w) == [w EXCEPT !.calls = IF w.at # "rag" THEN w.calls + 1 ELSE w.calls]
Asking(w) == w.at \notin {"done", "raised", "off"}
MayAsk(t, w) == w.at # "rag" => ~ BranchSpent(t, w)

(* A thread goes on from w to v by the i-th call of a trace, for want of   *)
(* calls, or because its task is scheduled.                                *)
ByAnswer(calls, t, w, i, v) ==
  /\ i \in DOMAIN calls /\ calls[i].by = t /\ calls[i].call = CallAt(t, w)
  /\ Asking(w) /\ MayAsk(t, w)
  /\ v = AfterAnswer(t, Charge(w), calls[i].answer)

ByBreak(t, w, v) == Asking(w) /\ ~ MayAsk(t, w) /\ v = BreakOff(t, w)

ByStart(t, w, v) == t \in Tasks /\ w.at = "off" /\ v = NewWork("search")

LeadsTo(calls, t, w, i, v) ==
  ByAnswer(calls, t, w, i, v) \/ (i = 0 /\ (ByBreak(t, w, v) \/ ByStart(t, w, v)))

Chained(t) ==
  \A k \in 1..(Last(t) - 1) :
    LeadsTo(trace, t, past[t][k].work, past[t][k + 1].from, past[t][k + 1].work)

InOrder(t) ==
  \A j, k \in 1..Last(t) : j < k /\ past[t][k].from # 0 => past[t][j].from < past[t][k].from

(* The past of the threads tells the whole trace. *)
InPast(i) == \E k \in 1..Last(trace[i].by) : past[trace[i].by][k].from = i

PastSound ==
  /\ past \in [Threads -> Seq(States)]
  /\ \A t \in Threads :
       /\ past[t] # <<>> /\ past[t][1] = State(FreshResearch[t], 0)
       /\ Chained(t) /\ InOrder(t)
       /\ \A k \in 1..Last(t) : past[t][k].from <= Len(trace)
  /\ \A i \in DOMAIN trace : InPast(i)

(* Where the threads are in it. *)
CurrentAt(t) ==
  IF asked[t] = NoCall THEN work[t] = Final(t)
  ELSE /\ work[t] = Charge(Final(t)) /\ Asking(Final(t)) /\ MayAsk(t, Final(t))
       /\ asked[t].call = CallAt(t, Final(t))

(* A branch whose search was refused leaves nothing to the retries. *)
SearchRefused(e) == e.by \in Branches /\ Searched(e.call) /\ e.answer \in Refusals

RefusalKnown ==
  (\E i \in DOMAIN trace : SearchRefused(trace[i])) \/ \E t \in Threads : SearchRefused(asked[t])

Raised(threads) == \E t \in threads : work[t].at = "raised"
Tells(threads, refusal) == \E t \in threads : work[t].at = "raised" /\ work[t].error = refusal
Useless ==
  /\ \A b \in Branches : work[b].at = "done"
  /\ Output = {} /\ \E b \in Branches : work[b].refused

ScheduledOf(n) == {retry_queue[i] : i \in DOMAIN retry_queue \cap 1..n}

Engined ==
  /\ RefusalKnown => scope.search = max_search_requests /\ run.active = {}
  /\ ~ run.joined =>
       /\ run.active = {} /\ \A t \in Tasks : Last(t) = 1
       /\ run.phase # "completed"
       /\ run.phase = "budget_exceeded" /\ Raised(Branches) => Tells(Branches, run.detail)
  /\ run.joined =>
       /\ ~ Raised(Branches) /\ ~ Useless
       /\ run.active \subseteq ScheduledOf(max_search_requests \div 2)
       /\ \A t \in run.active : work[t].at # "off"
       /\ run.phase \in {"completed", "budget_exceeded"} =>
            IF Raised(run.active)
            THEN run.phase = "budget_exceeded" /\ Tells(run.active, run.detail)
            ELSE run.phase = "completed" /\ run.detail = "none"

LiveSound ==
  mode = "live" /\ ~ seenAs.hidden =>
    PastSound /\ (\A t \in Threads : CurrentAt(t)) /\ Engined

---------------------------------------------------------------------------
(* A thread's past grows by a state that follows from its last. *)

LEMMA StateParts == \A w, i : State(w, i).work = w /\ State(w, i).from = i
BY DEF State

LEMMA StateTyped ==
  /\ \A w \in WorkStates, i \in Nat : State(w, i) \in States
  /\ \A s \in States : s.work \in WorkStates /\ s.from \in Nat
BY DEF State, States

(* Nothing is recorded, or the call of the thread that goes on.            *)
Recording(threads, i) ==
  \/ i = 0 /\ trace' = trace
  \/ \E t \in threads : /\ i = Len(trace) + 1 /\ threads = {t}
                        /\ asked[t] \in Traces /\ asked[t].by = t
                        /\ trace' = Append(trace, asked[t])

GoesOn(threads, i) == \A t \in threads : LeadsTo(trace', t, Final(t), i, work'[t])

LEMMA PastGrows ==
  ASSUME PastSound, trace \in Seq(Traces), work' \in [Threads -> WorkStates], mode = "live",
         NEW threads \in SUBSET Threads, NEW i \in Nat,
         Remember(threads, i), Recording(threads, i), GoesOn(threads, i)
  PROVE  /\ PastSound'
         /\ \A t \in threads : Final(t)' = work'[t]
         /\ \A t \in Threads \ threads : past'[t] = past[t]
<1> DEFINE old(t) == Len(past[t])
           n == Len(trace)
<1>1. /\ past' \in [Threads -> Seq(States)]
      /\ \A t \in threads : past'[t] = Append(past[t], State(work'[t], i))
      /\ \A t \in Threads \ threads : past'[t] = past[t]
  <2>1. ASSUME NEW t \in Threads
        PROVE  past[t] \in Seq(States) /\ State(work'[t], i) \in States
    BY StateTyped DEF PastSound
  <2>2. past' = [t \in Threads |->
          IF t \in threads THEN Append(past[t], State(work'[t], i)) ELSE past[t]]
    BY DEF Remember
  <2> QED
    BY <2>1, <2>2
<1>2. ASSUME NEW t \in Threads
      PROVE  /\ past[t] \in Seq(States) /\ old(t) \in Nat /\ old(t) >= 1
             /\ \A k \in 1..old(t) : past[t][k] \in States /\ past[t][k].from \in Nat
  <2>1. past[t] \in Seq(States) /\ past[t] # <<>>
    BY DEF PastSound
  <2>2. old(t) \in Nat /\ old(t) # 0 /\ \A k \in 1..old(t) : past[t][k] \in States
    BY <2>1, EmptySeq
  <2> QED
    BY <2>1, <2>2, StateTyped
<1>3. ASSUME NEW t \in threads
      PROVE  /\ Last(t)' = old(t) + 1
             /\ past'[t][old(t) + 1] = State(work'[t], i)
             /\ \A k \in 1..old(t) : past'[t][k] = past[t][k]
  <2>1. t \in Threads /\ past'[t] = Append(past[t], State(work'[t], i))
    BY <1>1
  <2>2. past[t] \in Seq(States)
    BY <1>2, <2>1
  <2> QED
    BY <2>1, <2>2 DEF Last
<1>4. /\ n \in Nat /\ DOMAIN trace = 1..n
      /\ Len(trace') \in Nat /\ DOMAIN trace' = 1..Len(trace') /\ n <= Len(trace')
      /\ i <= Len(trace') /\ (i # 0 => i = n + 1)
      /\ \A j \in 1..n : trace'[j] = trace[j]
  <2>1. CASE i = 0 /\ trace' = trace
    BY <2>1
  <2>2. ASSUME NEW t \in threads, i = Len(trace) + 1, asked[t] \in Traces,
               trace' = Append(trace, asked[t])
        PROVE  /\ Len(trace') = n + 1 /\ DOMAIN trace' = 1..(n + 1)
               /\ \A j \in 1..n : trace'[j] = trace[j]
    BY <2>2
  <2> QED
    BY <2>1, <2>2 DEF Recording
<1> HIDE DEF old
<1>5. \A t \in Threads : past'[t] # <<>> /\ past'[t][1] = State(FreshResearch[t], 0)
  <2> SUFFICES ASSUME NEW t \in Threads
               PROVE  past'[t] # <<>> /\ past'[t][1] = State(FreshResearch[t], 0)
    OBVIOUS
  <2>1. past[t] # <<>> /\ past[t][1] = State(FreshResearch[t], 0)
    BY DEF PastSound
  <2>2. CASE t \in threads
    <3>1. 1 \in 1..old(t)
      BY <1>2
    <3>2. past'[t][1] = past[t][1] /\ Len(past'[t]) # 0
      BY <1>2, <1>3, <2>2, <3>1 DEF Last
    <3> QED
      BY <2>1, <3>2
  <2> QED
    BY <1>1, <2>1, <2>2
<1>6. ASSUME NEW t \in Threads
      PROVE  Chained(t)'
  <2>1. ASSUME NEW w, NEW j, NEW v, LeadsTo(trace, t, w, j, v)
        PROVE  LeadsTo(trace', t, w, j, v)
    <3>1. ByAnswer(trace, t, w, j, v) => ByAnswer(trace', t, w, j, v)
      <4>1. \A m \in DOMAIN trace : m \in DOMAIN trace' /\ trace'[m] = trace[m]
        BY <1>4
      <4> QED
        BY <4>1 DEF ByAnswer
    <3> QED
      BY <2>1, <3>1 DEF LeadsTo
  <2>2. \A k \in 1..(old(t) - 1) :
          LeadsTo(trace', t, past[t][k].work, past[t][k + 1].from, past[t][k + 1].work)
    BY <2>1 DEF PastSound, Chained, Last, old
  <2>3. CASE t \in threads
    <3>1. ASSUME NEW k \in 1..(old(t) - 1)
          PROVE  past'[t][k] = past[t][k] /\ past'[t][k + 1] = past[t][k + 1]
      BY <1>2, <1>3, <2>3
    <3>2. past'[t][old(t)].work = Final(t)
      <4>1. old(t) \in 1..old(t)
        BY <1>2
      <4>2. past'[t][old(t)] = past[t][old(t)]
        BY <1>3, <2>3, <4>1
      <4> QED
        BY <4>2 DEF Final, Last, old
    <3>3. past'[t][old(t) + 1].work = work'[t] /\ past'[t][old(t) + 1].from = i
      BY <1>3, <2>3, StateParts
    <3>4. LeadsTo(trace', t, past'[t][old(t)].work, past'[t][old(t) + 1].from,
                  past'[t][old(t) + 1].work)
      BY <2>3, <3>2, <3>3 DEF GoesOn
    <3>5. \A k \in 1..old(t) :
            LeadsTo(trace', t, past'[t][k].work, past'[t][k + 1].from, past'[t][k + 1].work)
      <4> SUFFICES ASSUME NEW k \in 1..old(t)
                   PROVE  LeadsTo(trace', t, past'[t][k].work, past'[t][k + 1].from,
                                  past'[t][k + 1].work)
        OBVIOUS
      <4>1. k = old(t) \/ k \in 1..(old(t) - 1)
        BY <1>2
      <4> QED
        BY <2>2, <3>1, <3>4, <4>1
    <3>6. Last(t)' - 1 = old(t)
      BY <1>2, <1>3, <2>3
    <3> QED
      BY <3>5, <3>6 DEF Chained
  <2>4. CASE t \notin threads
    <3>1. past'[t] = past[t] /\ Last(t)' = old(t)
      BY <1>1, <2>4 DEF Last, old
    <3> QED
      BY <2>2, <3>1 DEF Chained
  <2> QED
    BY <2>3, <2>4
<1>7. ASSUME NEW t \in Threads
      PROVE  InOrder(t)'
  <2>1. /\ InOrder(t) /\ \A k \in 1..old(t) : past[t][k].from <= n
    BY DEF PastSound, Last, old
  <2>2. CASE t \in threads
    <3> SUFFICES ASSUME NEW j \in 1..(old(t) + 1), NEW k \in 1..(old(t) + 1), j < k,
                        past'[t][k].from # 0
                 PROVE  past'[t][j].from < past'[t][k].from
      BY <1>3, <2>2 DEF InOrder
    <3>1. j \in 1..old(t) /\ past'[t][j] = past[t][j] /\ past[t][j].from \in Nat
      BY <1>2, <1>3, <2>2
    <3>2. CASE k = old(t) + 1
      <4>1. past'[t][k].from = i
        BY <1>3, <2>2, <3>2, StateParts
      <4>2. past[t][j].from <= n
        BY <2>1, <3>1
      <4> QED
        BY <1>4, <3>1, <4>1, <4>2
    <3>3. CASE k # old(t) + 1
      <4>1. k \in 1..old(t) /\ past'[t][k] = past[t][k]
        BY <1>2, <1>3, <2>2, <3>3
      <4> QED
        BY <2>1, <3>1, <4>1 DEF InOrder, Last, old
    <3> QED
      BY <3>2, <3>3
  <2>3. CASE t \notin threads
    BY <1>1, <2>1, <2>3 DEF InOrder, Last
  <2> QED
    BY <2>2, <2>3
<1>8. ASSUME NEW t \in Threads, NEW k \in 1..Last(t)'
      PROVE  past'[t][k].from <= Len(trace')
  <2>1. \A m \in 1..old(t) : past[t][m].from <= Len(trace') /\ past[t][m].from \in Nat
    <3> SUFFICES ASSUME NEW m \in 1..old(t)
                 PROVE  past[t][m].from <= Len(trace') /\ past[t][m].from \in Nat
      OBVIOUS
    <3>1. past[t][m].from <= n /\ past[t][m].from \in Nat
      BY <1>2 DEF PastSound, Last, old
    <3> QED
      BY <1>4, <3>1
  <2>2. CASE t \in threads
    <3>1. k \in 1..old(t) \/ k = old(t) + 1
      BY <1>2, <1>3, <1>8, <2>2
    <3>2. k = old(t) + 1 => past'[t][k].from = i
      BY <1>3, <2>2, StateParts
    <3> QED
      BY <1>3, <1>4, <2>1, <2>2, <3>1, <3>2
  <2>3. CASE t \notin threads
    BY <1>1, <1>8, <2>1, <2>3 DEF Last, old
  <2> QED
    BY <2>2, <2>3
<1>9. ASSUME NEW j \in DOMAIN trace'
      PROVE  InPast(j)'
  <2>1. CASE j \in 1..n
    <3>1. PICK t \in Threads : trace[j].by = t /\ trace'[j].by = t
      <4>1. trace[j] \in Traces
        BY <1>4, <2>1
      <4> QED
        BY <1>4, <2>1, <4>1 DEF Traces
    <3>2. PICK k \in 1..old(t) : past[t][k].from = j
      BY <1>4, <2>1, <3>1 DEF PastSound, InPast, Last, old
    <3>3. past'[t][k].from = j /\ k \in 1..Last(t)'
      <4>1. CASE t \in threads
        BY <1>2, <1>3, <3>1, <3>2, <4>1
      <4>2. CASE t \notin threads
        BY <1>1, <3>1, <3>2, <4>2 DEF Last, old
      <4> QED
        BY <4>1, <4>2
    <3> QED
      BY <3>1, <3>3 DEF InPast
  <2>2. CASE j \notin 1..n
    <3>1. PICK t \in threads : i = n + 1 /\ asked[t].by = t /\ trace' = Append(trace, asked[t])
      <4>1. trace' # trace
        BY <1>4, <1>9, <2>2
      <4> QED
        BY <4>1 DEF Recording
    <3>2. j = i /\ trace'[j] = asked[t]
      BY <1>4, <1>9, <2>2, <3>1
    <3>3. past'[t][old(t) + 1].from = j /\ old(t) + 1 \in 1..Last(t)'
      BY <1>2, <1>3, <3>2, StateParts
    <3>4. trace'[j].by = t
      BY <3>1, <3>2
    <3> QED
      BY <3>3, <3>4 DEF InPast
  <2> QED
    BY <2>1, <2>2
<1>10. \A t \in threads : Final(t)' = work'[t]
  BY <1>3, StateParts DEF Final
<1> QED
  BY <1>1, <1>5, <1>6, <1>7, <1>8, <1>9, <1>10 DEF PastSound

---------------------------------------------------------------------------
(* The recorded run. *)

LEMMA SamePast ==
  ASSUME UNCHANGED <<past, trace>>
  PROVE  /\ PastSound => PastSound'
         /\ \A t \in Threads : Last(t)' = Last(t) /\ Final(t)' = Final(t)
BY DEF PastSound, Chained, InOrder, InPast, Last, Final

LEMMA ThreadEngined ==
  ASSUME Base, Engined, NEW t \in Threads, Asks(t),
         NEW v, v.at # "off", work' = [work EXCEPT ![t] = v], run' = run,
         RefusalKnown' => scope'.search = max_search_requests /\ run.active = {},
         \A u \in Threads \ {t} : past'[u] = past[u]
  PROVE  Engined'
<1>1. Typed /\ Phased
  BY DEF Base
<1>2. /\ work'[t] = v /\ \A u \in Threads \ {t} : work'[u] = work[u]
  BY <1>1 DEF Typed, WorkTyped
<1>3. Tasks \subseteq Threads /\ Branches \subseteq Threads /\ (t \in Branches => t \notin Tasks)
  BY QuestionTypes DEF Threads
<1>4. CASE run.phase = "research" /\ t \in Branches
  <2>1. ~ run.joined
    BY <1>1, <1>4 DEF Phased
  <2>2. \A u \in Tasks : Last(u)' = Last(u)
    BY <1>3, <1>4 DEF Last
  <2> QED
    BY <1>4, <2>1, <2>2 DEF Engined
<1>5. CASE run.phase = "retry" /\ t \in Tasks /\ t \in run.active
  <2>1. run.joined /\ \A b \in Branches : work'[b] = work[b]
    BY <1>1, <1>2, <1>3, <1>5 DEF Phased
  <2>2. Output' = Output
    BY <2>1 DEF Output
  <2>3. ~ Raised(Branches)' /\ ~ Useless'
    BY <2>1, <2>2 DEF Engined, Raised, Useless
  <2>4. \A u \in run.active : work'[u].at # "off"
    <3> SUFFICES ASSUME NEW u \in run.active PROVE work'[u].at # "off"
      OBVIOUS
    <3>1. u \in Threads
      BY <1>1, <1>3 DEF Typed, RunStates
    <3> QED
      BY <1>2, <2>1, <3>1 DEF Engined
  <2> QED
    BY <1>5, <2>1, <2>3, <2>4 DEF Engined
<1> QED
  BY <1>1, <1>4, <1>5, AskingPhase

LEMMA AskLive ==
  ASSUME Base, LiveSound, NEW t \in Threads, Ask(t)
  PROVE  LiveSound'
<1> DEFINE w == ChargedWork(t)
<1>1. /\ Asks(t) /\ asked[t] = NoCall /\ MayCall(t, mode = "bare")
      /\ work' = [work EXCEPT ![t] = w] /\ w.at = work[t].at
      /\ UNCHANGED <<run, mode, trace>>
  BY AskStep
<1>2. past' = past
  BY DEF Ask
<1>3. PICK n \in RequestsOf(t), got \in Answers(t) \cup Refusals :
        /\ got \in Refusals <=> ~ Fits(Lane(t), n)
        /\ scope' = Taken(ChargedScope(t, mode = "bare"), Lane(t), n, got)
        /\ asked' = [asked EXCEPT ![t] =
             [call |-> CallOf(t), by |-> t, sequence |-> 0, answer |-> got]]
        /\ seenAs' = [seenAs EXCEPT !.repeated = @ \/ (t \in Tasks /\ n > 1)]
  BY AskStep
<1>4. Typed /\ work[t] \in WorkStates /\ HasItsCall(t, work[t])
  BY DEF Base, Typed, WorkTyped
<1>5. seenAs'.hidden = seenAs.hidden
  BY <1>3, <1>4 DEF Typed, Observed
<1> SUFFICES ASSUME mode = "live", ~ seenAs.hidden
             PROVE  PastSound' /\ (\A u \in Threads : CurrentAt(u)') /\ Engined'
  BY <1>1, <1>5 DEF LiveSound
<1>6. PastSound /\ (\A u \in Threads : CurrentAt(u)) /\ Engined
  BY DEF LiveSound
<1>7. PastSound' /\ \A u \in Threads : Final(u)' = Final(u)
  BY <1>1, <1>2, <1>6, SamePast
<1>8. /\ work'[t] = w /\ \A u \in Threads \ {t} : work'[u] = work[u] /\ asked'[u] = asked[u]
      /\ asked'[t].call = CallOf(t) /\ asked'[t].by = t
      /\ asked'[t].answer = got
  BY <1>1, <1>3, <1>4 DEF Typed, WorkTyped
<1>9. CurrentAt(t)'
  <2>1. work[t] = Final(t)
    BY <1>1, <1>6 DEF CurrentAt
  <2>2. w = Charge(work[t])
    BY DEF ChargedWork, Charge, Charged
  <2>3. Asking(work[t]) /\ MayAsk(t, work[t])
    BY <1>1 DEF Asking, Asks, Ended, MayAsk, MayCall, Charged
  <2>4. asked'[t] # NoCall
    <3>1. CallOf(t)[1] # "none"
      BY <1>1, <1>4, CallTyped DEF Calls
    <3>2. NoCall.call[1] = "none"
      BY DEF NoCall, Call
    <3> QED
      BY <1>8, <3>1, <3>2
  <2> HIDE DEF w
  <2> QED
    BY <1>7, <1>8, <2>1, <2>2, <2>3, <2>4 DEF CurrentAt, CallOf
<1>10. \A u \in Threads \ {t} : CurrentAt(u)'
  BY <1>6, <1>7, <1>8 DEF CurrentAt
<1>11. ASSUME RefusalKnown'
       PROVE  scope'.search = max_search_requests /\ run.active = {}
  <2>1. n \in Nat
    BY <1>1, <1>4, LaneSound
  <2>2. /\ Lane(t) # "search" => scope'.search = scope.search
        /\ Lane(t) = "search" /\ Fits(Lane(t), n) => scope'.search = scope.search + n
        /\ Lane(t) = "search" /\ ~ Fits(Lane(t), n) => scope'.search = max_search_requests
        /\ scope'.search \in 0..max_search_requests /\ scope.search \in 0..max_search_requests
    <3>1. (mode = "bare") \in BOOLEAN
      OBVIOUS
    <3>2. scope' \in Scopes /\ scope \in Scopes
      BY <1>1, <1>3, <1>4, <2>1, <3>1, CallPaid DEF Typed
    <3>3. /\ Lane(t) # "search" => scope'.search = scope.search
          /\ Lane(t) = "search" /\ Fits(Lane(t), n) => scope'.search = scope.search + n
          /\ Lane(t) = "search" /\ ~ Fits(Lane(t), n) => scope'.search = max_search_requests
      BY <1>1, <1>3, <1>4, <2>1, <3>1, CallPaid DEF Typed
    <3> QED
      BY <3>2, <3>3 DEF Scopes
  <2>3. CASE RefusalKnown
    BY <1>6, <2>1, <2>2, <2>3, AllowancesNat DEF Engined
  <2>4. CASE ~ RefusalKnown
    <3>1. SearchRefused(asked'[t])
      BY <1>1, <1>8, <1>11, <2>4 DEF RefusalKnown
    <3>2. t \in Branches /\ Searched(CallOf(t)) /\ asked'[t].answer \in Refusals
      BY <1>8, <3>1 DEF SearchRefused
    <3>3. Lane(t) = "search"
      <4>1. work[t].at \in {"search", "widen"}
        BY <1>1, <1>4, <3>2, CallTyped DEF Searched
      <4> QED
        BY <1>1, <1>4, <4>1, LaneSound
    <3>4. ~ Fits(Lane(t), n)
      BY <1>3, <1>8, <3>2
    <3>5. run.active = {}
      <4>1. t \notin Tasks /\ Phased
        BY <3>2, QuestionTypes DEF Base
      <4>2. ~ run.joined
        BY <1>1, <1>4, <4>1, AskingPhase DEF Phased
      <4> QED
        BY <1>6, <4>2 DEF Engined
    <3> QED
      BY <2>2, <3>3, <3>4, <3>5
  <2> QED
    BY <2>3, <2>4
<1>12. w.at # "off"
  BY <1>1 DEF Asks
<1> HIDE DEF w
<1>13. Engined'
  BY <1>1, <1>2, <1>6, <1>11, <1>12, ThreadEngined
<1> QED
  BY <1>7, <1>9, <1>10, <1>13

LEMMA NumberLive ==
  ASSUME Base, LiveSound, NEW t \in Threads, Number(t)
  PROVE  LiveSound'
<1>1. /\ asked[t] # NoCall
      /\ UNCHANGED <<work, scope, run, mode, trace, past>>
      /\ Note("overlap", \E u \in Threads : asked[u].sequence > 0)
  BY DEF Number, research
<1>2. seenAs'.hidden = seenAs.hidden
  BY <1>1 DEF Base, Typed, Observed, Note
<1> SUFFICES ASSUME mode = "live", ~ seenAs.hidden
             PROVE  PastSound' /\ (\A u \in Threads : CurrentAt(u)') /\ Engined'
  BY <1>1, <1>2 DEF LiveSound
<1>3. PastSound /\ (\A u \in Threads : CurrentAt(u)) /\ Engined
  BY DEF LiveSound
<1>4. PastSound' /\ \A u \in Threads : Final(u)' = Final(u) /\ Last(u)' = Last(u)
  BY <1>1, <1>3, SamePast
<1>5. /\ asked'[t].call = asked[t].call /\ asked'[t].by = asked[t].by
      /\ asked'[t].answer = asked[t].answer
      /\ \A u \in Threads \ {t} : asked'[u] = asked[u]
  BY NumberStep
<1>6. \A u \in Threads : SearchRefused(asked[u])' <=> SearchRefused(asked[u])
  BY <1>5 DEF SearchRefused
<1>7. asked'[t] # NoCall
  BY <1>5, NumberStep, NoCallUnnumbered
<1>8. \A u \in Threads : CurrentAt(u)'
  BY <1>1, <1>3, <1>4, <1>5, <1>7 DEF CurrentAt
<1>9. RefusalKnown' => RefusalKnown
  BY <1>1, <1>6 DEF RefusalKnown
<1>10. Engined'
  <2>1. Output' = Output
    BY <1>1 DEF Output
  <2>2. Useless' = Useless
    BY <1>1, <2>1 DEF Useless
  <2>3. \A u \in Tasks : Last(u)' = Last(u)
    BY <1>4 DEF Threads
  <2> QED
    BY <1>1, <1>3, <1>9, <2>2, <2>3 DEF Engined, Raised, Tells
<1> QED
  BY <1>4, <1>8, <1>10

(* What a thread was told is what is recorded, unless a refusal is hidden. *)
LEMMA UseLive ==
  ASSUME Base, LiveSound, NEW t \in Threads, Use(t)
  PROVE  LiveSound'
<1> DEFINE v == AfterAnswer(t, work[t], Told(t))
<1>1. /\ Asks(t) /\ asked[t] # NoCall /\ asked[t] \in Traces /\ asked[t].by = t
      /\ AnswerUsed(t, work[t], Told(t), v)
      /\ work' = [work EXCEPT ![t] = v]
      /\ trace' = IF mode = "live" THEN Append(trace, asked[t]) ELSE trace
      /\ asked' = [asked EXCEPT ![t] = NoCall]
      /\ Note("hidden", Hidden(t)) /\ UNCHANGED <<scope, run, mode>>
  BY UseStep
<1>2. Remember({t}, Len(trace) + 1)
  BY DEF Use
<1>3. Typed /\ Base'
  BY UseBase DEF Base
<1>4. seenAs'.hidden <=> seenAs.hidden \/ Hidden(t)
  <2>1. Hidden(t) \in BOOLEAN
    BY DEF Hidden
  <2> QED
    BY <1>1, <1>3, <2>1 DEF Typed, Observed, Note
<1> SUFFICES ASSUME mode = "live", ~ seenAs.hidden, ~ Hidden(t)
             PROVE  PastSound' /\ (\A u \in Threads : CurrentAt(u)') /\ Engined'
  BY <1>1, <1>4 DEF LiveSound
<1>5. PastSound /\ (\A u \in Threads : CurrentAt(u)) /\ Engined
  BY DEF LiveSound
<1>6. /\ trace \in Seq(Traces) /\ Len(trace) \in Nat /\ trace' = Append(trace, asked[t])
      /\ work' \in [Threads -> WorkStates]
      /\ work'[t] = v /\ \A u \in Threads \ {t} : work'[u] = work[u]
      /\ asked'[t] = NoCall /\ \A u \in Threads \ {t} : asked'[u] = asked[u]
  BY <1>1, <1>3 DEF Base, Typed, WorkTyped
<1>7. /\ work[t] = Charge(Final(t)) /\ Asking(Final(t)) /\ MayAsk(t, Final(t))
      /\ asked[t].call = CallAt(t, Final(t)) /\ Told(t) = asked[t].answer
  BY <1>1, <1>5 DEF CurrentAt, Told
<1> HIDE DEF v
<1>8. GoesOn({t}, Len(trace) + 1)
  <2>1. Len(trace) + 1 \in DOMAIN trace' /\ trace'[Len(trace) + 1] = asked[t]
    BY <1>6
  <2>2. v = AfterAnswer(t, Charge(Final(t)), asked[t].answer)
    BY <1>7 DEF v
  <2>3. ByAnswer(trace', t, Final(t), Len(trace) + 1, v)
    BY <1>1, <1>7, <2>1, <2>2 DEF ByAnswer
  <2> QED
    BY <1>6, <2>3 DEF GoesOn, LeadsTo
<1>9. Recording({t}, Len(trace) + 1)
  BY <1>1, <1>6 DEF Recording
<1>10. /\ PastSound' /\ Final(t)' = v
       /\ \A u \in Threads \ {t} : past'[u] = past[u]
  <2>1. {t} \in SUBSET Threads /\ Len(trace) + 1 \in Nat
    BY <1>6
  <2> QED
    BY <1>2, <1>5, <1>6, <1>8, <1>9, <2>1, PastGrows
<1>11. \A u \in Threads : CurrentAt(u)'
  <2>1. \A u \in Threads \ {t} : Final(u)' = Final(u)
    BY <1>10 DEF Final, Last
  <2>2. \A u \in Threads \ {t} : CurrentAt(u)'
    BY <1>5, <1>6, <2>1 DEF CurrentAt
  <2>3. CurrentAt(t)'
    BY <1>6, <1>10 DEF CurrentAt
  <2> QED
    BY <2>2, <2>3
<1>12. RefusalKnown' => RefusalKnown
  <2>1. ASSUME NEW i \in DOMAIN trace', SearchRefused(trace'[i])
        PROVE  RefusalKnown
    <3>1. (i \in DOMAIN trace /\ trace'[i] = trace[i]) \/ trace'[i] = asked[t]
      BY <1>6, <2>1
    <3> QED
      BY <2>1, <3>1 DEF RefusalKnown
  <2>2. ASSUME NEW u \in Threads, SearchRefused(asked'[u])
        PROVE  RefusalKnown
    <3>1. ~ SearchRefused(NoCall)
      BY DEF SearchRefused, NoCall, Refusals
    <3> QED
      BY <1>6, <2>2, <3>1 DEF RefusalKnown
  <2>3. RefusalKnown' => \/ \E i \in DOMAIN trace' : SearchRefused(trace'[i])
                         \/ \E u \in Threads : SearchRefused(asked'[u])
    BY DEF RefusalKnown, SearchRefused
  <2> QED
    BY <2>1, <2>2, <2>3
<1>13. Engined'
  <2>1. v.at # "off"
    BY <1>1 DEF AnswerUsed
  <2>2. RefusalKnown' => scope'.search = max_search_requests /\ run.active = {}
    BY <1>1, <1>5, <1>12 DEF Engined
  <2> QED
    BY <1>1, <1>5, <1>10, <2>1, <2>2, ThreadEngined
<1> QED
  BY <1>10, <1>11, <1>13

LEMMA BreakLive ==
  ASSUME Base, LiveSound, NEW t \in Threads, Break(t)
  PROVE  LiveSound'
<1> DEFINE v == BreakOff(t, work[t])
<1>1. /\ Asks(t) /\ asked[t] = NoCall /\ ~ MayCall(t, mode = "bare")
      /\ BrokenOff(t, work[t], v) /\ work' = [work EXCEPT ![t] = v]
      /\ UNCHANGED <<scope, run, mode, asked, trace, seenAs>>
  BY BreakStep
<1>2. Remember({t}, 0)
  BY DEF Break
<1>3. Typed /\ Base'
  BY BreakBase DEF Base
<1> SUFFICES ASSUME mode = "live", ~ seenAs.hidden
             PROVE  PastSound' /\ (\A u \in Threads : CurrentAt(u)') /\ Engined'
  BY <1>1 DEF LiveSound
<1>4. PastSound /\ (\A u \in Threads : CurrentAt(u)) /\ Engined
  BY DEF LiveSound
<1>5. /\ trace \in Seq(Traces) /\ work' \in [Threads -> WorkStates]
      /\ work'[t] = v /\ \A u \in Threads \ {t} : work'[u] = work[u]
  BY <1>1, <1>3 DEF Base, Typed, WorkTyped
<1>6. work[t] = Final(t)
  BY <1>1, <1>4 DEF CurrentAt
<1>7. ByBreak(t, Final(t), v)
  BY <1>1, <1>6 DEF ByBreak, Asking, Asks, Ended, MayAsk, MayCall, Charged, QuotaSpent
<1> HIDE DEF v
<1>8. GoesOn({t}, 0) /\ Recording({t}, 0)
  BY <1>1, <1>5, <1>7 DEF GoesOn, LeadsTo, Recording
<1>9. /\ PastSound' /\ Final(t)' = v
      /\ \A u \in Threads \ {t} : past'[u] = past[u]
  BY <1>2, <1>4, <1>5, <1>8, PastGrows
<1>10. \A u \in Threads : CurrentAt(u)'
  <2>1. \A u \in Threads \ {t} : Final(u)' = Final(u)
    BY <1>9 DEF Final, Last
  <2>2. \A u \in Threads \ {t} : CurrentAt(u)'
    BY <1>1, <1>4, <1>5, <2>1 DEF CurrentAt
  <2>3. CurrentAt(t)'
    BY <1>1, <1>5, <1>9 DEF CurrentAt
  <2> QED
    BY <2>2, <2>3
<1>11. RefusalKnown' => scope'.search = max_search_requests /\ run.active = {}
  <2>1. RefusalKnown' => RefusalKnown
    BY <1>1 DEF RefusalKnown, SearchRefused
  <2> QED
    BY <1>1, <1>4, <2>1 DEF Engined
<1>12. v.at # "off"
  BY <1>1 DEF BrokenOff
<1>13. Engined'
  BY <1>1, <1>4, <1>9, <1>11, <1>12, ThreadEngined
<1> QED
  BY <1>9, <1>10, <1>13

LEMMA JoinEnds ==
  ASSUME Base, Join
  PROVE  /\ run.phase = "research" /\ ~ run.joined /\ scope' = scope
         /\ (\A b \in Branches : Ended(b)) /\ (\A t \in Tasks : work[t].at = "off")
         /\ \/ /\ Raised(Branches) /\ work' = work
               /\ \E refusal : /\ Tells(Branches, refusal)
                               /\ run' = [run EXCEPT !.phase = "budget_exceeded", !.detail = refusal]
            \/ /\ ~ Raised(Branches) /\ Useless /\ work' = work
               /\ run' = [run EXCEPT !.phase = "budget_exceeded", !.detail = scope.refusal]
            \/ /\ ~ Raised(Branches) /\ ~ Useless
               /\ run' = [run EXCEPT !.phase = "retry", !.joined = TRUE, !.active = Scheduled]
               /\ work' = [t \in Threads |->
                    IF t \in Scheduled THEN NewWork("search") ELSE work[t]]
<1>1. /\ run.phase = "research" /\ scope' = scope /\ \A b \in Branches : Ended(b)
  BY DEF Join
<1>2. ~ run.joined /\ \A t \in Tasks : work[t].at = "off"
  BY <1>1 DEF Base, Phased
<1>3. CASE Raised(Branches)
  <2>1. RaisedBy(Branches) # {} /\ ~ \A b \in Branches : work[b].at = "done"
    BY <1>3 DEF Raised, RaisedBy
  <2>2. Surfaced(Branches) /\ work' = work
    BY <2>1 DEF Join
  <2>3. PICK b \in RaisedBy(Branches) :
          run' = [run EXCEPT !.phase = "budget_exceeded", !.detail = work[b].error]
    BY <2>2 DEF Surfaced, Finish
  <2>4. Tells(Branches, work[b].error)
    BY <2>3 DEF Tells, RaisedBy
  <2> QED
    BY <1>1, <1>2, <1>3, <2>2, <2>3, <2>4
<1>4. CASE ~ Raised(Branches) /\ Useless
  <2>1. /\ run' = [run EXCEPT !.phase = "budget_exceeded", !.detail = scope.refusal]
        /\ work' = work
    BY <1>4 DEF Join, Finish, Raised, RaisedBy, Useless
  <2> QED
    BY <1>1, <1>2, <1>4, <2>1
<1>5. CASE ~ Raised(Branches) /\ ~ Useless
  <2>1. /\ run' = [run EXCEPT !.phase = "retry", !.joined = TRUE, !.active = Scheduled]
        /\ work' = [t \in Threads |-> IF t \in Scheduled THEN NewWork("search") ELSE work[t]]
    BY <1>5 DEF Join, Raised, RaisedBy, Useless
  <2> QED
    BY <1>1, <1>2, <1>5, <2>1
<1> QED
  BY <1>3, <1>4, <1>5

LEMMA ConcludeEnds ==
  ASSUME Conclude
  PROVE  /\ run.phase = "retry" /\ (\A t \in run.active : Ended(t))
         /\ work' = work /\ scope' = scope
         /\ \/ /\ Raised(run.active)
               /\ \E refusal : /\ Tells(run.active, refusal)
                               /\ run' = [run EXCEPT !.phase = "budget_exceeded", !.detail = refusal]
            \/ /\ ~ Raised(run.active)
               /\ run' = [run EXCEPT !.phase = "completed", !.detail = "none"]
<1>1. CASE RaisedBy(run.active) # {}
  <2>1. PICK t \in RaisedBy(run.active) :
          run' = [run EXCEPT !.phase = "budget_exceeded", !.detail = work[t].error]
    BY <1>1, ConcludeStep
  <2>2. Raised(run.active) /\ Tells(run.active, work[t].error)
    BY <2>1 DEF Raised, Tells, RaisedBy
  <2> QED
    BY <2>1, <2>2, ConcludeStep
<1>2. CASE RaisedBy(run.active) = {}
  <2>1. ~ Raised(run.active)
    BY <1>2 DEF Raised, RaisedBy
  <2> QED
    BY <1>2, <2>1, ConcludeStep
<1> QED
  BY <1>1, <1>2

(* What a run schedules before and after its searches. *)
LEMMA ScheduledSound ==
  ASSUME scope \in Scopes
  PROVE  /\ Scheduled \subseteq Tasks
         /\ Scheduled \subseteq ScheduledOf(max_search_requests \div 2)
         /\ scope.search = max_search_requests => Scheduled = {}
         /\ scope.search = 0 => Scheduled = ScheduledOf(max_search_requests \div 2)
<1>1. max_search_requests \in Nat /\ scope.search \in 0..max_search_requests
  BY AllowancesNat DEF Scopes
<1>2. /\ Capacity \in Nat /\ Capacity <= max_search_requests \div 2
      /\ max_search_requests \div 2 \in Nat
      /\ scope.search = max_search_requests => Capacity = 0
      /\ scope.search = 0 => Capacity = max_search_requests \div 2
  BY <1>1 DEF Capacity
<1>3. Scheduled = ScheduledOf(Capacity)
  BY DEF Scheduled, ScheduledOf
<1>4. ScheduledOf(Capacity) \subseteq ScheduledOf(max_search_requests \div 2)
  <2>1. 1..Capacity \subseteq 1..(max_search_requests \div 2)
    BY <1>2
  <2> QED
    BY <2>1 DEF ScheduledOf
<1>5. ScheduledOf(0) = {}
  <2>1. 1..0 = {}
    OBVIOUS
  <2> QED
    BY <2>1 DEF ScheduledOf
<1>6. Scheduled \subseteq Tasks
  BY DEF Scheduled, Tasks
<1> QED
  BY <1>2, <1>3, <1>4, <1>5, <1>6

LEMMA EngineLive ==
  ASSUME Base, LiveSound, Engine
  PROVE  LiveSound'
<1> DEFINE threads == run'.active \ run.active
<1>1. /\ UNCHANGED <<mode, asked, trace, seenAs>> /\ Remember(threads, 0)
      /\ Join \/ Conclude
  BY DEF Engine
<1>2. Typed /\ Phased /\ Awaited /\ Base'
  BY EngineBase DEF Base
<1> SUFFICES ASSUME mode = "live", ~ seenAs.hidden
             PROVE  PastSound' /\ (\A u \in Threads : CurrentAt(u)') /\ Engined'
  BY <1>1 DEF LiveSound
<1>3. PastSound /\ (\A u \in Threads : CurrentAt(u)) /\ Engined
  BY DEF LiveSound
<1>4. /\ trace \in Seq(Traces) /\ work' \in [Threads -> WorkStates]
      /\ run \in RunStates /\ scope \in Scopes /\ Recording(threads, 0)
      /\ Tasks \subseteq Threads /\ Branches \subseteq Threads
      /\ \A b \in Branches : b \notin Tasks
  BY <1>1, <1>2, QuestionTypes DEF Base, Typed, WorkTyped, Recording, Threads
<1> HIDE DEF threads
<1>5. RefusalKnown' => RefusalKnown
  BY <1>1 DEF RefusalKnown, SearchRefused
<1>6. ASSUME threads \subseteq Threads, GoesOn(threads, 0),
             \A u \in threads : asked[u] = NoCall,
             \A u \in Threads \ threads : work'[u] = work[u]
      PROVE  /\ PastSound' /\ \A u \in Threads : CurrentAt(u)'
             /\ \A u \in Threads \ threads : Last(u)' = Last(u)
  <2>1. /\ PastSound' /\ \A u \in threads : Final(u)' = work'[u]
        /\ \A u \in Threads \ threads : past'[u] = past[u]
    <3>1. threads \in SUBSET Threads /\ 0 \in Nat
      BY <1>6
    <3> QED
      BY <1>1, <1>3, <1>4, <1>6, <3>1, PastGrows
  <2>2. \A u \in Threads \ threads : Last(u)' = Last(u) /\ Final(u)' = Final(u)
    BY <2>1 DEF Last, Final
  <2>3. \A u \in threads : CurrentAt(u)'
    BY <1>1, <1>6, <2>1 DEF CurrentAt
  <2>4. \A u \in Threads \ threads : CurrentAt(u)'
    BY <1>1, <1>3, <1>6, <2>2 DEF CurrentAt
  <2> QED
    BY <2>1, <2>2, <2>3, <2>4
<1>7. ASSUME work' = work, scope' = scope, NEW p, NEW d,
             run' = [run EXCEPT !.phase = p, !.detail = d]
      PROVE  /\ run'.phase = p /\ run'.detail = d /\ run'.active = run.active
             /\ run'.joined = run.joined
             /\ PastSound' /\ (\A u \in Threads : CurrentAt(u)')
             /\ \A u \in Tasks : Last(u)' = Last(u)
             /\ Useless' = Useless /\ Raised(Branches)' = Raised(Branches)
             /\ RefusalKnown' => scope'.search = max_search_requests /\ run'.active = {}
  <2>1. /\ run'.phase = p /\ run'.detail = d /\ run'.active = run.active
        /\ run'.joined = run.joined
    BY <1>4, <1>7 DEF RunStates
  <2>2. threads = {}
    BY <2>1 DEF threads
  <2>3. GoesOn(threads, 0)
    BY <2>2 DEF GoesOn
  <2>4. Useless' = Useless /\ Raised(Branches)' = Raised(Branches)
    BY <1>7 DEF Useless, Output, Raised
  <2>5. RefusalKnown' => scope'.search = max_search_requests /\ run'.active = {}
    BY <1>3, <1>5, <1>7, <2>1 DEF Engined
  <2>6. /\ PastSound' /\ (\A u \in Threads : CurrentAt(u)')
        /\ \A u \in Tasks : Last(u)' = Last(u)
    BY <1>4, <1>6, <1>7, <2>2, <2>3
  <2> QED
    BY <2>1, <2>4, <2>5, <2>6
<1>8. CASE Join
  <2>1. /\ run.phase = "research" /\ ~ run.joined /\ scope' = scope
        /\ (\A b \in Branches : Ended(b)) /\ (\A t \in Tasks : work[t].at = "off")
    BY <1>8, JoinEnds
  <2>2. run.active = {} /\ \A t \in Tasks : Last(t) = 1
    BY <1>3, <2>1 DEF Engined
  <2>3. ASSUME Raised(Branches), work' = work, NEW refusal, Tells(Branches, refusal),
               run' = [run EXCEPT !.phase = "budget_exceeded", !.detail = refusal]
        PROVE  PastSound' /\ (\A u \in Threads : CurrentAt(u)') /\ Engined'
    <3>1. /\ run'.phase # "completed" /\ run'.detail = refusal
          /\ run'.active = {} /\ ~ run'.joined
          /\ \E b \in Branches : work'[b].at = "raised" /\ work'[b].error = run'.detail
      BY <1>4, <2>1, <2>2, <2>3 DEF RunStates, Tells
    <3>2. RefusalKnown' => scope'.search = max_search_requests /\ run'.active = {}
      BY <1>7, <2>1, <2>3
    <3>3. \A u \in Tasks : Last(u)' = 1
      BY <1>7, <2>1, <2>2, <2>3
    <3>4. Engined'
      BY <3>1, <3>2, <3>3 DEF Engined, Tells
    <3> QED
      BY <1>7, <2>1, <2>3, <3>4
  <2>4. CASE /\ ~ Raised(Branches) /\ Useless /\ work' = work
             /\ run' = [run EXCEPT !.phase = "budget_exceeded", !.detail = scope.refusal]
    <3>1. /\ run'.phase # "completed"
          /\ run'.active = {} /\ ~ run'.joined /\ ~ Raised(Branches)'
      BY <1>4, <2>1, <2>2, <2>4 DEF RunStates, Raised
    <3>2. RefusalKnown' => scope'.search = max_search_requests /\ run'.active = {}
      BY <1>7, <2>1, <2>4
    <3>3. \A u \in Tasks : Last(u)' = 1
      BY <1>7, <2>1, <2>2, <2>4
    <3>4. Engined'
      BY <3>1, <3>2, <3>3 DEF Engined
    <3> QED
      BY <1>7, <2>1, <2>4, <3>4
  <2>5. CASE /\ ~ Raised(Branches) /\ ~ Useless
             /\ run' = [run EXCEPT !.phase = "retry", !.joined = TRUE, !.active = Scheduled]
             /\ work' = [t \in Threads |->
                  IF t \in Scheduled THEN NewWork("search") ELSE work[t]]
    <3>1. /\ run'.phase = "retry" /\ run'.joined = TRUE /\ run'.active = Scheduled
      BY <1>4, <2>5 DEF RunStates
    <3>2. threads = Scheduled /\ Scheduled \subseteq Tasks
      BY <1>4, <2>2, <3>1, ScheduledSound DEF threads
    <3>3. /\ \A u \in Scheduled : work'[u] = NewWork("search")
          /\ \A u \in Threads \ Scheduled : work'[u] = work[u]
      BY <1>4, <2>5, <3>2
    <3>4. ASSUME NEW u \in Scheduled
          PROVE  asked[u] = NoCall /\ LeadsTo(trace', u, Final(u), 0, work'[u])
      <4>1. u \in Tasks /\ u \in Threads /\ work[u].at = "off"
        BY <1>4, <2>1, <3>2
      <4>2. asked[u] = NoCall
        BY <1>2, <4>1 DEF Awaited, AwaitedAt, Asks
      <4>3. work[u] = Final(u)
        BY <1>3, <4>1, <4>2 DEF CurrentAt
      <4> QED
        BY <3>3, <4>1, <4>2, <4>3 DEF LeadsTo, ByStart
    <3>5. PastSound' /\ \A u \in Threads : CurrentAt(u)'
      <4>1. threads \subseteq Threads /\ GoesOn(threads, 0)
        BY <1>4, <3>2, <3>4 DEF GoesOn
      <4> QED
        BY <1>6, <3>2, <3>3, <3>4, <4>1
    <3>6. \A b \in Branches : work'[b] = work[b]
      BY <1>4, <3>2, <3>3
    <3>7. ~ Raised(Branches)' /\ ~ Useless'
      <4>1. Output' = Output
        BY <3>6 DEF Output
      <4> QED
        BY <2>5, <3>6, <4>1 DEF Raised, Useless
    <3>8. RefusalKnown' => scope'.search = max_search_requests /\ run'.active = {}
      BY <1>3, <1>4, <1>5, <2>1, <3>1, ScheduledSound DEF Engined
    <3>9. \A u \in run'.active : work'[u].at # "off"
      BY <3>1, <3>3 DEF NewWork
    <3>10. run'.active \subseteq ScheduledOf(max_search_requests \div 2)
      BY <1>4, <3>1, ScheduledSound
    <3>11. Engined'
      BY <3>1, <3>7, <3>8, <3>9, <3>10 DEF Engined
    <3> QED
      BY <3>5, <3>11
  <2> QED
    BY <1>8, <2>3, <2>4, <2>5, JoinEnds
<1>9. CASE Conclude
  <2>1. /\ run.phase = "retry" /\ work' = work /\ scope' = scope
        /\ \/ /\ Raised(run.active)
              /\ \E refusal : /\ Tells(run.active, refusal)
                              /\ run' = [run EXCEPT !.phase = "budget_exceeded", !.detail = refusal]
           \/ /\ ~ Raised(run.active)
              /\ run' = [run EXCEPT !.phase = "completed", !.detail = "none"]
    BY <1>9, ConcludeEnds
  <2>2. run.joined
    BY <1>2, <2>1 DEF Phased
  <2>3. /\ run.active \subseteq ScheduledOf(max_search_requests \div 2)
        /\ ~ Raised(Branches) /\ ~ Useless /\ \A u \in run.active : work'[u].at # "off"
    BY <1>3, <2>1, <2>2 DEF Engined
  <2>4. ASSUME NEW p, NEW d, run' = [run EXCEPT !.phase = p, !.detail = d],
               IF Raised(run.active) THEN p = "budget_exceeded" /\ Tells(run.active, d)
               ELSE p = "completed" /\ d = "none"
        PROVE  PastSound' /\ (\A u \in Threads : CurrentAt(u)') /\ Engined'
    <3>1. /\ run'.phase = p /\ run'.detail = d /\ run'.active = run.active
          /\ run'.joined = run.joined
      BY <1>7, <2>1, <2>4
    <3>2. /\ Raised(run.active)' <=> Raised(run.active)
          /\ Tells(run.active, d) =>
               \E u \in run'.active : work'[u].at = "raised" /\ work'[u].error = run'.detail
      BY <2>1, <3>1 DEF Raised, Tells
    <3>3. ~ Raised(Branches)' /\ ~ Useless'
      BY <1>7, <2>1, <2>3, <2>4
    <3>4. RefusalKnown' => scope'.search = max_search_requests /\ run'.active = {}
      BY <1>7, <2>1, <2>4
    <3>5. Engined'
      BY <2>2, <2>3, <2>4, <3>1, <3>2, <3>3, <3>4 DEF Engined, Tells
    <3> QED
      BY <1>7, <2>1, <2>4, <3>5
  <2> QED
    BY <2>1, <2>4
<1> QED
  BY <1>1, <1>8, <1>9

---------------------------------------------------------------------------
(* What a recorded run leaves, and where its replay is in it. *)

FinalRaised(threads) == \E t \in threads : Final(t).at = "raised"

FinallyUseless ==
  /\ \A b \in Branches : Final(b).at = "done"
  /\ UNION {Final(b).seen : b \in Branches} = {} /\ \E b \in Branches : Final(b).refused

(* The outcome of a run that joined its branches, or concluded its tasks,  *)
(* or neither.                                                             *)
Ending(phase, detail, branches, tasks, requests) ==
  [phase |-> phase, detail |-> detail, joined |-> branches, deferred |-> FALSE,
   report |-> [t \in Threads |->
     IF (t \in Branches /\ branches) \/ (t \in Tasks /\ tasks) THEN Final(t).seen ELSE {}],
   requests |-> requests]

(* Whatever raised, raised the refusal that ended the run. *)
OneRefusal == \A t \in Threads : Final(t).at = "raised" => Final(t).error = kept.detail

RaisedEnd ==
  /\ FinalRaised(Branches) /\ OneRefusal /\ \A t \in Tasks : Last(t) = 1
  /\ kept = Ending("budget_exceeded", kept.detail, FALSE, FALSE, kept.requests)

RefusalRecorded == \E i \in DOMAIN trace : SearchRefused(trace[i])

JoinedEnd ==
  /\ ~ FinalRaised(Branches) /\ ~ FinallyUseless /\ OneRefusal
  /\ \A t \in Tasks : Final(t).at # "off"
  /\ RefusalRecorded => Tasks = {}
  /\ Tasks \subseteq ScheduledOf(max_search_requests \div 2)
  /\ kept = IF FinalRaised(Tasks)
            THEN Ending("budget_exceeded", kept.detail, TRUE, FALSE, kept.requests)
            ELSE Ending("completed", "none", TRUE, TRUE, kept.requests)

KeptSound ==
  /\ PastSound /\ \A t \in Threads : ~ Asking(Final(t))
  /\ RaisedEnd \/ JoinedEnd
  /\ finance_pack => kept.requests = <<>>

LeftBy(t) == {i \in left : trace[i].by = t}
Rest(t, p) == {past[t][k].from : k \in (p + 1)..Last(t)} \ {0}

(* The replay of a thread is where its recording was, with the calls left  *)
(* that were recorded from there on.                                       *)
AtState(t, p) == work[t] = past[t][p].work /\ LeftBy(t) = Rest(t, p)
Located == \A t \in Threads : \E p \in 1..Last(t) : AtState(t, p)

Replayed ==
  /\ run.phase = "research" => run.active = {} /\ (scope.search # 0 => RefusalRecorded)
  /\ run.phase = "retry" => run.active = Tasks /\ JoinedEnd
  /\ run.phase \in {"completed", "budget_exceeded"} => left = {} /\ SameButRequests

Excepted ==
  \/ seenAs.reordered \/ seenAs.hidden \/ kept.deferred
  \/ seenAs.unraised \/ seenAs.either

ReplaySound == mode = "replay" /\ ~ Excepted => KeptSound /\ Located /\ Replayed

---------------------------------------------------------------------------
(* The rest of a thread's past. *)

LEMMA PastParts ==
  ASSUME PastSound, NEW t \in Threads
  PROVE  /\ Last(t) \in Nat \ {0} /\ Chained(t) /\ InOrder(t)
         /\ past[t][1].work = FreshResearch[t] /\ past[t][1].from = 0
         /\ \A k \in 1..Last(t) : past[t][k].from \in Nat
<1>1. past[t] \in Seq(States) /\ past[t] # <<>> /\ past[t][1] = State(FreshResearch[t], 0)
  BY DEF PastSound
<1>2. Last(t) \in Nat \ {0} /\ \A k \in 1..Last(t) : past[t][k] \in States
  BY <1>1, EmptySeq DEF Last
<1> QED
  BY <1>1, <1>2, StateParts, StateTyped DEF PastSound

LEMMA RestEnd ==
  ASSUME PastSound, NEW t \in Threads
  PROVE  Rest(t, Last(t)) = {}
<1>1. (Last(t) + 1)..Last(t) = {}
  BY PastParts
<1> QED
  BY <1>1 DEF Rest

LEMMA RestNext ==
  ASSUME PastSound, NEW t \in Threads, NEW p \in 1..(Last(t) - 1)
  PROVE  LET i == past[t][p + 1].from
         IN  /\ p + 1 \in 1..Last(t) /\ Rest(t, p + 1) = Rest(t, p) \ {i}
             /\ i # 0 => i \in Rest(t, p) /\ \A j \in Rest(t, p) : i <= j
<1> DEFINE i == past[t][p + 1].from
           n == Last(t)
<1>1. n \in Nat \ {0} /\ InOrder(t) /\ \A k \in 1..n : past[t][k].from \in Nat
  BY PastParts
<1>2. p \in Nat /\ p + 1 \in 1..n /\ p + 1 \in (p + 1)..n
  BY <1>1
<1>3. \A k \in (p + 1)..n : k = p + 1 \/ k \in (p + 2)..n
  BY <1>1, <1>2
<1>4. \A k \in (p + 2)..n : k \in (p + 1)..n /\ k \in 1..n /\ p + 1 < k
  BY <1>1, <1>2
<1>5. ASSUME NEW k \in (p + 2)..n, past[t][k].from # 0
      PROVE  i < past[t][k].from
  BY <1>1, <1>2, <1>4, <1>5 DEF InOrder
<1>6. \A k \in (p + 2)..n : past[t][k].from \in Nat
  BY <1>1, <1>4
<1>7. (p + 1) + 1 = p + 2 /\ i \in Nat
  BY <1>1, <1>2
<1>8. Rest(t, p + 1) = {past[t][k].from : k \in (p + 2)..n} \ {0}
  BY <1>7 DEF Rest
<1>9. Rest(t, p) = ({i} \cup {past[t][k].from : k \in (p + 2)..n}) \ {0}
  <2>1. {past[t][k].from : k \in (p + 1)..n} = {i} \cup {past[t][k].from : k \in (p + 2)..n}
    BY <1>2, <1>3, <1>4
  <2> QED
    BY <2>1 DEF Rest
<1> HIDE DEF i, n
<1>10. \A j \in Rest(t, p + 1) : i < j /\ j \in Nat
  BY <1>5, <1>6, <1>8
<1>11. i \notin Rest(t, p + 1)
  BY <1>7, <1>10
<1>12. Rest(t, p + 1) = Rest(t, p) \ {i}
  BY <1>8, <1>9, <1>11
<1>13. i # 0 => i \in Rest(t, p)
  BY <1>9
<1>14. \A j \in Rest(t, p) : i <= j
  BY <1>7, <1>10, <1>12
<1> QED
  BY <1>2, <1>12, <1>13, <1>14 DEF i, n

LEMMA RestAll ==
  ASSUME PastSound, trace \in Seq(Traces), NEW t \in Threads
  PROVE  Rest(t, 1) = {i \in DOMAIN trace : trace[i].by = t}
<1>1. /\ Last(t) \in Nat \ {0} /\ Chained(t) /\ past[t][1].from = 0
  BY PastParts
<1>2. ASSUME NEW k \in 2..Last(t), past[t][k].from # 0
      PROVE  past[t][k].from \in DOMAIN trace /\ trace[past[t][k].from].by = t
  <2>1. k - 1 \in 1..(Last(t) - 1) /\ (k - 1) + 1 = k
    BY <1>1
  <2>2. LeadsTo(trace, t, past[t][k - 1].work, past[t][k].from, past[t][k].work)
    BY <1>1, <2>1 DEF Chained
  <2> QED
    BY <1>2, <2>2 DEF LeadsTo, ByAnswer
<1>3. ASSUME NEW i \in DOMAIN trace, trace[i].by = t
      PROVE  \E k \in 2..Last(t) : past[t][k].from = i
  <2>1. PICK k \in 1..Last(t) : past[t][k].from = i
    BY <1>3 DEF PastSound, InPast
  <2>2. k # 1
    BY <1>1, <2>1
  <2> QED
    BY <1>1, <2>1, <2>2
<1>4. 0 \notin DOMAIN trace /\ 1 + 1 = 2
  OBVIOUS
<1> QED
  BY <1>2, <1>3, <1>4 DEF Rest

(* A thread that has nothing more to ask is at the end of its past. *)
LEMMA AtEnd ==
  ASSUME PastSound, NEW t \in Threads, NEW p \in 1..Last(t), AtState(t, p),
         work[t].at \in {"done", "raised"}
  PROVE  work[t] = Final(t) /\ LeftBy(t) = {}
<1>1. Last(t) \in Nat /\ Chained(t)
  BY PastParts
<1>2. ASSUME p # Last(t) PROVE FALSE
  <2>1. p \in 1..(Last(t) - 1)
    BY <1>1, <1>2
  <2>2. LeadsTo(trace, t, work[t], past[t][p + 1].from, past[t][p + 1].work)
    BY <1>1, <2>1 DEF Chained, AtState
  <2> QED
    BY <2>2 DEF LeadsTo, ByAnswer, ByBreak, ByStart, Asking
<1> QED
  BY <1>2, RestEnd DEF AtState, Final

---------------------------------------------------------------------------
(* The replay goes where the recording went. *)

LEMMA SameKept ==
  ASSUME UNCHANGED <<past, trace, kept>>
  PROVE  /\ KeptSound => KeptSound'
         /\ JoinedEnd => JoinedEnd'
         /\ RefusalRecorded' = RefusalRecorded
BY SamePast DEF KeptSound, RaisedEnd, JoinedEnd, OneRefusal, RefusalRecorded, SearchRefused,
   Ending, FinalRaised, FinallyUseless, PastSound, Chained, InOrder, InPast, Last, Final

LEMMA ExceptedStays ==
  ASSUME Base, kept' = kept,
         \A field \in {"overlap", "hidden", "repeated", "reordered", "unraised", "either"} :
           seenAs[field] => seenAs'[field],
         ~ Excepted'
  PROVE  ~ Excepted
BY DEF Excepted

(* Without an answer hidden from its branch, a run that ended leaves its   *)
(* outcome in the past of its threads.                                     *)
LEMMA RunKept ==
  ASSUME Base, LiveSound, mode = "live", Over, ~ seenAs.hidden, ~ Unraised, ~ Either,
         ~ Outcome.deferred, kept' = Outcome, UNCHANGED <<past, trace>>
  PROVE  KeptSound'
<1>1. Typed /\ Phased /\ Awaited /\ run.joined \in BOOLEAN
  BY DEF Base, Typed, RunStates
<1>2. finance_pack => Outcome.requests = <<>>
  BY DEF Requests, Outcome
<1>3. PastSound /\ (\A t \in Threads : CurrentAt(t)) /\ Engined
  BY DEF LiveSound
<1>4. \A t \in Threads : ~ Asks(t) /\ asked[t] = NoCall
  BY <1>1 DEF Phased, Awaited, AwaitedAt
<1>5. \A t \in Threads : work[t] = Final(t)
  BY <1>3, <1>4 DEF CurrentAt
<1>6. PastSound' /\ \A t \in Threads : Last(t)' = Last(t) /\ Final(t)' = Final(t)
  BY <1>3, SamePast
<1>7. \A t \in Threads : ~ Asking(Final(t))'
  <2>1. \A t \in Threads : ~ Asking(work[t])
    BY <1>4 DEF Asks, Ended, Asking
  <2> QED
    BY <1>5, <1>6, <2>1 DEF Asking
<1>8. Tasks \subseteq Threads /\ Branches \subseteq Threads /\ \A b \in Branches : b \notin Tasks
  BY QuestionTypes DEF Threads
<1>9. /\ Outcome.phase = run.phase /\ Outcome.detail = run.detail
      /\ Outcome.deferred = (run.joined /\ run.active # Tasks) /\ Outcome.report = Report
      /\ Outcome = [phase |-> run.phase, detail |-> run.detail, joined |-> run.joined,
                    deferred |-> FALSE, report |-> Report, requests |-> Outcome.requests]
  BY DEF Outcome
<1>10. ASSUME NEW phase, NEW detail, NEW branches, NEW tasks, NEW requests,
              requests = Outcome.requests, phase = run.phase, detail = run.detail,
              branches = run.joined, tasks <=> run.phase = "completed"
       PROVE  Outcome = Ending(phase, detail, branches, tasks, requests)'
  <2>1. Report = [t \in Threads |->
          IF (t \in Branches /\ branches) \/ (t \in Tasks /\ tasks) THEN Final(t).seen ELSE {}]
    BY <1>5, <1>10 DEF Report
  <2>2. Outcome = Ending(phase, detail, branches, tasks, requests)
    BY <1>9, <1>10, <2>1 DEF Ending
  <2>3. Ending(phase, detail, branches, tasks, requests)'
          = Ending(phase, detail, branches, tasks, requests)
    BY <1>6 DEF Ending
  <2> QED
    BY <2>2, <2>3
<1>11. PICK d, q : d = run.detail /\ q = Outcome.requests
  OBVIOUS
<1>12. ASSUME NEW threads \in SUBSET Threads, Tells(threads, run.detail)
       PROVE  OneRefusal'
  <2>1. PICK u \in threads : work[u].at = "raised" /\ work[u].error = run.detail
    BY <1>12 DEF Tells
  <2>2. \A t \in Threads : work[t].at = "raised" => work[t].error = run.detail
    BY <2>1 DEF Either, RaisedBy
  <2>3. kept'.detail = run.detail
    BY <1>9
  <2>4. \A t \in Threads : Final(t)' = work[t]
    BY <1>5, <1>6
  <2> QED
    BY <2>2, <2>3, <2>4 DEF OneRefusal
<1>13. CASE ~ run.joined
  <2>1. \A t \in Tasks : Last(t) = 1 /\ work[t].at # "raised"
    <3>1. ASSUME NEW t \in Tasks PROVE Last(t) = 1 /\ work[t].at # "raised"
      <4>1. Last(t) = 1 /\ t \in Threads
        BY <1>3, <1>8, <1>13 DEF Engined
      <4>2. work[t] = FreshResearch[t]
        BY <1>3, <1>5, <4>1, PastParts DEF Final
      <4>3. FreshResearch[t].at = "off"
        BY FreshBase
      <4> QED
        BY <4>1, <4>2, <4>3
    <3> QED
      BY <3>1
  <2>2. /\ \A t \in Tasks : Last(t) = 1
        /\ run.phase = "budget_exceeded" /\ Raised(Branches) /\ Tells(Branches, run.detail)
    <3>1. run.phase = "budget_exceeded"
      BY <1>3, <1>13 DEF Engined, Over
    <3>2. Raised(Branches)
      BY <2>1, <3>1 DEF Unraised, RaisedBy, Raised, Threads
    <3> QED
      BY <1>3, <1>13, <2>1, <3>1, <3>2 DEF Engined
  <2>3. FinalRaised(Branches)'
    BY <1>5, <1>6, <1>8, <2>2 DEF FinalRaised, Raised
  <2>4. /\ kept' = Ending("budget_exceeded", d, FALSE, FALSE, q)'
        /\ kept'.detail = d /\ kept'.requests = q
    <3>1. FALSE = run.joined /\ (FALSE <=> run.phase = "completed")
      BY <1>1, <1>13, <2>2
    <3> QED
      BY <1>9, <1>10, <1>11, <2>2, <3>1
  <2>5. \A t \in Tasks : Last(t)' = 1
    BY <1>6, <1>8, <2>2
  <2>6. RaisedEnd'
    <3>1. OneRefusal'
      BY <1>8, <1>12, <2>2
    <3>2. kept' = Ending("budget_exceeded", kept.detail, FALSE, FALSE, kept.requests)'
      BY <2>4 DEF Ending
    <3> QED
      BY <2>3, <2>5, <3>1, <3>2 DEF RaisedEnd
  <2> QED
    BY <1>2, <1>6, <1>7, <2>6 DEF KeptSound
<1>14. CASE run.joined
  <2>1. run.active = Tasks
    BY <1>9, <1>14
  <2>2. /\ ~ Raised(Branches) /\ ~ Useless
        /\ Tasks \subseteq ScheduledOf(max_search_requests \div 2)
        /\ \A t \in Tasks : work[t].at # "off"
        /\ IF Raised(Tasks) THEN run.phase = "budget_exceeded" /\ Tells(Tasks, run.detail)
           ELSE run.phase = "completed" /\ run.detail = "none"
        /\ RefusalKnown => Tasks = {}
    BY <1>3, <1>14, <2>1 DEF Engined, Over
  <2>3. ~ FinalRaised(Branches)' /\ (FinalRaised(Tasks)' <=> Raised(Tasks))
    BY <1>5, <1>6, <1>8, <2>2 DEF FinalRaised, Raised
  <2>4. ~ FinallyUseless'
    <3>1. \A b \in Branches : Final(b)' = work[b]
      BY <1>5, <1>6, <1>8
    <3>2. UNION {Final(b)' .seen : b \in Branches} = Output
      BY <3>1 DEF Output
    <3> QED
      BY <2>2, <3>1, <3>2 DEF FinallyUseless, Useless
  <2>5. \A t \in Tasks : Final(t)' .at # "off"
    BY <1>5, <1>6, <1>8, <2>2
  <2>6. RefusalRecorded' => Tasks = {}
    BY <2>2 DEF RefusalRecorded, RefusalKnown, SearchRefused
  <2>7. kept' = IF FinalRaised(Tasks)' THEN Ending("budget_exceeded", d, TRUE, FALSE, q)'
                ELSE Ending("completed", "none", TRUE, TRUE, q)'
    <3>1. run.joined = TRUE /\ q = Outcome.requests /\ d = run.detail
      BY <1>1, <1>11, <1>14
    <3>2. CASE Raised(Tasks)
      <4>1. run.phase = "budget_exceeded"
        BY <2>2, <3>2
      <4>2. Outcome = Ending("budget_exceeded", d, TRUE, FALSE, q)'
        BY <1>10, <3>1, <4>1
      <4> QED
        BY <2>3, <3>2, <4>2
    <3>3. CASE ~ Raised(Tasks)
      <4>1. run.phase = "completed" /\ run.detail = "none"
        BY <2>2, <3>3
      <4>2. Outcome = Ending("completed", "none", TRUE, TRUE, q)'
        BY <1>10, <3>1, <4>1
      <4> QED
        BY <2>3, <3>3, <4>2
    <3> QED
      BY <3>2, <3>3
  <2>8. OneRefusal'
    <3>1. CASE Raised(Tasks)
      BY <1>8, <1>12, <2>2, <3>1
    <3>2. CASE ~ Raised(Tasks)
      <4>1. \A t \in Threads : work[t].at # "raised"
        BY <2>2, <3>2 DEF Raised, Threads
      <4> QED
        BY <1>5, <1>6, <4>1 DEF OneRefusal
    <3> QED
      BY <3>1, <3>2
  <2>9. JoinedEnd'
    <3>1. kept'.detail = d /\ kept'.requests = q
      BY <1>9, <1>11
    <3>2. kept' = IF FinalRaised(Tasks)'
                  THEN Ending("budget_exceeded", kept.detail, TRUE, FALSE, kept.requests)'
                  ELSE Ending("completed", "none", TRUE, TRUE, kept.requests)'
      BY <2>7, <3>1 DEF Ending
    <3> QED
      BY <2>2, <2>3, <2>4, <2>5, <2>6, <2>8, <3>2 DEF JoinedEnd
  <2> QED
    BY <1>2, <1>6, <1>7, <2>9 DEF KeptSound
<1> QED
  BY <1>13, <1>14

LEMMA ReplayStarts ==
  ASSUME Base, LiveSound, Replay
  PROVE  ReplaySound' /\ mode' \notin {"missed", "mismatch"}
<1>1. /\ mode = "live" /\ Over /\ kept' = Outcome /\ UNCHANGED <<asked, trace, past>>
      /\ seenAs' = [seenAs EXCEPT !.unraised = Unraised, !.either = Either]
      /\ \/ /\ mode' = "replay" /\ left' = DOMAIN trace
            /\ work' = FreshResearch /\ scope' = NewScope /\ run' = NewRun
         \/ mode' = "rejected"
  BY DEF Replay
<1>2. ASSUME mode' = "replay", ~ Excepted'
      PROVE  KeptSound' /\ Located' /\ Replayed'
  <2>1. ~ seenAs.hidden /\ ~ Unraised /\ ~ Either
    <3>1. seenAs \in Observed
      BY DEF Base, Typed
    <3> QED
      BY <1>1, <1>2, <3>1 DEF Excepted, Observed
  <2>2. KeptSound' /\ PastSound'
    <3>1. ~ Outcome.deferred
      BY <1>1, <1>2 DEF Excepted
    <3> QED
      BY <1>1, <2>1, <3>1, RunKept DEF KeptSound
  <2>3. /\ left' = DOMAIN trace /\ work' = FreshResearch
        /\ scope' = NewScope /\ run' = NewRun
    BY <1>1, <1>2
  <2>4. Located'
    <3> SUFFICES ASSUME NEW t \in Threads
                 PROVE  \E p \in 1..Last(t)' : AtState(t, p)'
      BY DEF Located
    <3>1. PastSound /\ trace \in Seq(Traces)
      BY <1>1, <2>1 DEF LiveSound, Base, Typed
    <3>2. /\ Last(t) \in Nat \ {0} /\ past[t][1].work = FreshResearch[t]
          /\ Rest(t, 1) = {i \in DOMAIN trace : trace[i].by = t}
      BY <3>1, PastParts, RestAll
    <3>3. Rest(t, 1)' = Rest(t, 1) /\ Last(t)' = Last(t)
      BY <1>1 DEF Rest, Last
    <3>4. LeftBy(t)' = {i \in DOMAIN trace : trace[i].by = t}
      BY <1>1, <2>3 DEF LeftBy
    <3>5. AtState(t, 1)'
      BY <1>1, <2>3, <3>2, <3>3, <3>4 DEF AtState
    <3>6. 1 \in 1..Last(t)'
      BY <3>2, <3>3
    <3> QED
      BY <3>5, <3>6
  <2>5. Replayed'
    BY <2>3 DEF Replayed, NewRun, NewScope
  <2> QED
    BY <2>2, <2>4, <2>5
<1> QED
  BY <1>1, <1>2 DEF ReplaySound

(* One thread goes on to the next state of its past. *)
LEMMA GoneTo ==
  ASSUME Typed, PastSound, Located, NEW t \in Threads, NEW p \in 1..(Last(t) - 1),
         AtState(t, p), work' = [work EXCEPT ![t] = past[t][p + 1].work],
         left' = left \ {past[t][p + 1].from}, UNCHANGED <<past, trace>>
  PROVE  Located'
<1> DEFINE i == past[t][p + 1].from
<1>1. /\ p + 1 \in 1..Last(t) /\ Rest(t, p + 1) = Rest(t, p) \ {i}
      /\ i # 0 => i \in Rest(t, p)
  BY RestNext
<1>2. \A u \in Threads : Last(u)' = Last(u) /\ \A q : Rest(u, q)' = Rest(u, q)
  BY DEF Last, Rest
<1>3. /\ work'[t] = past[t][p + 1].work
      /\ \A u \in Threads \ {t} : work'[u] = work[u]
  BY DEF Typed, WorkTyped
<1>4. 0 \notin left
  BY DEF Typed
<1> HIDE DEF i
<1>5. i # 0 => i \in left /\ trace[i].by = t
  BY <1>1 DEF AtState, LeftBy
<1>6. /\ LeftBy(t)' = LeftBy(t) \ {i}
      /\ \A u \in Threads \ {t} : LeftBy(u)' = LeftBy(u)
  BY <1>4, <1>5 DEF LeftBy, i
<1>7. AtState(t, p + 1)'
  BY <1>1, <1>2, <1>3, <1>6 DEF AtState
<1>8. ASSUME NEW u \in Threads \ {t}
      PROVE  \E q \in 1..Last(u)' : AtState(u, q)'
  <2>1. PICK q \in 1..Last(u) : AtState(u, q)
    BY DEF Located
  <2>2. AtState(u, q)'
    BY <1>2, <1>3, <1>6, <2>1 DEF AtState
  <2> QED
    BY <1>2, <2>1, <2>2
<1> QED
  BY <1>1, <1>2, <1>7, <1>8 DEF Located

(* A thread that asks is not at the end of its past. *)
LEMMA AskingLeads ==
  ASSUME KeptSound, NEW t \in Threads, Asks(t), NEW p \in 1..Last(t), AtState(t, p)
  PROVE  LET i == past[t][p + 1].from v == past[t][p + 1].work
         IN  /\ p \in 1..(Last(t) - 1)
             /\ MayAsk(t, work[t]) => ByAnswer(trace, t, work[t], i, v)
             /\ ~ MayAsk(t, work[t]) => i = 0 /\ ByBreak(t, work[t], v)
<1>1. PastSound /\ ~ Asking(Final(t))
  BY DEF KeptSound
<1>2. Last(t) \in Nat \ {0} /\ Chained(t)
  BY <1>1, PastParts
<1>3. Asking(work[t])
  BY DEF Asks, Ended, Asking
<1>4. p # Last(t)
  BY <1>1, <1>3 DEF AtState, Final
<1>5. p \in 1..(Last(t) - 1)
  BY <1>2, <1>4
<1>6. LeadsTo(trace, t, work[t], past[t][p + 1].from, past[t][p + 1].work)
  BY <1>2, <1>5 DEF Chained, AtState
<1>7. work[t].at # "off"
  BY <1>3 DEF Asking
<1> QED
  BY <1>5, <1>6, <1>7 DEF LeadsTo, ByAnswer, ByBreak, ByStart

LEMMA AskReplaySound ==
  ASSUME Base, ReplaySound, NEW t \in Threads, AskReplay(t), ~ Excepted'
  PROVE  mode' = "replay" /\ KeptSound' /\ Located' /\ Replayed'
<1> DEFINE c == CallOf(t)
           j == First(c)
<1>1. /\ mode = "replay" /\ Asks(t) /\ UNCHANGED <<run, asked, trace, kept, shown>>
      /\ \A field \in {"overlap", "hidden", "repeated", "reordered", "unraised", "either"} :
           seenAs[field] => seenAs'[field]
  BY AskReplayStep
<1>2. past' = past /\ MayAsk(t, work[t])
  BY DEF AskReplay, MayCall, MayAsk, Charged
<1>3. Typed /\ Phased /\ KeptSound /\ PastSound /\ Located /\ Replayed
  BY <1>1, ExceptedStays DEF ReplaySound, Base, KeptSound
<1>4. PICK p \in 1..Last(t) : AtState(t, p)
  BY <1>3 DEF Located
<1> DEFINE i == past[t][p + 1].from
           v == past[t][p + 1].work
<1>5. p \in 1..(Last(t) - 1) /\ ByAnswer(trace, t, work[t], i, v)
  BY <1>1, <1>2, <1>3, <1>4, AskingLeads
<1>6. /\ i \in DOMAIN trace /\ trace[i].by = t /\ trace[i].call = c
      /\ v = AfterAnswer(t, Charge(work[t]), trace[i].answer)
  BY <1>5 DEF ByAnswer, CallOf
<1>7. i # 0
  BY <1>3, <1>6 DEF Typed
<1>8. i \in LeftBy(t) /\ \A k \in LeftBy(t) : i <= k
  BY <1>3, <1>4, <1>5, <1>7, RestNext DEF AtState
<1> HIDE DEF i, v
<1>9. i \in Queue(c)
  BY <1>6, <1>8 DEF Queue, LeftBy
<1>10. seenAs'.reordered \in BOOLEAN /\ ~ seenAs'.reordered /\ seenAs \in Observed
  BY <1>3, AskReplayStep DEF Excepted, Observed, Typed
<1>11. ~ (Queue(c) = {} \/ trace[j].call # c)
  <2> SUFFICES ASSUME Queue(c) = {} \/ trace[j].call # c PROVE FALSE
    OBVIOUS
  <2>1. Note("reordered", Queue(c) # {})
    BY DEF AskReplay
  <2>2. seenAs'.reordered
    BY <1>9, <1>10, <2>1 DEF Note, Observed
  <2> QED
    BY <1>10, <2>2
<1>12. /\ work' = [work EXCEPT ![t] = AfterAnswer(t, ChargedWork(t), trace[j].answer)]
       /\ scope' = Repeated(t, trace[j].answer)
       /\ left' = left \ {j} /\ mode' = mode /\ Note("reordered", trace[j].by # t)
  BY <1>11 DEF AskReplay
<1>13. trace[j].by = t
  BY <1>10, <1>12 DEF Note, Observed
<1>14. j \in Queue(c) /\ j \in left /\ \A k \in Queue(c) : j <= k
  BY <1>3, <1>11, FirstSound DEF Typed
<1>15. j = i
  <2>1. j \in LeftBy(t)
    BY <1>13, <1>14 DEF LeftBy
  <2>2. i <= j /\ j <= i
    BY <1>8, <1>9, <1>14, <2>1
  <2>3. i \in Nat /\ j \in Nat
    BY <1>3, <1>6, <1>14 DEF Typed
  <2> QED
    BY <2>2, <2>3
<1> HIDE DEF j, c
<1>16. work' = [work EXCEPT ![t] = v] /\ left' = left \ {i}
  <2>1. ChargedWork(t) = Charge(work[t])
    BY DEF ChargedWork, Charge, Charged
  <2> QED
    BY <1>6, <1>12, <1>15, <2>1
<1>17. Located'
  BY <1>1, <1>2, <1>3, <1>4, <1>5, <1>16, GoneTo DEF i, v
<1>18. KeptSound' /\ (JoinedEnd => JoinedEnd') /\ RefusalRecorded' = RefusalRecorded
  BY <1>1, <1>2, <1>3, SameKept
<1>19. ASSUME run.phase = "research", scope'.search # 0
       PROVE  RefusalRecorded
  <2>1. CASE scope.search # 0
    BY <1>3, <1>19, <2>1 DEF Replayed
  <2>2. CASE scope.search = 0
    <3>1. scope' # scope
      BY <1>19, <2>2
    <3>2. trace[i].answer \in Refusals /\ scope' = Taken(scope, Lane(t), 1, trace[i].answer)
      BY <1>12, <1>15, <3>1 DEF Repeated
    <3>3. work[t] \in WorkStates /\ HasItsCall(t, work[t]) /\ scope \in Scopes
      BY <1>3 DEF Typed, WorkTyped
    <3>4. Lane(t) = "search"
      <4>1. Lane(t) \in Lanes \cup {"none"} /\ 1 \in Nat
        BY <1>1, <3>3, LaneSound
      <4>2. Lane(t) # "search" => scope'.search = scope.search
        BY <3>2, <3>3, <4>1, TakenSound
      <4> QED
        BY <1>19, <2>2, <4>2
    <3>5. Searched(c)
      <4>1. work[t].at \in {"search", "widen"}
        BY <1>1, <3>3, <3>4, LaneSound
      <4> QED
        BY <1>1, <3>3, <4>1, CallTyped DEF Searched, c
    <3>6. t \in Branches
      BY <1>1, <1>3, <1>19, AskingPhase
    <3> QED
      BY <1>6, <3>2, <3>5, <3>6 DEF RefusalRecorded, SearchRefused
  <2> QED
    BY <2>1, <2>2
<1>20. run.phase \notin {"completed", "budget_exceeded"}
  BY <1>1, <1>3 DEF Phased, Over
<1>21. Replayed'
  BY <1>1, <1>3, <1>18, <1>19, <1>20 DEF Replayed
<1> QED
  BY <1>1, <1>12, <1>17, <1>18, <1>21

LEMMA BreakReplaySound ==
  ASSUME Base, ReplaySound, NEW t \in Threads, Break(t)
  PROVE  ReplaySound'
<1>1. /\ Asks(t) /\ ~ MayCall(t, mode = "bare")
      /\ work' = [work EXCEPT ![t] = BreakOff(t, work[t])]
      /\ UNCHANGED <<scope, run, mode, asked, trace, left, kept, shown, seenAs>>
  BY BreakStep
<1> SUFFICES ASSUME mode = "replay", ~ Excepted
             PROVE  KeptSound' /\ Located' /\ Replayed'
  BY <1>1 DEF ReplaySound, Excepted
<1>2. Typed /\ Phased /\ PastSound /\ KeptSound /\ Located /\ Replayed
  BY DEF ReplaySound, KeptSound, Base
<1>3. past' = past
  <2>1. past' = [u \in Threads |-> past[u]]
    BY DEF Break, Remember
  <2> QED
    BY <1>2, <2>1 DEF PastSound
<1>4. ~ MayAsk(t, work[t])
  BY <1>1 DEF MayAsk, MayCall, Charged, QuotaSpent
<1>5. PICK p \in 1..Last(t) : AtState(t, p)
  BY <1>2 DEF Located
<1>6. /\ p \in 1..(Last(t) - 1) /\ past[t][p + 1].from = 0
      /\ past[t][p + 1].work = BreakOff(t, work[t])
  BY <1>1, <1>2, <1>4, <1>5, AskingLeads DEF ByBreak
<1>7. left' = left \ {0}
  BY <1>1, <1>2 DEF Typed
<1>8. Located'
  BY <1>1, <1>2, <1>3, <1>5, <1>6, <1>7, GoneTo
<1>9. KeptSound' /\ (JoinedEnd => JoinedEnd') /\ RefusalRecorded' = RefusalRecorded
  BY <1>1, <1>2, <1>3, SameKept
<1>10. run.phase \notin {"completed", "budget_exceeded"}
  BY <1>1, <1>2 DEF Phased, Over
<1>11. Replayed'
  BY <1>1, <1>2, <1>9, <1>10 DEF Replayed
<1> QED
  BY <1>8, <1>9, <1>11

LEMMA NothingLeft ==
  ASSUME Typed, \A t \in Threads : LeftBy(t) = {}
  PROVE  left = {}
<1>1. \A i \in left : trace[i] \in Traces
  BY DEF Typed
<1>2. \A i \in left : trace[i].by \in Threads /\ i \in LeftBy(trace[i].by)
  BY <1>1 DEF Traces, LeftBy
<1> QED
  BY <1>2

(* A replay that ends where its recording did has the recorded outcome.    *)
LEMMA SameOutcome ==
  ASSUME NEW phase, NEW detail, NEW branches, NEW tasks, UNCHANGED <<work, past>>,
         \A t \in Threads : (t \in Branches /\ branches) \/ (t \in Tasks /\ tasks) =>
           work[t] = Final(t),
         run'.phase = phase, run'.detail = detail, branches = run'.joined,
         tasks <=> phase = "completed", ~ (run'.joined /\ run'.active # Tasks)
  PROVE  Outcome' = Ending(phase, detail, branches, tasks, Requests')
<1>1. Report' = [t \in Threads |->
        IF (t \in Branches /\ branches) \/ (t \in Tasks /\ tasks) THEN Final(t).seen ELSE {}]
  BY DEF Report
<1>2. Outcome' = [phase |-> phase, detail |-> detail, joined |-> branches, deferred |-> FALSE,
                  report |-> Report', requests |-> Requests']
  BY DEF Outcome
<1> QED
  BY <1>1, <1>2 DEF Ending

LEMMA OtherRequests ==
  ASSUME NEW phase, NEW detail, NEW branches, NEW tasks, NEW requests,
         kept = Ending(phase, detail, branches, tasks, requests),
         Outcome' = Ending(phase, detail, branches, tasks, Requests'), kept' = kept
  PROVE  SameButRequests'
<1> DEFINE seen == [t \in Threads |->
      IF (t \in Branches /\ branches) \/ (t \in Tasks /\ tasks) THEN Final(t).seen ELSE {}]
<1>1. /\ kept = [phase |-> phase, detail |-> detail, joined |-> branches, deferred |-> FALSE,
                 report |-> seen, requests |-> requests]
      /\ Outcome' = [phase |-> phase, detail |-> detail, joined |-> branches, deferred |-> FALSE,
                     report |-> seen, requests |-> Requests']
  BY DEF Ending
<1> HIDE DEF seen
<1>2. DOMAIN kept = {"phase", "detail", "joined", "deferred", "report", "requests"}
  BY <1>1
<1>3. /\ Outcome'.phase = kept.phase /\ Outcome'.detail = kept.detail
      /\ Outcome'.joined = kept.joined /\ Outcome'.deferred = kept.deferred
      /\ Outcome'.report = kept.report
  BY <1>1
<1> QED
  BY <1>2, <1>3 DEF SameButRequests

LEMMA EngineReplaySound ==
  ASSUME Base, ReplaySound, Engine
  PROVE  ReplaySound'
<1>1. UNCHANGED <<mode, asked, trace, left, kept, shown, seenAs>> /\ (Join \/ Conclude)
  BY DEF Engine
<1> SUFFICES ASSUME mode = "replay", ~ Excepted
             PROVE  KeptSound' /\ Located' /\ Replayed'
  BY <1>1 DEF ReplaySound, Excepted
<1>2. Typed /\ Phased /\ PastSound /\ KeptSound /\ Located /\ Replayed
  BY DEF ReplaySound, KeptSound, Base
<1>3. past' = past
  <2>1. past' = [u \in Threads |-> past[u]]
    BY DEF Engine, Remember
  <2> QED
    BY <1>2, <2>1 DEF PastSound
<1>4. KeptSound' /\ (JoinedEnd => JoinedEnd') /\ RefusalRecorded' = RefusalRecorded
  BY <1>1, <1>2, <1>3, SameKept
<1>5. /\ Tasks \subseteq Threads /\ Branches \subseteq Threads
      /\ \A b \in Branches : b \notin Tasks
      /\ \A t \in Threads : t \in Branches \/ t \in Tasks
      /\ run \in RunStates /\ scope \in Scopes
  BY <1>2, QuestionTypes DEF Threads, Typed
<1>6. ASSUME NEW t \in Threads, Ended(t)
      PROVE  work[t] = Final(t) /\ LeftBy(t) = {}
  <2>1. PICK p \in 1..Last(t) : AtState(t, p)
    BY <1>2 DEF Located
  <2> QED
    BY <1>2, <1>6, <2>1, AtEnd DEF Ended
<1>7. ASSUME work' = work
      PROVE  Located'
  BY <1>1, <1>2, <1>3, <1>7 DEF Located, AtState, LeftBy, Rest, Last
<1>8. \A t \in Threads : /\ LeftBy(t)' = LeftBy(t) /\ Last(t)' = Last(t)
                        /\ \A p \in 1..Last(t) : Rest(t, p)' = Rest(t, p)
  BY <1>1, <1>3 DEF LeftBy, Rest, Last
<1>9. CASE Join
  <2>1. /\ run.phase = "research" /\ ~ run.joined /\ scope' = scope
        /\ (\A b \in Branches : Ended(b)) /\ (\A t \in Tasks : work[t].at = "off")
    BY <1>9, JoinEnds
  <2>2. \A b \in Branches : work[b] = Final(b) /\ LeftBy(b) = {}
    BY <1>5, <1>6, <2>1
  <2>3. FinalRaised(Branches) <=> Raised(Branches)
    BY <2>2 DEF FinalRaised, Raised
  <2>4. ASSUME Raised(Branches), work' = work, NEW refusal, Tells(Branches, refusal),
               run' = [run EXCEPT !.phase = "budget_exceeded", !.detail = refusal]
        PROVE  KeptSound' /\ Located' /\ Replayed'
    <3>1. RaisedEnd
      BY <1>2, <2>3, <2>4 DEF KeptSound, JoinedEnd
    <3>2. /\ run'.phase = "budget_exceeded" /\ run'.detail = refusal /\ run'.joined = FALSE
      BY <1>5, <2>1, <2>4 DEF RunStates
    <3>3. refusal = kept.detail
      BY <1>5, <2>2, <2>4, <3>1 DEF RaisedEnd, OneRefusal, Tells
    <3>4. \A t \in Tasks : LeftBy(t) = {}
      <4> SUFFICES ASSUME NEW t \in Tasks PROVE LeftBy(t) = {}
        OBVIOUS
      <4>1. t \in Threads /\ Last(t) = 1
        BY <1>5, <3>1 DEF RaisedEnd
      <4>2. PICK p \in 1..Last(t) : AtState(t, p)
        BY <1>2, <4>1 DEF Located
      <4>3. p = Last(t)
        BY <4>1, <4>2
      <4> QED
        BY <1>2, <4>1, <4>2, <4>3, RestEnd DEF AtState
    <3>5. left = {}
      <4>1. \A t \in Threads : LeftBy(t) = {}
        BY <1>5, <2>2, <3>4
      <4> QED
        BY <1>2, <4>1, NothingLeft
    <3>6. Outcome' = Ending("budget_exceeded", kept.detail, FALSE, FALSE, Requests')
      BY <1>3, <2>4, <3>2, <3>3, SameOutcome
    <3>7. SameButRequests'
      <4>1. kept = Ending("budget_exceeded", kept.detail, FALSE, FALSE, kept.requests)
        BY <3>1 DEF RaisedEnd
      <4> QED
        BY <1>1, <3>6, <4>1, OtherRequests
    <3>8. Replayed'
      BY <1>1, <3>2, <3>5, <3>7 DEF Replayed
    <3> QED
      BY <1>4, <1>7, <2>4, <3>8
  <2>5. CASE ~ Raised(Branches) /\ Useless
    <3>1. Output = UNION {Final(b).seen : b \in Branches}
      BY <2>2 DEF Output
    <3>2. FinallyUseless
      BY <2>2, <2>5, <3>1 DEF FinallyUseless, Useless
    <3> QED
      BY <1>2, <2>3, <2>5, <3>2 DEF KeptSound, RaisedEnd, JoinedEnd
  <2>6. CASE /\ ~ Raised(Branches)
             /\ run' = [run EXCEPT !.phase = "retry", !.joined = TRUE, !.active = Scheduled]
             /\ work' = [t \in Threads |->
                  IF t \in Scheduled THEN NewWork("search") ELSE work[t]]
    <3>1. JoinedEnd
      BY <1>2, <2>3, <2>6 DEF KeptSound, RaisedEnd
    <3>2. Scheduled = Tasks
      <4>1. CASE scope.search = 0
        BY <1>5, <3>1, <4>1, ScheduledSound DEF JoinedEnd
      <4>2. CASE scope.search # 0
        <5>1. Tasks = {}
          BY <1>2, <2>1, <3>1, <4>2 DEF Replayed, JoinedEnd
        <5> QED
          BY <1>5, <5>1, ScheduledSound
      <4> QED
        BY <4>1, <4>2
    <3>3. run'.phase = "retry" /\ run'.active = Tasks
      BY <1>5, <2>6, <3>2 DEF RunStates
    <3>4. /\ \A t \in Tasks : work'[t] = NewWork("search")
          /\ \A b \in Branches : work'[b] = work[b]
      BY <1>5, <2>6, <3>2
    <3>5. ASSUME NEW t \in Tasks
          PROVE  \E q \in 1..Last(t) : AtState(t, q)'
      <4>1. t \in Threads /\ work[t].at = "off" /\ Final(t).at # "off"
        BY <1>5, <2>1, <3>1 DEF JoinedEnd
      <4>2. PICK p \in 1..Last(t) : AtState(t, p)
        BY <1>2, <4>1 DEF Located
      <4>3. Last(t) \in Nat \ {0} /\ Chained(t)
        BY <1>2, <4>1, PastParts
      <4>4. p # Last(t)
        BY <4>1, <4>2 DEF AtState, Final
      <4>5. p \in 1..(Last(t) - 1)
        BY <4>2, <4>3, <4>4
      <4>6. LeadsTo(trace, t, work[t], past[t][p + 1].from, past[t][p + 1].work)
        BY <4>2, <4>3, <4>5 DEF Chained, AtState
      <4>7. past[t][p + 1].from = 0 /\ past[t][p + 1].work = NewWork("search")
        BY <4>1, <4>6 DEF LeadsTo, ByAnswer, ByBreak, ByStart, Asking
      <4>8. 0 \notin LeftBy(t)
        BY <1>2 DEF Typed, LeftBy
      <4>9. p + 1 \in 1..Last(t) /\ LeftBy(t) = Rest(t, p + 1)
        <5>1. p + 1 \in 1..Last(t) /\ Rest(t, p + 1) = Rest(t, p) \ {past[t][p + 1].from}
          BY <1>2, <4>1, <4>5, RestNext
        <5>2. LeftBy(t) = Rest(t, p)
          BY <4>2 DEF AtState
        <5> QED
          BY <4>7, <4>8, <5>1, <5>2
      <4>10. AtState(t, p + 1)'
        BY <1>3, <1>8, <3>4, <4>1, <4>7, <4>9 DEF AtState
      <4> QED
        BY <4>9, <4>10
    <3>6. ASSUME NEW b \in Branches
          PROVE  \E q \in 1..Last(b) : AtState(b, q)'
      <4>1. PICK q \in 1..Last(b) : AtState(b, q)
        BY <1>2, <1>5 DEF Located
      <4>2. AtState(b, q)'
        BY <1>3, <1>5, <1>8, <3>4, <4>1 DEF AtState
      <4> QED
        BY <4>2
    <3>7. Located'
      BY <1>5, <1>8, <3>5, <3>6 DEF Located
    <3>8. Replayed'
      BY <1>4, <3>1, <3>3 DEF Replayed
    <3> QED
      BY <1>4, <3>7, <3>8
  <2> QED
    BY <1>9, <2>4, <2>5, <2>6, JoinEnds
<1>10. CASE Conclude
  <2>1. /\ run.phase = "retry" /\ (\A t \in run.active : Ended(t)) /\ work' = work
        /\ \/ /\ Raised(run.active)
              /\ \E refusal : /\ Tells(run.active, refusal)
                              /\ run' = [run EXCEPT !.phase = "budget_exceeded", !.detail = refusal]
           \/ /\ ~ Raised(run.active)
              /\ run' = [run EXCEPT !.phase = "completed", !.detail = "none"]
    BY <1>10, ConcludeEnds
  <2>2. run.active = Tasks /\ JoinedEnd /\ run.joined /\ \A b \in Branches : Ended(b)
    BY <1>2, <2>1 DEF Replayed, Phased
  <2>3. \A t \in Threads : work[t] = Final(t) /\ LeftBy(t) = {}
    <3> SUFFICES ASSUME NEW t \in Threads
                 PROVE  work[t] = Final(t) /\ LeftBy(t) = {}
      OBVIOUS
    <3>1. Ended(t)
      BY <1>5, <2>1, <2>2
    <3> QED
      BY <1>6, <3>1
  <2>4. left = {}
    BY <1>2, <2>3, NothingLeft
  <2>5. FinalRaised(Tasks) <=> Raised(run.active)
    BY <1>5, <2>2, <2>3 DEF FinalRaised, Raised
  <2>6. ASSUME NEW p \in {"completed", "budget_exceeded"}, NEW d, NEW ended \in BOOLEAN,
               run' = [run EXCEPT !.phase = p, !.detail = d],
               ended <=> p = "completed", kept = Ending(p, d, TRUE, ended, kept.requests)
        PROVE  Replayed'
    <3>1. run'.phase = p /\ run'.detail = d /\ run'.joined = TRUE /\ run'.active = Tasks
      BY <1>5, <2>2, <2>6 DEF RunStates
    <3>2. Outcome' = Ending(p, d, TRUE, ended, Requests')
      <4>1. /\ UNCHANGED <<work, past>> /\ TRUE = run'.joined
            /\ ~ (run'.joined /\ run'.active # Tasks)
        BY <1>3, <2>1, <2>6, <3>1
      <4>2. CASE ended = TRUE
        <5>1. p = "completed" /\ \A t \in Threads : work[t] = Final(t)
          BY <2>3, <2>6, <4>2
        <5>2. Outcome' = Ending(p, d, TRUE, TRUE, Requests')
          BY <3>1, <4>1, <5>1, SameOutcome
        <5> QED
          BY <4>2, <5>2
      <4>3. CASE ended = FALSE
        <5>1. p # "completed" /\ \A b \in Branches : work[b] = Final(b)
          BY <1>5, <2>3, <2>6, <4>3
        <5>2. Outcome' = Ending(p, d, TRUE, FALSE, Requests')
          BY <3>1, <4>1, <5>1, SameOutcome
        <5> QED
          BY <4>3, <5>2
      <4> QED
        BY <2>6, <4>2, <4>3
    <3>3. SameButRequests'
      BY <1>1, <2>6, <3>2, OtherRequests
    <3> QED
      BY <1>1, <2>4, <3>1, <3>3 DEF Replayed
  <2>7. Replayed'
    <3>1. CASE Raised(run.active)
      <4>1. PICK refusal : /\ Tells(run.active, refusal)
                           /\ run' = [run EXCEPT !.phase = "budget_exceeded", !.detail = refusal]
        BY <2>1, <3>1
      <4>2. refusal = kept.detail
        BY <1>5, <2>2, <2>3, <4>1 DEF JoinedEnd, OneRefusal, Tells
      <4>3. kept = Ending("budget_exceeded", kept.detail, TRUE, FALSE, kept.requests)
        BY <2>2, <2>5, <3>1 DEF JoinedEnd
      <4> QED
        BY <2>6, <4>1, <4>2, <4>3
    <3>2. CASE ~ Raised(run.active)
      BY <2>1, <2>2, <2>5, <2>6, <3>2 DEF JoinedEnd
    <3> QED
      BY <3>1, <3>2
  <2> QED
    BY <1>4, <1>7, <2>1, <2>7
<1> QED
  BY <1>1, <1>9, <1>10

LEMMA ReproducesOtherwise ==
  /\ ReplayReproduces <=>
       (mode \in {"missed", "mismatch"} =>
          Excepted \/ (mode = "mismatch" /\ ~ finance_pack /\ SameButRequests))
  /\ ReplayReproduces' <=>
       (mode' \in {"missed", "mismatch"} =>
          Excepted' \/ (mode' = "mismatch" /\ ~ finance_pack /\ SameButRequests'))
BY DEF ReplayReproduces, Excepted

LEMMA VerdictSound ==
  ASSUME Base, ReplaySound, Verdict
  PROVE  mode' # "replay" /\ ReplayReproduces'
<1>1. /\ mode = "replay" /\ Over /\ UNCHANGED <<work, scope, run, left, kept, seenAs>>
      /\ mode' = IF left # {} THEN "missed" ELSE IF Outcome = kept THEN "reproduced" ELSE "mismatch"
  BY DEF Verdict, research
<1>2. Excepted' <=> Excepted
  BY <1>1 DEF Excepted
<1>3. ~ Excepted => left = {} /\ SameButRequests /\ (finance_pack => kept.requests = <<>>)
                     /\ (RaisedEnd \/ JoinedEnd)
  BY <1>1 DEF ReplaySound, Replayed, KeptSound, Over
<1>4. ASSUME ~ Excepted, finance_pack
      PROVE  Outcome = kept
  <2>1. PICK p, d, b, e : kept = Ending(p, d, b, e, kept.requests)
    BY <1>3, <1>4 DEF RaisedEnd, JoinedEnd
  <2>2. /\ kept.requests = <<>> /\ Requests = <<>>
        /\ \A field \in DOMAIN kept \ {"requests"} : Outcome[field] = kept[field]
    BY <1>3, <1>4 DEF Requests, SameButRequests
  <2> DEFINE seen == [t \in Threads |->
        IF (t \in Branches /\ b) \/ (t \in Tasks /\ e) THEN Final(t).seen ELSE {}]
  <2>3. kept = [phase |-> p, detail |-> d, joined |-> b, deferred |-> FALSE,
                report |-> seen, requests |-> <<>>]
    BY <2>1, <2>2 DEF Ending
  <2>4. /\ Outcome = [phase |-> Outcome.phase, detail |-> Outcome.detail,
                     joined |-> Outcome.joined, deferred |-> Outcome.deferred,
                     report |-> Outcome.report, requests |-> Requests]
    BY DEF Outcome
  <2> HIDE DEF seen
  <2>5. DOMAIN kept = {"phase", "detail", "joined", "deferred", "report", "requests"}
    BY <2>3
  <2>6. /\ Outcome.phase = p /\ Outcome.detail = d /\ Outcome.joined = b
        /\ Outcome.deferred = FALSE /\ Outcome.report = seen
    BY <2>2, <2>3, <2>5
  <2> QED
    BY <2>2, <2>3, <2>4, <2>6
<1>5. SameButRequests' <=> SameButRequests
  BY <1>1 DEF SameButRequests, Outcome, Requests, Report
<1> QED
  BY <1>1, <1>2, <1>3, <1>4, <1>5, ReproducesOtherwise

(* Every step keeps the recording sound, and its replay where it was.      *)
Faithful == LiveSound /\ ReplaySound /\ ReplayReproduces

LEMMA InitFaithful ==
  ASSUME Init
  PROVE  Faithful
<1>1. /\ work = FreshResearch /\ scope = NewScope /\ run = NewRun
      /\ asked = [t \in Threads |-> NoCall] /\ trace = <<>>
      /\ past = [t \in Threads |-> <<State(work[t], 0)>>]
      /\ mode \in {"bare", "live"}
  BY DEF Init
<1>2. ASSUME NEW t \in Threads
      PROVE  /\ past[t] = <<State(FreshResearch[t], 0)>> /\ State(FreshResearch[t], 0) \in States
             /\ past[t] \in Seq(States) /\ past[t] # <<>> /\ Last(t) = 1
             /\ past[t][1] = State(FreshResearch[t], 0) /\ asked[t] = NoCall
  <2>1. past[t] = <<State(FreshResearch[t], 0)>> /\ asked[t] = NoCall
    BY <1>1
  <2>2. State(FreshResearch[t], 0) \in States
    BY FreshBase, StateTyped
  <2> HIDE DEF States, State
  <2> QED
    BY <2>1, <2>2 DEF Last
<1>3. /\ past \in [Threads -> Seq(States)]
      /\ \A t \in Threads : Chained(t) /\ InOrder(t)
      /\ \A t \in Threads : \A k \in 1..Last(t) : past[t][k].from <= Len(trace)
  <2>1. past \in [Threads -> Seq(States)]
    BY <1>1, <1>2
  <2>2. 1..(1 - 1) = {} /\ 1..1 = {1} /\ Len(<<>>) = 0
    OBVIOUS
  <2> QED
    BY <1>1, <1>2, <2>1, <2>2, StateParts DEF Chained, InOrder
<1>4. PastSound
  <2>1. DOMAIN trace = {}
    BY <1>1
  <2> QED
    BY <1>2, <1>3, <2>1 DEF PastSound
<1>5. \A t \in Threads : CurrentAt(t)
  BY <1>1, <1>2, StateParts DEF CurrentAt, Final
<1>6. Engined
  <2>1. ~ RefusalKnown
    <3>1. DOMAIN trace = {}
      BY <1>1
    <3>2. ~ SearchRefused(NoCall)
      BY DEF SearchRefused, NoCall, Refusals
    <3> QED
      BY <1>2, <3>1, <3>2 DEF RefusalKnown
  <2> QED
    BY <1>1, <1>2, <2>1 DEF Engined, NewRun, Threads
<1> QED
  BY <1>1, <1>4, <1>5, <1>6 DEF Faithful, LiveSound, ReplaySound, ReplayReproduces

LEMMA NextFaithful ==
  ASSUME Base, Faithful, [Next]_vars
  PROVE  Faithful'
<1>1. LiveSound /\ ReplaySound /\ ReplayReproduces
  BY DEF Faithful
<1>2. ASSUME mode' \in {"missed", "mismatch"} => Excepted'
      PROVE  ReplayReproduces'
  BY <1>2, ReproducesOtherwise
<1>3. mode' \notin {"missed", "mismatch"} => ReplayReproduces'
  BY ReproducesOtherwise
<1>4. ASSUME mode \in {"bare", "live"}, mode' = mode, LiveSound'
      PROVE  Faithful'
  BY <1>4 DEF Faithful, ReplaySound, ReplayReproduces
<1>5. CASE UNCHANGED vars
  <2>1. /\ UNCHANGED <<work, scope, run, mode, asked, trace, left, kept, past, seenAs>>
    BY <1>5 DEF vars
  <2>2. Excepted' = Excepted
    BY <2>1 DEF Excepted
  <2>3. /\ PastSound => PastSound'
        /\ \A t \in Threads : Last(t)' = Last(t) /\ Final(t)' = Final(t)
    BY <2>1, SamePast
  <2>4. (\A t \in Threads : CurrentAt(t)) => \A t \in Threads : CurrentAt(t)'
    BY <2>1, <2>3 DEF CurrentAt
  <2>5. Engined => Engined'
    <3>1. RefusalKnown' = RefusalKnown /\ Useless' = Useless
      BY <2>1 DEF RefusalKnown, SearchRefused, Useless, Output
    <3>2. \A t \in Tasks : Last(t)' = Last(t)
      BY <2>1 DEF Last
    <3> QED
      BY <2>1, <3>1, <3>2 DEF Engined, Raised, Tells
  <2>6. LiveSound'
    BY <1>1, <2>1, <2>3, <2>4, <2>5 DEF LiveSound
  <2>7. /\ KeptSound => KeptSound'
        /\ JoinedEnd => JoinedEnd'
        /\ RefusalRecorded' = RefusalRecorded
    BY <2>1, SameKept
  <2>8. Located => Located'
    BY <2>1 DEF Located, AtState, LeftBy, Rest, Last
  <2>9. SameButRequests' = SameButRequests
    BY <2>1 DEF SameButRequests, Outcome, Report, Requests
  <2>10. Replayed => Replayed'
    BY <2>1, <2>7, <2>9 DEF Replayed
  <2>11. ReplaySound'
    BY <1>1, <2>1, <2>2, <2>7, <2>8, <2>10 DEF ReplaySound
  <2> QED
    BY <1>1, <2>1, <2>2, <2>6, <2>9, <2>11, ReproducesOtherwise DEF Faithful
<1>6. ASSUME NEW t \in Threads, Ask(t)
      PROVE  Faithful'
  <2>1. mode \in {"bare", "live"} /\ mode' = mode
    BY <1>6 DEF Ask
  <2> QED
    BY <1>1, <1>4, <1>6, <2>1, AskLive
<1>7. ASSUME NEW t \in Threads, Number(t)
      PROVE  Faithful'
  <2>1. mode \in {"bare", "live"} /\ mode' = mode
    BY <1>7 DEF Number
  <2> QED
    BY <1>1, <1>4, <1>7, <2>1, NumberLive
<1>8. ASSUME NEW t \in Threads, Use(t)
      PROVE  Faithful'
  <2>1. mode \in {"bare", "live"} /\ mode' = mode
    BY <1>8, UseStep DEF FirstRun
  <2> QED
    BY <1>1, <1>4, <1>8, <2>1, UseLive
<1>9. ASSUME NEW t \in Threads, AskReplay(t)
      PROVE  Faithful'
  <2>1. LiveSound'
    BY <1>9, AskReplayStep DEF LiveSound
  <2>2. ~ Excepted' => mode' = "replay" /\ KeptSound' /\ Located' /\ Replayed'
    BY <1>1, <1>9, AskReplaySound
  <2> QED
    BY <1>2, <2>1, <2>2 DEF Faithful, ReplaySound
<1>10. ASSUME mode' = mode, mode \in {"bare", "live", "replay"}, LiveSound', ReplaySound'
       PROVE  Faithful'
  BY <1>3, <1>10 DEF Faithful
<1>11. ASSUME NEW t \in Threads, Break(t)
       PROVE  Faithful'
  <2>1. mode' = mode /\ mode \in {"bare", "live", "replay"}
    BY <1>11 DEF Break, Running
  <2> QED
    BY <1>1, <1>10, <1>11, <2>1, BreakLive, BreakReplaySound
<1>12. CASE Engine
  <2>1. mode' = mode /\ mode \in {"bare", "live", "replay"}
    BY <1>12 DEF Engine, Running
  <2> QED
    BY <1>1, <1>10, <1>12, <2>1, EngineLive, EngineReplaySound
<1>13. CASE Replay
  <2>1. mode' # "live"
    BY <1>13 DEF Replay
  <2> QED
    BY <1>1, <1>3, <1>13, <2>1, ReplayStarts DEF Faithful, LiveSound
<1>14. CASE Verdict
  <2>1. mode' # "live"
    BY <1>14 DEF Verdict
  <2> QED
    BY <1>1, <1>14, <2>1, VerdictSound DEF Faithful, LiveSound, ReplaySound
<1> QED
  BY <1>5, <1>6, <1>7, <1>8, <1>9, <1>11, <1>12, <1>13, <1>14 DEF Next

(* A strict replay gives every thread the answers its recording had and    *)
(* ends as the recorded run did, in its status, in the refusal that ended  *)
(* it, in its phase and in its report, except where requests of two        *)
(* branches share a queue and are served in the other order; the refusal   *)
(* of a disclosure was hidden by another's; a retry was deferred; the run  *)
(* ended over its allowance at the join, where no branch raised a refusal; *)
(* different refusals were raised, of which either may surface; or all     *)
(* that differs are the requests made, which the report of a run that      *)
(* ended over its allowance prints outside the finance pack                *)
(* (trajectory_replay.py:300-700, 1012-1062, engine.py:634-669).           *)
THEOREM ReplayIsFaithful == Spec => []ReplayReproduces
<1>1. Init => Faithful
  BY InitFaithful
<1>2. Base /\ Faithful /\ [Next]_vars => Faithful'
  BY NextFaithful
<1>3. Faithful => ReplayReproduces
  BY DEF Faithful
<1> QED
  BY <1>1, <1>2, <1>3, BaseInvariant, PTL DEF Spec
=============================================================================
