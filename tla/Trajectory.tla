----------------------------- MODULE Trajectory -----------------------------
(***************************************************************************)
(* A run of the research fan-out, and its recording: TrajectoryRecorder    *)
(* numbers and appends the calls of parallel branches, and strict replay   *)
(* runs the same researcher again over the recorded answers, which the     *)
(* replay providers hand out in the order of the trace.  Without the tool  *)
(* contract (TOOL_CONTRACT_ENABLED) a run counts its searches and records  *)
(* none; with it the run is recorded.                                      *)
(***************************************************************************)
EXTENDS Researcher, FiniteSetsExt

CONSTANT finance_pack   \* settings.domain_pack is the finance pack, the default

ASSUME PackAssumption == finance_pack \in BOOLEAN

VARIABLES
  mode,     \* "bare" or "live" run, "replay", or what came of the trace
  asked,    \* the call of each thread that is answered but not recorded yet
  trace,    \* trajectory.tool_calls
  left,     \* recorded calls the replay has not consumed
  kept,     \* the outcome of the recorded run
  shown,    \* history: the calls each thread made and their answers
  past,     \* history: the states of each thread in the recorded run, each with
            \*   the place in the trace of the call that led to it, or 0
  seenAs    \* history: what happened that a replay cannot repeat

research == <<work, scope, run>>
vars == <<work, scope, run, mode, asked, trace, left, kept, shown, past, seenAs>>

NoCall == [call |-> Call("none", "", 0), by |-> "none", sequence |-> 0, answer |-> "none"]

NoOutcome == [phase |-> "research", detail |-> "none", joined |-> FALSE, deferred |-> FALSE,
              report |-> [t \in Threads |-> {}], requests |-> <<>>]

Nothing == [overlap |-> FALSE, hidden |-> FALSE, repeated |-> FALSE, reordered |-> FALSE,
            unraised |-> FALSE, either |-> FALSE]

State(w, i) == [work |-> w, from |-> i]

(* The threads of a recorded run that go on to another state. *)
Remember(threads, i) ==
  past' = [t \in Threads |->
    IF mode = "live" /\ t \in threads THEN Append(past[t], State(work'[t], i)) ELSE past[t]]

Init ==
  /\ work = FreshResearch /\ scope = NewScope /\ run = NewRun
  /\ mode \in {"bare", "live"}
  /\ asked = [t \in Threads |-> NoCall]
  /\ trace = <<>> /\ left = {} /\ kept = NoOutcome
  /\ shown = [t \in Threads |-> {}] /\ seenAs = Nothing
  /\ past = [t \in Threads |-> <<State(work[t], 0)>>]

Note(what, holds) == seenAs' = [seenAs EXCEPT ![what] = @ \/ holds]

Running == mode \in {"bare", "live", "replay"}

---------------------------------------------------------------------------
(* The recorder. *)

(* Mutant: the calls are numbered apart by tool. *)
SequenceByTool(t) ==
  1 + Cardinality({i \in DOMAIN trace : trace[i].call[1] = CallOf(t)[1]})

(* _next_trace_fields: one more than the highest number appended so far,   *)
(* read without a lock.  The counter it also looks at is stored and the    *)
(* call appended in one step, Use.                                         *)
NextSequence(t) == 1 + Max({0} \cup {trace[i].sequence : i \in DOMAIN trace})

(* Mutant: a call that was refused is not recorded. *)
RecordedIfAnswered(t) ==
  IF mode = "live" /\ asked[t].answer \notin Refusals THEN Append(trace, asked[t]) ELSE trace

Recorded(t) == IF mode = "live" THEN Append(trace, asked[t]) ELSE trace

(* validate_strict_replay_trajectory: the numbers are those from 1 on. *)
Contiguous == {trace[i].sequence : i \in DOMAIN trace} = DOMAIN trace

---------------------------------------------------------------------------
(* The providers of a run. *)

Ask(t) ==
  LET counts == mode = "bare" lane == Lane(t) IN
  /\ mode \in {"bare", "live"} /\ asked[t] = NoCall
  /\ Asks(t) /\ MayCall(t, counts)
  /\ work' = [work EXCEPT ![t] = ChargedWork(t)]
  /\ \E n \in RequestsOf(t), answer \in Answers(t) \cup RefusalsOf(lane) :
       /\ answer \in Refusals <=> ~ Fits(lane, n)
       /\ scope' = Taken(ChargedScope(t, counts), lane, n, answer)
       /\ asked' = [asked EXCEPT ![t] =
            [call |-> CallOf(t), by |-> t, sequence |-> 0, answer |-> answer]]
       /\ Note("repeated", t \in Tasks /\ n > 1)
  /\ UNCHANGED <<run, mode, trace, left, kept, shown, past>>

(* The recorder numbers the call, ... *)
Number(t) ==
  /\ mode = "live" /\ asked[t] # NoCall /\ asked[t].sequence = 0
  /\ asked' = [asked EXCEPT ![t].sequence = NextSequence(t)]
  /\ Note("overlap", \E u \in Threads : asked[u].sequence > 0)
  /\ UNCHANGED <<research, mode, trace, left, kept, shown, past>>

(* The disclosure source raises on a refusal only while that is the last   *)
(* one of the run, and otherwise returns nothing.                          *)
Hidden(t) ==
  /\ work[t].at = "disclosure" /\ asked[t].answer \in Refusals
  /\ scope.refusal \notin RefusalsOf("authority")

(* ... and appends it, before its answer is used. *)
Use(t) ==
  /\ asked[t] # NoCall /\ (mode = "live" => asked[t].sequence > 0)
  /\ trace' = Recorded(t)
  /\ work' = [work EXCEPT ![t] =
       AfterAnswer(t, @, IF Hidden(t) THEN "none" ELSE asked[t].answer)]
  /\ asked' = [asked EXCEPT ![t] = NoCall]
  /\ shown' = [shown EXCEPT ![t] = @ \cup {<<asked[t].call, asked[t].answer>>}]
  /\ Remember({t}, Len(trace) + 1)
  /\ Note("hidden", Hidden(t))
  /\ UNCHANGED <<scope, run, mode, left, kept>>

Break(t) ==
  /\ Running /\ asked[t] = NoCall /\ Asks(t)
  /\ ~ MayCall(t, mode = "bare")
  /\ work' = [work EXCEPT ![t] = BreakOff(t, @)]
  /\ Remember({t}, 0)
  /\ UNCHANGED <<scope, run, mode, asked, trace, left, kept, shown, seenAs>>

Engine ==
  /\ Running
  /\ Join \/ Conclude
  /\ Remember(run'.active \ run.active, 0)
  /\ UNCHANGED <<mode, asked, trace, left, kept, shown, seenAs>>

---------------------------------------------------------------------------
(* Strict replay. *)

Over == run.phase \in {"completed", "budget_exceeded"}

(* What the report is made of: what was joined, and the retries' sources.  *)
Report ==
  [t \in Threads |->
     IF (t \in Branches /\ run.joined) \/ (t \in Tasks /\ run.phase = "completed")
     THEN work[t].seen ELSE {}]

(* Outside the finance pack the partial report of a run that ended over    *)
(* its allowance prints the requests the run has made.                     *)
Requests ==
  IF run.phase = "budget_exceeded" /\ ~ finance_pack
  THEN <<scope.search, scope.fetch, scope.authority>> ELSE <<>>

(* What the comparison sees: the termination (its status, the refusal that *)
(* surfaced or that the join tells, and whether the retries were reached)  *)
(* and the report.                                                         *)
Outcome ==
  [phase |-> run.phase, detail |-> run.detail, joined |-> run.joined,
   deferred |-> run.joined /\ run.active # Tasks, report |-> Report, requests |-> Requests]

(* The outcome is that of the recorded run but for these requests.         *)
SameButRequests == \A field \in DOMAIN kept \ {"requests"} : Outcome[field] = kept[field]

(* The join ended the run, and no branch; or two refusals were raised, and *)
(* either could have ended it.                                             *)
Unraised == run.phase = "budget_exceeded" /\ RaisedBy(Threads) = {}
Either == \E s, t \in RaisedBy(Threads) : work[s].error # work[t].error

(* A trace that is not sound is refused; otherwise the run starts again    *)
(* from its plan.                                                          *)
Replay ==
  /\ mode = "live" /\ Over
  /\ kept' = Outcome
  /\ IF Contiguous
     THEN /\ mode' = "replay" /\ left' = DOMAIN trace
          /\ work' = FreshResearch /\ scope' = NewScope /\ run' = NewRun
     ELSE mode' = "rejected" /\ UNCHANGED <<research, left>>
  /\ shown' = [t \in Threads |-> {}]
  /\ seenAs' = [seenAs EXCEPT !.unraised = Unraised, !.either = Either]
  /\ UNCHANGED <<asked, trace, past>>

(* rag and disclosure have one queue each, whose head is compared with the *)
(* request; searches and fetches have a queue for each request.            *)
Compared(c) == c[1] \in {"rag", "disclosure"}

Queue(c) ==
  {i \in left : trace[i].call[1] = c[1] /\ (Compared(c) \/ trace[i].call = c)}

First(c) == CHOOSE i \in Queue(c) : \A j \in Queue(c) : i <= j

(* A recorded refusal is taken off the replay's own allowance. *)
Repeated(t, answer) ==
  IF answer \in Refusals /\ work[t].at # "disclosure"
  THEN Taken(scope, Lane(t), 1, answer) ELSE scope

(* A replay answers a call at once. *)
AskReplay(t) ==
  LET c == CallOf(t) i == First(c) IN
  /\ mode = "replay" /\ Asks(t) /\ MayCall(t, FALSE)
  /\ IF Queue(c) = {} \/ trace[i].call # c
     THEN /\ mode' = "missed"
          /\ Note("reordered", Queue(c) # {})
          /\ UNCHANGED <<work, scope, left>>
     ELSE /\ work' = [work EXCEPT ![t] = AfterAnswer(t, ChargedWork(t), trace[i].answer)]
          /\ scope' = Repeated(t, trace[i].answer)
          /\ left' = left \ {i}
          /\ Note("reordered", trace[i].by # t)
          /\ UNCHANGED mode
  /\ UNCHANGED <<run, asked, trace, kept, shown, past>>

(* assert_exhausted, and the comparison with the recorded run. *)
Verdict ==
  /\ mode = "replay" /\ Over
  /\ mode' = IF left # {} THEN "missed" ELSE IF Outcome = kept THEN "reproduced" ELSE "mismatch"
  /\ UNCHANGED <<research, asked, trace, left, kept, shown, past, seenAs>>

---------------------------------------------------------------------------
Next ==
  \/ \E t \in Threads : Ask(t) \/ Number(t) \/ Use(t) \/ AskReplay(t) \/ Break(t)
  \/ Engine \/ Replay \/ Verdict

Spec == Init /\ [][Next]_vars

---------------------------------------------------------------------------
(* Types of the variables. *)
Calls == {"rag", "disclosure", "typed", "untyped", "fetch"} \X STRING \X Nat
AnswersOf == {"found", "none", "rejected", "primary"} \cup Refusals
Traces == [call : Calls, by : Threads, sequence : Nat, answer : AnswersOf]
WorkStates ==
  [at : {"off", "rag", "disclosure", "priority", "search", "widen", "fetch", "done", "raised"},
   next : Nat, rank : Nat, calls : Nat, exhausted : BOOLEAN, refused : BOOLEAN,
   error : {"none"} \cup Refusals, hydrated : BOOLEAN, seen : SUBSET Calls]

TypeOK ==
  /\ work \in [Threads -> WorkStates]
  /\ scope \in [quota : 0..max_searches, search : 0..max_search_requests,
                fetch : 0..max_fetch_requests, authority : 0..max_authority_requests,
                refusal : {"none"} \cup Refusals]
  /\ run.phase \in {"research", "retry", "completed", "budget_exceeded"}
  /\ run.active \subseteq Tasks
  /\ mode \in {"bare", "live", "rejected", "replay", "missed", "mismatch", "reproduced"}
  /\ asked \in [Threads -> Traces \cup {NoCall}]
  /\ trace \in Seq(Traces) /\ left \subseteq DOMAIN trace

(* What a branch was shown to have found and did not drop for its body: of *)
(* a search, the first source it ranked at least.                          *)
Answered(t, answers) == {e[1] : e \in {f \in shown[t] : f[2] \in answers}}
Searched(c) == c[1] \in {"typed", "untyped"}
FoundBy(b) ==
  {IF Searched(c) THEN Call("fetch", c[2], 1) ELSE c : c \in Answered(b, {"found", "primary"})}
    \ Answered(b, {"rejected"})

(* A refused request costs a branch nothing it has found: all of it is     *)
(* joined, and a run ends over its allowance only with nothing to join, or *)
(* when the disclosure source, a prior url or a retry is refused, which    *)
(* nobody catches (agents/researcher.py:108-118, nodes/research.py:402).   *)
Uncaught(t) ==
  t \in Tasks \/ \E c \in Answered(t, Refusals) :
    c[1] = "disclosure" \/ \E i \in DOMAIN ByQuestion[t].urls : c[2] = ByQuestion[t].urls[i]

RefusalKeepsWork ==
  mode \in {"bare", "live"} =>
    /\ run.joined => \A b \in Branches : FoundBy(b) \subseteq work[b].seen
    /\ run.phase = "budget_exceeded" =>
         \/ ~ run.joined /\ \A b \in Branches : FoundBy(b) = {}
         \/ \E t \in Threads : work[t].at = "raised" /\ Uncaught(t)

(* Prior urls never use up a branch's allocation: one that has a query and *)
(* a call for it besides the disclosure's has searched for it when it is   *)
(* done, unless the run's quota of searches is used up, whatever the other *)
(* branches took meanwhile (agents/researcher.py:224-236).                 *)
Reserved(b) == Limit(b) >= (IF ByQuestion[b].disclosure = "none" THEN 1 ELSE 2)

QueryReserved ==
  mode \in {"bare", "live"} /\ ~ QuotaSpent(mode = "bare") => \A b \in Branches :
    work[b].at = "done" /\ ByQuestion[b].queries # <<>> /\ Reserved(b) =>
      \E c \in Answered(b, AnswersOf) : Searched(c)

(* A scheduled retry is refused, and the run with it, only if a search of  *)
(* a retry took more than one request: two are reckoned for each task, the *)
(* second for the search without a source type (nodes/retry.py:14-36).     *)
RetriesFit ==
  (\E t \in Tasks : work[t].at = "raised") => seenAs.repeated

(* A recording is refused for its numbers only if two calls were at the    *)
(* recorder at once (trajectory.py:194-222, 470-475).                      *)
TraceAccepted == mode = "rejected" => seenAs.overlap

(* Replay misses an answer or ends otherwise than the recorded run, in its *)
(* status, in the refusal that ended it, in its phase or in its report,    *)
(* only where requests of two branches share a queue (rag, disclosures, or *)
(* the same search or fetch) and replay serves them in the other order;    *)
(* the refusal of a disclosure was hidden by another's; a retry was        *)
(* deferred; the run ended over its allowance at the join; two branches    *)
(* raised different refusals; or all that differs are the requests made,   *)
(* which the report of such a run prints outside the finance pack          *)
(* (trajectory_replay.py:300-700, 1012-1062, nodes/research.py:402,        *)
(* nodes/retry.py:31, engine.py:634-669).                                  *)
ReplayReproduces ==
  mode \in {"missed", "mismatch"} =>
    \/ seenAs.reordered \/ seenAs.hidden \/ kept.deferred
    \/ seenAs.unraised \/ seenAs.either
    \/ mode = "mismatch" /\ ~ finance_pack /\ SameButRequests
=============================================================================
