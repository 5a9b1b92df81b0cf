------------------------ MODULE ToolExecutionProofs ------------------------
(***************************************************************************)
(* Theorems about ToolExecution for any number of callers and workers and  *)
(* any limits.                                                             *)
(***************************************************************************)
EXTENDS ToolExecution, FiniteSetTheorems, TLAPS

---------------------------------------------------------------------------
(* Sizes of finite sets. *)

LEMMA SetsFinite ==
  /\ \A S \in SUBSET Callers : IsFiniteSet(S) /\ Cardinality(S) \in Nat
  /\ \A S \in SUBSET Workers : IsFiniteSet(S) /\ Cardinality(S) \in Nat
BY ExecutionAssumption, FS_Subset, FS_CardinalityType

(* Gaining at most one element, and gaining or losing exactly one. *)
LEMMA SizeGrows ==
  ASSUME NEW S, NEW T, NEW x, IsFiniteSet(S), T \subseteq S \cup {x}
  PROVE  /\ IsFiniteSet(T) /\ Cardinality(T) <= Cardinality(S) + 1
         /\ Cardinality(S) \in Nat /\ Cardinality(T) \in Nat
<1>1. IsFiniteSet(S \cup {x}) /\ Cardinality(S \cup {x}) <= Cardinality(S) + 1
      /\ Cardinality(S) \in Nat
  BY FS_AddElement, FS_CardinalityType
<1> QED
  BY <1>1, FS_Subset, FS_CardinalityType

LEMMA SizeSteps ==
  ASSUME NEW S, NEW x, IsFiniteSet(S)
  PROVE  /\ x \in S => Cardinality(S \ {x}) = Cardinality(S) - 1
         /\ x \notin S => Cardinality(S \cup {x}) = Cardinality(S) + 1
BY FS_AddElement, FS_RemoveElement

---------------------------------------------------------------------------
(* The parts of the inductive invariant, each inductive given TypeOK. *)

(* Calls that still owe their first or their retried attempt.              *)
Owing == {c \in Callers : caller[c].at \in {"entered", "ready"}}
AttemptsOwed == attempts + Cardinality(Owing) <= calls + consumed

(* After a late request the operation does nothing but end.                *)
LateIsLast ==
  \A w \in Workers : op[w].tool = "disclosure" =>
    /\ op[w].late <= 1
    /\ op[w].late > 0 => op[w].scope = "cancelled" /\ op[w].at = "working"

---------------------------------------------------------------------------
(* Type correctness. *)

LEMMA InitTypeOK == Init => TypeOK
BY ExecutionAssumption
DEF Init, TypeOK, NewBreaker, NewCall, Free, Tools, Breakers, CallStates, Operations

LEMMA BreakerTyped ==
  ASSUME NEW b \in Breakers
  PROVE  /\ AfterSuccess(b) \in Breakers
         /\ AfterFailure(b) \in Breakers
         /\ Allows(b) => AfterAllow(b) \in Breakers
         /\ [b EXCEPT !.cooldown = "over"] \in Breakers
<1>0. half_open_max_calls \in Nat \ {0} /\ failure_threshold \in Nat \ {0}
  BY ExecutionAssumption
<1>1. AfterSuccess(b) \in Breakers
  BY <1>0 DEF AfterSuccess, NewBreaker, Breakers
<1>2. AfterFailure(b) \in Breakers
  BY <1>0 DEF AfterFailure, Opened, Breakers
<1>3. Allows(b) => AfterAllow(b) \in Breakers
  BY <1>0 DEF AfterAllow, Allows, Breakers
<1>4. [b EXCEPT !.cooldown = "over"] \in Breakers
  BY <1>0 DEF Breakers
<1> QED
  BY <1>1, <1>2, <1>3, <1>4

LEMMA NextTypeOK ==
  ASSUME TypeOK, [Next]_vars
  PROVE  TypeOK'
<1> USE ExecutionAssumption DEF TypeOK
<1>0. ASSUME NEW c \in Callers PROVE BreakerOf(c) \in Breakers
  BY DEF BreakerOf, CallStates
<1>1. ASSUME NEW c \in Callers, NEW t \in Tools, Enter(c, t) PROVE TypeOK'
  <2>1. \A r \in CallStates :
          [r EXCEPT !.at = "entered"] \in CallStates /\ [r EXCEPT !.tool = t] \in CallStates
    BY DEF CallStates
  <2>2. [caller[c] EXCEPT !.at = "entered", !.tool = t] \in CallStates
    BY <2>1
  <2>3. caller' = [caller EXCEPT ![c] = [caller[c] EXCEPT !.at = "entered", !.tool = t]]
    BY <1>1 DEF Enter
  <2> QED
    BY <1>1, <2>2, <2>3 DEF Enter, history
<1>2. ASSUME NEW c \in Callers, Admit(c) PROVE TypeOK'
  <2>1. AfterAllow(BreakerOf(c)) \in Breakers /\ caller[c].tool \in Tools
    BY <1>0, <1>2, BreakerTyped DEF Admit, CallStates
  <2>2. caller' \in [Callers -> CallStates]
    BY <1>2 DEF Admit, GoTo, CallStates
  <2> QED
    BY <1>2, <2>1, <2>2 DEF Admit, Record, history
<1>3. ASSUME NEW c \in Callers, Return(c) PROVE caller' \in [Callers -> CallStates]
  BY <1>3 DEF Return, NewCall, CallStates, Tools
<1>4. ASSUME NEW c \in Callers, FastFail(c) PROVE TypeOK'
  BY <1>3, <1>4 DEF FastFail, history
<1>5. ASSUME NEW c \in Callers, NEW w \in Workers, Attempt(c, w) PROVE TypeOK'
  <2>1. caller' \in [Callers -> CallStates]
    BY <1>5 DEF Attempt, CallStates
  <2>2. op' \in [Workers -> Operations]
    BY <1>5 DEF Attempt, Free, Operations, CallStates
  <2> QED
    BY <1>5, <2>1, <2>2 DEF Attempt, history
<1>6. ASSUME NEW c \in Callers, Record(c, AfterFailure(BreakerOf(c)))
             \/ Record(c, AfterSuccess(BreakerOf(c)))
      PROVE  breaker' \in [Tools -> Breakers]
  <2>1. PICK b \in Breakers : Record(c, b)
    BY <1>0, <1>6, BreakerTyped
  <2>2. caller[c].tool \in Tools
    BY DEF CallStates
  <2> QED
    BY <2>1, <2>2 DEF Record
<1>7. ASSUME NEW c \in Callers, AttemptRefused(c) \/ Succeed(c) \/ Fail(c) PROVE TypeOK'
  BY <1>3, <1>6, <1>7 DEF AttemptRefused, Succeed, Fail, history
<1>8. ASSUME NEW c \in Callers, TimeOut(c) PROVE TypeOK'
  <2> DEFINE w == caller[c].worker
             r == [op[w] EXCEPT !.scope = "cancelled",
                                !.at = IF @ = "queued" THEN "lost" ELSE @]
  <2>1. op' \in [Workers -> Operations]
    <3>1. op' = [op EXCEPT ![w] = r]
      BY <1>8 DEF TimeOut
    <3>2. \A o \in Operations :
            /\ [o EXCEPT !.scope = "cancelled"] \in Operations
            /\ \A p \in Operations : [o EXCEPT !.at = IF p.at = "queued" THEN "lost" ELSE p.at]
                                     \in Operations
      BY DEF Operations
    <3>3. w \in Workers => r \in Operations
      BY <3>2
    <3> HIDE DEF w, r
    <3> QED
      BY <3>1, <3>3
  <2>2. caller' \in [Callers -> CallStates]
    BY <1>3, <1>8, SMTT(60) DEF TimeOut, GoTo, CallStates
  <2> QED
    BY <1>6, <1>8, <2>1, <2>2 DEF TimeOut, history
<1>9. ASSUME NEW c \in Callers, Quarantine(c) PROVE TypeOK'
  BY <1>3, <1>9 DEF Quarantine, CallStates, history
<1>10. ASSUME NEW c \in Callers, Retry(c) PROVE TypeOK'
  BY <1>10 DEF Retry, GoTo, CallStates, history
<1>11. ASSUME NEW w \in Workers, Begin(w) \/ Clear(w) PROVE TypeOK'
  BY <1>11 DEF Begin, Clear, Operations, history
<1>12. ASSUME NEW w \in Workers, Charge(w) PROVE TypeOK'
  <2>1. op' \in [Workers -> Operations] /\ op[w].tool \in Tools
    BY <1>12, SMTT(60) DEF Charge, Operations
  <2> QED
    BY <1>12, <2>1 DEF Charge, history
<1>13. ASSUME NEW w \in Workers, Send(w) PROVE TypeOK'
  <2>1. op' \in [Workers -> Operations] /\ op[w].tool \in Tools
    BY <1>13 DEF Send, Operations
  <2> QED
    BY <1>13, <2>1 DEF Send, history
<1>14. ASSUME NEW w \in Workers, End(w) \/ EndRefused(w) \/ EndCancelled(w) PROVE TypeOK'
  <2>1. PICK outcome \in {"ok", "retryable", "fatal"} : Finish(w, outcome)
    BY <1>14 DEF End, EndRefused, EndCancelled, Outcomes
  <2>2. op' \in [Workers -> Operations]
    BY <2>1 DEF Finish, Free, Operations, Tools
  <2>3. \A r \in CallStates :
          /\ [r EXCEPT !.worker = None] \in CallStates
          /\ [r EXCEPT !.at = "answered"] \in CallStates
          /\ [r EXCEPT !.outcome = outcome] \in CallStates
    BY DEF CallStates
  <2>4. \A c \in Callers :
          [caller[c] EXCEPT !.at = "answered", !.worker = None, !.outcome = outcome] \in CallStates
    BY <2>3
  <2>5. caller' \in [Callers -> CallStates]
    BY <2>1, <2>3, <2>4 DEF Finish
  <2> QED
    BY <2>1, <2>2, <2>5 DEF Finish, history
<1>15. ASSUME NEW t \in Tools, CooldownElapses(t) PROVE TypeOK'
  <2>1. [breaker[t] EXCEPT !.cooldown = "over"] \in Breakers
    BY BreakerTyped
  <2>2. breaker' = [breaker EXCEPT ![t] = [breaker[t] EXCEPT !.cooldown = "over"]]
    BY <1>15 DEF CooldownElapses
  <2> QED
    BY <1>15, <2>1, <2>2 DEF CooldownElapses, history
<1>16. CASE UNCHANGED vars
  BY <1>16 DEF vars, history
<1> QED
  BY <1>1, <1>2, <1>4, <1>5, <1>7, <1>8, <1>9, <1>10, <1>11, <1>12, <1>13, <1>14, <1>15, <1>16
  DEF Next, CallerStep, WorkerStep

---------------------------------------------------------------------------
(* Each other part is kept by a step from a state where TypeOK holds.      *)

LEMMA LateKept ==
  ASSUME TypeOK, LateIsLast, [Next]_vars
  PROVE  LateIsLast'
<1> USE DEF LateIsLast
<1>0. \A w \in Workers : op[w].late \in Nat
  BY DEF TypeOK, Operations
<1>1. ASSUME NEW c \in Callers, NEW w \in Workers, Attempt(c, w) PROVE LateIsLast'
  BY <1>1 DEF Attempt, Free, TypeOK
<1>2. ASSUME NEW c \in Callers, TimeOut(c) PROVE LateIsLast'
  BY <1>2 DEF TimeOut, TypeOK, Operations
<1>3. ASSUME NEW w \in Workers, Begin(w) \/ Clear(w) PROVE LateIsLast'
  BY <1>0, <1>3 DEF Begin, Clear, TypeOK, Operations
<1>4. ASSUME NEW w \in Workers, Charge(w) PROVE LateIsLast'
  BY <1>0, <1>4 DEF Charge, Stops, TypeOK, Operations
<1>5. ASSUME NEW w \in Workers, Send(w) PROVE LateIsLast'
  BY <1>0, <1>5 DEF Send, TypeOK, Operations
<1>6. ASSUME NEW w \in Workers, NEW outcome, Finish(w, outcome) PROVE LateIsLast'
  <2>1. \A v \in Workers : op'[v] = IF v = w THEN Free ELSE op[v]
    BY <1>6 DEF Finish, TypeOK
  <2>2. Free.tool # "disclosure"
    BY DEF Free
  <2> HIDE DEF Free
  <2> QED
    BY <2>1, <2>2
<1>7. CASE UNCHANGED op
  BY <1>7
<1> QED
  BY <1>1, <1>2, <1>3, <1>4, <1>5, <1>6, <1>7
  DEF Next, CallerStep, WorkerStep, Enter, Admit, FastFail, AttemptRefused, Quarantine, Succeed,
      Fail, Retry, End, EndRefused, EndCancelled, CooldownElapses, vars

LEMMA AttemptsKept ==
  ASSUME TypeOK, AttemptsOwed, [Next]_vars
  PROVE  AttemptsOwed'
<1> USE DEF TypeOK
<1>0. /\ attempts \in Nat /\ calls \in Nat /\ consumed \in Nat
      /\ IsFiniteSet(Owing) /\ Cardinality(Owing) \in Nat
      /\ IsFiniteSet(Owing') /\ Cardinality(Owing') \in Nat
  BY SetsFinite, ExecutionAssumption DEF Owing
<1>1. ASSUME Owing' \subseteq Owing, UNCHANGED <<attempts, calls, consumed>>
      PROVE  AttemptsOwed'
  <2>1. Cardinality(Owing') <= Cardinality(Owing)
    BY <1>0, <1>1, FS_Subset
  <2> QED
    BY <1>0, <1>1, <2>1 DEF AttemptsOwed
<1>2. ASSUME NEW c \in Callers, NEW t \in Tools, Enter(c, t) PROVE AttemptsOwed'
  <2>1. Owing' \subseteq Owing \cup {c}
    BY <1>2 DEF Enter, Owing
  <2>2. Cardinality(Owing') <= Cardinality(Owing) + 1
    BY <1>0, <2>1, SizeGrows
  <2> QED
    BY <1>0, <1>2, <2>2 DEF AttemptsOwed, Enter
<1>3. ASSUME NEW c \in Callers, NEW w \in Workers, Attempt(c, w) PROVE AttemptsOwed'
  <2>1. Owing' = Owing \ {c} /\ c \in Owing
    BY <1>3 DEF Attempt, Owing, CallStates
  <2>2. Cardinality(Owing') = Cardinality(Owing) - 1
    BY <1>0, <2>1, SizeSteps
  <2> QED
    BY <1>0, <1>3, <2>2 DEF AttemptsOwed, Attempt
<1>4. ASSUME NEW c \in Callers, Retry(c) PROVE AttemptsOwed'
  <2>1. Owing' \subseteq Owing \cup {c}
    BY <1>4 DEF Retry, GoTo, Owing
  <2>2. Cardinality(Owing') <= Cardinality(Owing) + 1
    BY <1>0, <2>1, SizeGrows
  <2> QED
    BY <1>0, <1>4, <2>2 DEF AttemptsOwed, Retry, history
<1>5. ASSUME NEW c \in Callers, Return(c) PROVE Owing' \subseteq Owing
  BY <1>5 DEF Return, NewCall, Owing
<1>6. ASSUME NEW c \in Callers,
             Admit(c) \/ FastFail(c) \/ AttemptRefused(c) \/ TimeOut(c) \/ Quarantine(c)
             \/ Succeed(c) \/ Fail(c)
      PROVE  AttemptsOwed'
  <2>1. CASE Admit(c)
    BY <1>1, <2>1 DEF Admit, GoTo, Owing, history
  <2>2. CASE TimeOut(c)
    <3>1. GoTo(c, "detached") => Owing' \subseteq Owing
      BY DEF GoTo, Owing
    <3> QED
      BY <1>1, <1>5, <2>2, <3>1 DEF TimeOut, history
  <2> QED
    BY <1>1, <1>5, <1>6, <2>1, <2>2
    DEF FastFail, AttemptRefused, Quarantine, Succeed, Fail, history
<1>7. ASSUME NEW w \in Workers, NEW outcome, Finish(w, outcome) PROVE AttemptsOwed'
  <2>1. \A c \in Callers : caller'[c].at \in {"entered", "ready"} => caller'[c].at = caller[c].at
    BY <1>7 DEF Finish, CallStates
  <2>2. Owing' \subseteq Owing
    BY <2>1 DEF Owing
  <2> QED
    BY <1>1, <1>7, <2>2 DEF Finish, history
<1>8. CASE UNCHANGED <<caller, attempts, calls, consumed>>
  BY <1>1, <1>8 DEF Owing
<1> QED
  BY <1>2, <1>3, <1>4, <1>6, <1>7, <1>8, Zenon
  DEF Next, CallerStep, WorkerStep, Begin, Charge, Clear, Send, End, EndRefused, EndCancelled,
      CooldownElapses, history, vars

LEMMA RequestsKept ==
  ASSUME TypeOK, RequestsAreCharged, [Next]_vars
  PROVE  RequestsAreCharged'
<1> USE DEF TypeOK
<1>0. ASSUME NEW t \in Tools
      PROVE  /\ sent[t] \in Nat /\ accepted[t] \in Nat
             /\ IsFiniteSet(Pending(t)) /\ Cardinality(Pending(t)) \in Nat
             /\ IsFiniteSet(Pending(t)') /\ Cardinality(Pending(t)') \in Nat
  BY SetsFinite DEF Pending
<1>1. ASSUME UNCHANGED <<sent, accepted>>, \A t \in Tools : Pending(t)' \subseteq Pending(t)
      PROVE  RequestsAreCharged'
  <2>1. \A t \in Tools : Cardinality(Pending(t)') <= Cardinality(Pending(t))
    BY <1>0, <1>1, FS_Subset
  <2> QED
    BY <1>0, <1>1, <2>1 DEF RequestsAreCharged
<1>2. ASSUME NEW c \in Callers, NEW w \in Workers, Attempt(c, w) PROVE RequestsAreCharged'
  BY <1>1, <1>2 DEF Attempt, Free, Pending, history
<1>3. ASSUME NEW c \in Callers, TimeOut(c) PROVE RequestsAreCharged'
  <2>1. \A v \in Workers : op'[v].tool = op[v].tool
                          /\ (op'[v].at \in {"charged", "cleared"} => op'[v].at = op[v].at)
    BY <1>3 DEF TimeOut, Operations
  <2> QED
    BY <1>1, <1>3, <2>1 DEF TimeOut, Pending, history
<1>4. ASSUME NEW w \in Workers, Begin(w) \/ Clear(w) PROVE RequestsAreCharged'
  <2>1. \A v \in Workers : op'[v].tool = op[v].tool
                          /\ (op'[v].at \in {"charged", "cleared"}
                                => op[v].at \in {"charged", "cleared"})
    BY <1>4 DEF Begin, Clear, Operations
  <2> QED
    BY <1>1, <1>4, <2>1 DEF Begin, Clear, Pending, history
<1>5. ASSUME NEW w \in Workers, Charge(w) PROVE RequestsAreCharged'
  <2>1. PICK u \in Tools : u = op[w].tool
    BY DEF Operations
  <2>2. /\ \A t \in Tools : accepted'[t] = IF t = u THEN accepted[t] + 1 ELSE accepted[t]
        /\ sent' = sent
    BY <1>5, <2>1 DEF Charge, history
  <2>3. \A t \in Tools : Pending(t)' \subseteq Pending(t) \cup (IF t = u THEN {w} ELSE {})
    BY <1>5, <2>1 DEF Charge, Pending, Operations
  <2>4. Cardinality(Pending(u)') <= Cardinality(Pending(u)) + 1
    <3>1. Pending(u)' \subseteq Pending(u) \cup {w}
      BY <1>5, <2>1 DEF Charge, Pending, Operations
    <3> QED
      BY <1>0, <2>1, <3>1, SizeGrows
  <2>5. \A t \in Tools \ {u} : Cardinality(Pending(t)') <= Cardinality(Pending(t))
    <3>1. \A t \in Tools \ {u} : Pending(t)' \subseteq Pending(t)
      BY <2>3
    <3> QED
      BY <1>0, <3>1, FS_Subset
  <2> QED
    BY <1>0, <2>1, <2>2, <2>4, <2>5 DEF RequestsAreCharged
<1>6. ASSUME NEW w \in Workers, Send(w) PROVE RequestsAreCharged'
  <2>1. PICK u \in Tools : u = op[w].tool
    BY DEF Operations
  <2>2. /\ \A t \in Tools : sent'[t] = IF t = u THEN sent[t] + 1 ELSE sent[t]
        /\ accepted' = accepted
    BY <1>6, <2>1 DEF Send
  <2>3. \A t \in Tools : Pending(t)' = Pending(t) \ {w}
    BY <1>6 DEF Send, Pending, Operations
  <2>4. Cardinality(Pending(u)') = Cardinality(Pending(u)) - 1
    <3>1. w \in Pending(u)
      BY <1>6, <2>1 DEF Send, Pending
    <3> QED
      BY <1>0, <2>1, <2>3, <3>1, SizeSteps
  <2>5. \A t \in Tools : Cardinality(Pending(t)') <= Cardinality(Pending(t))
    BY <1>0, <2>3, FS_Subset
  <2> QED
    BY <1>0, <2>1, <2>2, <2>4, <2>5 DEF RequestsAreCharged
<1>7. ASSUME NEW w \in Workers, NEW outcome, Finish(w, outcome) PROVE RequestsAreCharged'
  BY <1>1, <1>7 DEF Finish, Free, Pending, history
<1>8. CASE UNCHANGED <<op, accepted, sent>>
  BY <1>1, <1>8 DEF Pending
<1> QED
  BY <1>2, <1>3, <1>4, <1>5, <1>6, <1>7, <1>8
  DEF Next, CallerStep, WorkerStep, Enter, Admit, FastFail, AttemptRefused, Quarantine, Succeed,
      Fail, Retry, End, EndRefused, EndCancelled, CooldownElapses, history, vars

(* What CircuitSound says of one breaker and the size of its calls.        *)
Sound(b, n) ==
  /\ b.state = "closed" <=> b.failures < failure_threshold
  /\ b.state = "half_open" => b.probes \in 1..n

LEMMA BreakerSound ==
  ASSUME NEW b \in Breakers, NEW n \in Nat, Sound(b, n)
  PROVE  /\ \A m \in Nat : m >= n => Sound(b, m)
         /\ \A m \in Nat : Sound(AfterSuccess(b), m) /\ Sound(AfterFailure(b), m)
         /\ Allows(b) => Sound(AfterAllow(b), n + 1)
         /\ b.state = "open" => \A m \in Nat : Sound([b EXCEPT !.cooldown = "over"], m)
<1>0. failure_threshold \in Nat \ {0} /\ half_open_max_calls \in Nat \ {0}
  BY ExecutionAssumption
<1>1. \A m \in Nat : m >= n => Sound(b, m)
  BY DEF Sound, Breakers
<1>2. \A m \in Nat : Sound(AfterSuccess(b), m)
  BY <1>0 DEF Sound, AfterSuccess, NewBreaker
<1>3. \A m \in Nat : Sound(AfterFailure(b), m)
  BY <1>0 DEF Sound, AfterFailure, Opened, Breakers
<1>4. Allows(b) => Sound(AfterAllow(b), n + 1)
  BY <1>0 DEF Sound, AfterAllow, Allows, Breakers
<1>5. b.state = "open" => \A m \in Nat : Sound([b EXCEPT !.cooldown = "over"], m)
  <2> SUFFICES ASSUME b.state = "open", NEW m \in Nat
               PROVE  Sound([b EXCEPT !.cooldown = "over"], m)
    OBVIOUS
  <2> DEFINE over == [b EXCEPT !.cooldown = "over"]
  <2>1. over.state = "open" /\ over.probes = b.probes /\ over.failures = b.failures
    BY DEF Breakers
  <2> QED
    BY <1>0, <2>1 DEF Sound
<1> QED
  BY <1>1, <1>2, <1>3, <1>4, <1>5

LEMMA CircuitKept ==
  ASSUME TypeOK, CircuitSound, [Next]_vars
  PROVE  CircuitSound'
<1> USE DEF TypeOK
<1> DEFINE Size(t) == Cardinality(InFlight(t))
<1>0. ASSUME NEW t \in Tools
      PROVE  /\ breaker[t] \in Breakers /\ Size(t) \in Nat /\ Size(t)' \in Nat
             /\ IsFiniteSet(InFlight(t)) /\ IsFiniteSet(InFlight(t)')
             /\ Sound(breaker[t], Size(t))
  BY SetsFinite DEF InFlight, CircuitSound, Sound
<1>1. ASSUME \A t \in Tools : Sound(breaker'[t], Size(t)') PROVE CircuitSound'
  BY <1>1 DEF CircuitSound, Sound
<1>2. ASSUME NEW t \in Tools, UNCHANGED breaker[t], InFlight(t) \subseteq InFlight(t)'
      PROVE  Sound(breaker'[t], Size(t)')
  <2>1. Size(t)' >= Size(t)
    BY <1>0, <1>2, FS_Subset
  <2> QED
    BY <1>0, <1>2, <2>1, BreakerSound
<1>3. ASSUME NEW c \in Callers, Admit(c) PROVE CircuitSound'
  <2>1. PICK u \in Tools : /\ u = caller[c].tool /\ Allows(breaker[u])
                           /\ breaker' = [breaker EXCEPT ![u] = AfterAllow(breaker[u])]
    BY <1>3 DEF Admit, Record, BreakerOf, CallStates
  <2>2. \A t \in Tools : InFlight(t)' = InFlight(t) \cup (IF t = u THEN {c} ELSE {})
    BY <1>3, <2>1 DEF Admit, GoTo, InFlight, CallStates
  <2>3. Size(u)' = Size(u) + 1
    <3>1. InFlight(u)' = InFlight(u) \cup {c} /\ c \notin InFlight(u)
      BY <1>3, <2>1, <2>2 DEF Admit, InFlight
    <3> QED
      BY <1>0, <2>1, <3>1, SizeSteps
  <2>4. Sound(breaker'[u], Size(u)')
    BY <1>0, <2>1, <2>3, BreakerSound
  <2>5. \A t \in Tools \ {u} : Sound(breaker'[t], Size(t)')
    BY <1>2, <2>1, <2>2
  <2> QED
    BY <1>1, <2>4, <2>5
<1>4. ASSUME NEW c \in Callers,
             AttemptRefused(c) \/ TimeOut(c) \/ Succeed(c) \/ Fail(c)
      PROVE  CircuitSound'
  <2>1. PICK u \in Tools : u = caller[c].tool
    BY DEF CallStates
  <2>2. PICK b \in {AfterSuccess(breaker[u]), AfterFailure(breaker[u])} :
           breaker' = [breaker EXCEPT ![u] = b]
    BY <1>4, <2>1 DEF AttemptRefused, TimeOut, Succeed, Fail, Record, BreakerOf
  <2>3. \A d \in Callers : d # c => caller'[d] = caller[d]
    BY <1>4 DEF AttemptRefused, TimeOut, Succeed, Fail, Return, GoTo
  <2>4. \A t \in Tools \ {u} : InFlight(t) \subseteq InFlight(t)'
    BY <2>1, <2>3 DEF InFlight
  <2>5. Sound(breaker'[u], Size(u)')
    BY <1>0, <2>1, <2>2, BreakerSound
  <2>6. \A t \in Tools \ {u} : Sound(breaker'[t], Size(t)')
    BY <1>2, <2>1, <2>2, <2>4
  <2> QED
    BY <1>1, <2>5, <2>6
<1>5. ASSUME UNCHANGED breaker, \A t \in Tools : InFlight(t) \subseteq InFlight(t)'
      PROVE  CircuitSound'
  BY <1>1, <1>2, <1>5
<1>6. ASSUME NEW c \in Callers, NEW t \in Tools, Enter(c, t) PROVE CircuitSound'
  BY <1>5, <1>6 DEF Enter, InFlight
<1>7. ASSUME NEW c \in Callers, FastFail(c) \/ Quarantine(c) PROVE CircuitSound'
  BY <1>5, <1>7 DEF FastFail, Quarantine, Return, InFlight
<1>8. ASSUME NEW c \in Callers, Retry(c) PROVE CircuitSound'
  BY <1>5, <1>8 DEF Retry, GoTo, InFlight
<1>9. ASSUME NEW c \in Callers, NEW w \in Workers, Attempt(c, w) PROVE CircuitSound'
  BY <1>5, <1>9 DEF Attempt, InFlight
<1>10. ASSUME NEW w \in Workers, NEW outcome, Finish(w, outcome) PROVE CircuitSound'
  <2>1. \A c \in Callers : /\ caller'[c].tool = caller[c].tool
                           /\ caller'[c].at = caller[c].at
                              \/ (caller[c].at = "waiting" /\ caller'[c].at = "answered")
    BY <1>10 DEF Finish, CallStates
  <2> QED
    BY <1>5, <1>10, <2>1 DEF Finish, InFlight
<1>11. ASSUME NEW t \in Tools, CooldownElapses(t) PROVE CircuitSound'
  <2>1. Sound(breaker'[t], Size(t)')
    BY <1>0, <1>11, BreakerSound DEF CooldownElapses
  <2>2. \A u \in Tools \ {t} : Sound(breaker'[u], Size(u)')
    BY <1>2, <1>11 DEF CooldownElapses, InFlight
  <2> QED
    BY <1>1, <2>1, <2>2
<1>12. CASE UNCHANGED <<breaker, caller>>
  BY <1>5, <1>12 DEF InFlight
<1> QED
  BY <1>3, <1>4, <1>6, <1>7, <1>8, <1>9, <1>10, <1>11, <1>12, Zenon
  DEF Next, CallerStep, WorkerStep, Begin, Charge, Clear, Send, End, EndRefused, EndCancelled, vars

---------------------------------------------------------------------------
(* Theorems. *)

IInv == TypeOK /\ CircuitSound /\ AttemptsOwed /\ RequestsAreCharged /\ LateIsLast

LEMMA InitIInv == Init => IInv
<1> SUFFICES ASSUME Init PROVE IInv
  OBVIOUS
<1>1. TypeOK
  BY InitTypeOK
<1>2. CircuitSound
  BY ExecutionAssumption DEF Init, CircuitSound, NewBreaker
<1>3. AttemptsOwed
  <2>1. Owing = {}
    BY DEF Init, NewCall, Owing
  <2> QED
    BY <2>1, FS_EmptySet DEF Init, AttemptsOwed
<1>4. RequestsAreCharged
  <2>1. \A t \in Tools : Pending(t) = {}
    BY DEF Init, Free, Pending
  <2> QED
    BY <2>1, FS_EmptySet DEF Init, RequestsAreCharged
<1>5. LateIsLast
  BY DEF Init, Free, LateIsLast
<1> QED
  BY <1>1, <1>2, <1>3, <1>4, <1>5 DEF IInv

LEMMA Invariance == Spec => []IInv
<1>1. IInv /\ [Next]_vars => IInv'
  BY NextTypeOK, CircuitKept, AttemptsKept, RequestsKept, LateKept DEF IInv
<1> QED
  BY InitIInv, <1>1, PTL DEF Spec

(* Every variable keeps its type: in particular the retry budget and every *)
(* tool's lane stay within their limits, and no half-open breaker counts   *)
(* more probes than CircuitBreakerPolicy allows.                           *)
THEOREM TypeCorrect == Spec => []TypeOK
<1>1. IInv => TypeOK
  BY DEF IInv
<1> QED
  BY Invariance, <1>1, PTL

(* CircuitBreaker: whatever the order of the results, every probe that a   *)
(* half-open breaker counts belongs to a call that will still record one.  *)
THEOREM CircuitSoundness == Spec => []CircuitSound
<1>1. IInv => CircuitSound
  BY DEF IInv
<1> QED
  BY Invariance, <1>1, PTL

(* execute and RetryBudget: a run's attempts are within its calls and the  *)
(* retries it has paid for, however many branches call at once.            *)
THEOREM AttemptsBounded == Spec => []AttemptsAreBudgeted
<1>1. IInv => AttemptsAreBudgeted
  BY SetsFinite, ExecutionAssumption DEF IInv, AttemptsOwed, AttemptsAreBudgeted, Owing, TypeOK
<1> QED
  BY Invariance, <1>1, PTL

(* charge_external_request: no request is sent that its lane has not       *)
(* accepted, by whichever worker and however long after its call returned. *)
THEOREM RequestsCharged == Spec => []RequestsAreCharged
<1>1. IInv => RequestsAreCharged
  BY DEF IInv
<1> QED
  BY Invariance, <1>1, PTL

(* CninfoDisclosureSource: an operation whose call has timed out sends at  *)
(* most one request more.                                                  *)
THEOREM LateRequestsBounded == Spec => []StopsAtBoundary
<1>1. IInv => StopsAtBoundary
  BY DEF IInv, LateIsLast, StopsAtBoundary
<1> QED
  BY Invariance, <1>1, PTL
=============================================================================
