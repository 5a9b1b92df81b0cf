---------------------------- MODULE RunLifecycle ----------------------------
(***************************************************************************)
(* What a caller of DeepResearchEngine.run may rely on, without nodes,     *)
(* routers, checkpoints or budgets.  A run goes through its phases in      *)
(* order and skips none; the one way back is another research round,       *)
(* before the report is written and at most max_rounds times in all; an    *)
(* invocation may end anywhere and the next one takes the run up where it  *)
(* stood; and every invocation ends.                                       *)
(***************************************************************************)
EXTENDS Integers

CONSTANT max_rounds

VARIABLES
  active,   \* an invocation is executing
  phase,    \* ResearchState.current_phase
  rounds,   \* research rounds begun after the first
  reported  \* the reporter has written the final report

lifecycle == <<active, phase, rounds, reported>>

Following ==
  {<<"planning", "researching">>, <<"researching", "extracting">>,
   <<"extracting", "critiquing">>, <<"critiquing", "reporting">>,
   <<"reporting", "evaluating">>, <<"evaluating", "done">>}

Init ==
  /\ active = FALSE
  /\ phase = "planning"
  /\ rounds = 0
  /\ reported = FALSE

Invoke == ~ active /\ active' = TRUE /\ UNCHANGED <<phase, rounds, reported>>

Leave == active /\ active' = FALSE /\ UNCHANGED <<phase, rounds, reported>>

Proceed ==
  /\ active
  /\ <<phase, phase'>> \in Following
  /\ reported' = (reported \/ phase = "reporting")
  /\ UNCHANGED <<active, rounds>>

ResearchAgain ==
  /\ active
  /\ phase = "reporting" /\ ~ reported
  /\ rounds + 1 < max_rounds
  /\ phase' = "researching"
  /\ rounds' = rounds + 1
  /\ UNCHANGED <<active, reported>>

Next == Invoke \/ Leave \/ Proceed \/ ResearchAgain

Safety == Init /\ [][Next]_lifecycle

(* Every invocation comes back to its caller. *)
Returns == active ~> ~ active

Spec == Safety /\ Returns
=============================================================================
