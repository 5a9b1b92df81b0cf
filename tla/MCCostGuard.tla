---------------------------- MODULE MCCostGuard ----------------------------
(* Two demo callers and a research caller, two runs fit a day, and one     *)
(* midnight.  MCCostGuard.cfg lets a run cost one more than it reserves;   *)
(* MCCostGuardCap.cfg does not, so that what breaks the daily limit there  *)
(* is the settlement after midnight alone.                                 *)
EXTENDS CostGuard
=============================================================================
