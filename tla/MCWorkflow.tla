---------------------------- MODULE MCWorkflow ----------------------------
(* Two branches, up to two research rounds with two critic passes each, a  *)
(* ceiling that two rounds can just spend, and one resume.                 *)
EXTENDS Workflow

MCBranches == 1..2
MCMetrics == 0..1
MCStopPhases == {"none", "researching", "critiquing"}
=============================================================================
