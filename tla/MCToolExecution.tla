-------------------------- MODULE MCToolExecution --------------------------
(* Two branches of a run, which call both tools, on two workers.  A web    *)
(* search sends one request and a disclosure operation up to two.          *)
EXTENDS ToolExecution

Requests == [web |-> 1, disclosure |-> 2]
=============================================================================
