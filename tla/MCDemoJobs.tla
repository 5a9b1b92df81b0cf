---------------------------- MODULE MCDemoJobs ----------------------------
(* Two handlers that race for one queue slot, two thread identities, three *)
(* jobs: one running, one queued, one arriving.                            *)
EXTENDS DemoJobs
=============================================================================
