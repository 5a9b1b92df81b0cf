---------------------------- MODULE MCTrajectory ----------------------------
(* Two branches and a retry, on an allowance any of them can run out of,   *)
(* outside the finance pack, where a partial report tells the most.        *)
EXTENDS Trajectory

Question(rag, disclosure, urls, queries, typed, calls) ==
  [rag |-> rag, disclosure |-> disclosure, urls |-> urls, queries |-> queries,
   typed |-> typed, max_search_calls |-> calls]

MCBranches == {"company", "market"}
MCRetryQueue == <<"retry1">>
MCByQuestion ==
  [company |-> Question(TRUE, "financial", <<"u1">>, <<"q1">>, TRUE, 2),
   market |-> Question(TRUE, "none", <<"u1">>, <<"q2">>, TRUE, 3),
   retry1 |-> Question(FALSE, "none", <<>>, <<"q1">>, TRUE, 0)]
MCMaxRequests == [search |-> 2, fetch |-> 3, authority |-> 2]

(* Two calls that share a number leave the trace a number short for good:  *)
(* from then on its order decides nothing, and the view leaves it out.  A  *)
(* replay reads of the trace what is left of each queue, in order.  The    *)
(* past of the threads follows from the trace.                             *)
InQueues ==
  {<<trace[i].call, trace[i].by, trace[i].answer,
     Cardinality({j \in Queue(trace[i].call) : j < i})>> : i \in left}

MCView ==
  CASE seenAs.overlap /\ ~ Contiguous ->
         <<research, mode, kept, shown, seenAs,
           [t \in Threads |-> <<asked[t].call, asked[t].answer, asked[t].sequence > 0>>]>>
    [] mode = "replay" -> <<research, mode, kept, seenAs, InQueues>>
    [] OTHER -> <<research, mode, asked, trace, left, kept, shown, seenAs>>
=============================================================================
