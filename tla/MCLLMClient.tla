---------------------------- MODULE MCLLMClient ----------------------------
(* An engine, two branches of which call its client, and the client of its *)
(* retrieval, on one ledger.                                               *)
EXTENDS LLMClient, TLC
CONSTANTS engine, rag, branch1, branch2, embedding

ClientOfCaller == [t \in Callers |-> IF t = embedding THEN rag ELSE engine]
CallsOfCaller == [t \in Callers |-> 1]
StartsOfClient == [c \in Clients |-> IF c = engine THEN 2 ELSE 1]
BranchSymmetry == Permutations({branch1, branch2})
=============================================================================
