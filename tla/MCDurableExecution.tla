-------------------------- MODULE MCDurableExecution --------------------------
(* Instances of DurableExecution for TLC: the processes, requests, keys and   *)
(* payloads of a run are model values picked by its configuration.            *)
EXTENDS DurableExecution, TLC

CONSTANTS c1, c2, w1, r1, r2, k1, k2, y1, y2

\* The callers run the same code, and so do not differ; nor do request ids.
Symmetric == Permutations(Caller) \cup Permutations(Req)
===============================================================================
