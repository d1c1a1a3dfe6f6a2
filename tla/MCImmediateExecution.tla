------------------------- MODULE MCImmediateExecution -------------------------
(* An instance of ImmediateExecution for TLC: see ImmediateExecution_calls.cfg. *)
EXTENDS ImmediateExecution, TLC

CONSTANTS c1, c2, r1

\* Callers are interchangeable.
Symmetric == Permutations(Caller)
===============================================================================
