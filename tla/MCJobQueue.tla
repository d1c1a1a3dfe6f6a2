------------------------------ MODULE MCJobQueue ------------------------------
(* Instances of JobQueue for TLC: see the JobQueue_*.cfg files. *)
EXTENDS JobQueue, TLC

CONSTANTS j1, j2, w1, w2, d1, d2, r1, r2

\* Processes of a kind, and jobs, are interchangeable.
Symmetric == Permutations(Job) \cup Permutations(Worker) \cup Permutations(Cleaner)
===============================================================================
