----------------------------- MODULE JobLifecycle -----------------------------
(***************************************************************************)
(* What the job queue promises its users about one job, whatever its        *)
(* workers do: work is done by whole pages while the job is queued, what it *)
(* has put out grows with it, a completed job stays as it is, and an erased *)
(* one puts out nothing and does no more work.                              *)
(***************************************************************************)
EXTENDS Naturals

CONSTANT Job

VARIABLES
    status,   \* absent, queued, completed, failed, cancelled or erased
    work,     \* pages whose work has taken effect
    output,   \* chunks that can be read, or will be when the job completes
    partial   \* some page has changed business data

vars == <<status, work, output, partial>>

Init ==
    /\ status = [j \in Job |-> "absent"]
    /\ work = [j \in Job |-> 0]
    /\ output = [j \in Job |-> 0]
    /\ partial = [j \in Job |-> FALSE]

Move(j, from, to) ==
    /\ status[j] \in from
    /\ status' = [status EXCEPT ![j] = to]

\* A page, the last one perhaps: its work, its output and its changes.
Page(j) ==
    /\ \E to \in {"queued", "completed"} : Move(j, {"queued"}, to)
    /\ work' = [work EXCEPT ![j] = @ + 1]
    /\ \E chunk \in {0, 1} : output' = [output EXCEPT ![j] = @ + chunk]
    /\ \E change \in BOOLEAN : partial' = [partial EXCEPT ![j] = @ \/ change]

Submit(j) == Move(j, {"absent"}, "queued") /\ UNCHANGED <<work, output, partial>>

Fail(j) == Move(j, {"queued"}, "failed") /\ UNCHANGED <<work, output, partial>>

Cancel(j) ==
    /\ Move(j, {"queued", "failed"}, "cancelled")
    /\ UNCHANGED <<work, output, partial>>

Resume(j) ==
    /\ Move(j, {"failed", "cancelled"}, "queued")
    /\ UNCHANGED <<work, output, partial>>

\* Retention may end at any time, in several jobs at once.
Erase(jobs) ==
    /\ \A j \in jobs : status[j] # "absent"
    /\ status' = [j \in Job |-> IF j \in jobs THEN "erased" ELSE status[j]]
    /\ output' = [j \in Job |-> IF j \in jobs THEN 0 ELSE output[j]]
    /\ UNCHANGED <<work, partial>>

Next ==
    \/ \E j \in Job : Page(j) \/ Submit(j) \/ Fail(j) \/ Cancel(j) \/ Resume(j)
    \/ \E jobs \in SUBSET Job : Erase(jobs)

Spec == Init /\ [][Next]_vars
===============================================================================
