--------------------------- MODULE RequestLifecycle ---------------------------
(***************************************************************************)
(* What durable execution promises an observer of one request: its entity   *)
(* work takes effect at most once, a refused or failed request never has an *)
(* effect, every outcome is final, and what the observer hears about it is  *)
(* already true.                                                           *)
(***************************************************************************)
EXTENDS Naturals

CONSTANT Req

VARIABLES
    status,     \* where the request is in its life
    effects,    \* times its entity work took effect
    heard       \* the events announced about it

vars == <<status, effects, heard>>

Status == {"absent", "accepted", "refused", "executed", "completed", "lost"}
Event == {"created", "processing", "erasure_requested", "failed", "expired",
          "completed"}

Init ==
    /\ status = [r \in Req |-> "absent"]
    /\ effects = [r \in Req |-> 0]
    /\ heard = [r \in Req |-> {}]

Move(r, from, to) ==
    /\ status[r] = from
    /\ status' = [status EXCEPT ![r] = to]

Accept(r) == Move(r, "absent", "accepted") /\ UNCHANGED <<effects, heard>>

\* The entity work failed and was rolled back; it is never tried again.
Refuse(r) == Move(r, "accepted", "refused") /\ UNCHANGED <<effects, heard>>

Execute(r) ==
    /\ Move(r, "accepted", "executed")
    /\ effects' = [effects EXCEPT ![r] = @ + 1]
    /\ UNCHANGED heard

\* The artifact reached its store.
Complete(r) == Move(r, "executed", "completed") /\ UNCHANGED <<effects, heard>>

\* The artifact did not reach its store before its bytes expired.
Lose(r) == Move(r, "executed", "lost") /\ UNCHANGED <<effects, heard>>

\* The statuses of which an event is a true announcement.
Truth(e) ==
    IF e = "erasure_requested" THEN {"executed", "completed", "lost"}
    ELSE IF e = "completed" THEN {"completed"}
    ELSE IF e = "expired" THEN {"refused", "lost"}
    ELSE Status \ {"absent", "accepted"}

Announce(r, e) ==
    /\ status[r] \in Truth(e)
    /\ heard' = [heard EXCEPT ![r] = @ \cup {e}]
    /\ UNCHANGED <<status, effects>>

Next ==
    \E r \in Req :
        \/ Accept(r) \/ Refuse(r) \/ Execute(r) \/ Complete(r) \/ Lose(r)
        \/ \E e \in Event : Announce(r, e)

Spec == Init /\ [][Next]_vars
===============================================================================
