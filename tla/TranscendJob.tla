----------------------------- MODULE TranscendJob -----------------------------
(***************************************************************************)
(* The Transcend erasure adapter (src/src/integrations/transcend.ts) on the *)
(* job queue (JobQueue) and the durable erasure (DurableExecution), for one *)
(* identity of the provider: its webhook is delivered any number of times,  *)
(* becomes one job, whose pages erase the subject under the job's own       *)
(* durable key, recover what is unknown of that, and tell the provider.     *)
(*                                                                         *)
(* The erasure and the call of the provider take effect outside the page's  *)
(* transaction: they survive its rollback, and a worker goes on with them   *)
(* after its transaction has timed out and another has claimed the job.     *)
(* Of the queue and of the durable request, only what the adapter sees is   *)
(* here.  Signatures, secrets and seals are taken to do their work.         *)
(***************************************************************************)
EXTENDS Naturals, FiniteSets

CONSTANTS
    Receiver,     \* processes that serve the webhook
    Worker,       \* processes that call runNext with processStep
    Subject,      \* subjects an identifier may be mapped to, from time to time
    Fingerprint,        \* fingerprints of deliveries for the identity
    MaxAttempts,  \* opts.maxAttempts of the queue
    MaxRetries,   \* bound on the retries of the job
    MaxFaults,    \* bound on the faults of a behaviour
    None          \* no subject, no fingerprint, no lock holder

ASSUME ConstantsOK ==
    /\ Receiver \cap Worker = {} /\ None \notin Receiver \cup Worker \cup Subject \cup Fingerprint
    /\ MaxAttempts \in Nat \ {0} /\ MaxRetries \in Nat /\ MaxFaults \in Nat

VARIABLES
    job,         \* the row of the job
    expired,     \* its retention has passed
    lock,        \* the worker whose page holds it
    current,     \* workers that claimed it at the revision that it has
    request,     \* the durable request under the job's key
    pc,          \* what a process is doing
    delivery,    \* a receiver: the fingerprint it was sent, the subject it resolved
    seen,        \* a worker: the row it claimed
    erasing,     \* a worker: it is in erase, and not in retryCompletion
    ret,         \* a worker: what its handler has found out
    reports,     \* how the provider has answered
    erased,      \* history: erasures that took effect, by subject
    accepted,    \* history: fingerprints of the deliveries that were acknowledged
    retries, faults

queue    == <<job, expired, lock, current>>
receiver == <<delivery, accepted>>
worker   == <<seen, erasing, ret>>
outside  == <<request, reports, erased>>
vars     == <<queue, outside, pc, receiver, worker, retries, faults>>

-----------------------------------------------------------------------------
(* Rows *)

\* "committed": the data is erased and its evidence not stored; "unstored": the same,
\* and storing has failed; "lost": the same, and the evidence has expired.
Request == {"absent", "created", "refused", "committed", "unstored", "lost", "completed"}

\* Requests whose dataOutcome is completed.
DataGone == {"committed", "unstored", "lost", "completed"}

Result == [status: {"none", "unknown", "failed", "completed"}, data: BOOLEAN,
           provider: {"none", "unreported", "pending", "accepted", "rejected"}]

NoResult == [status |-> "none", data |-> FALSE, provider |-> "none"]
Of(status, data, provider) == [status |-> status, data |-> data, provider |-> provider]

Job == [state: {"absent", "queued", "completed", "failed", "cancelled"},
        subject: Subject \cup {None}, print: Fingerprint \cup {None},
        phase: {"none", "local_execution", "local_recovery", "callback", "finished"},
        named: BOOLEAN,    \* the checkpoint has the id of the request
        result: Result, changed: BOOLEAN, attempts: Nat]

NoJob == [state |-> "absent", subject |-> None, print |-> None, phase |-> "none",
          named |-> FALSE, result |-> NoResult, changed |-> FALSE, attempts |-> 0]

-----------------------------------------------------------------------------
(* What a page makes of the job x *)

Page(x, done, change, phase, result) ==
    [x EXCEPT !.state = IF done THEN "completed" ELSE "queued", !.phase = phase,
              !.named = phase # "local_execution", !.result = result,
              !.changed = @ \/ change, !.attempts = 0]

\* Mutant: nothing has been changed yet.
FenceUnchanged(x) ==
    Page(x, FALSE, FALSE, "local_execution", Of("unknown", FALSE, "unreported"))

\* 'Commit this fence before calling a service that commits independently'.
Fence(x) == Page(x, FALSE, TRUE, "local_execution", Of("unknown", FALSE, "unreported"))

\* erase threw a DataSubjectPersistenceError of a request that exists.
Unknown(x) == Page(x, FALSE, TRUE, "local_recovery", Of("unknown", FALSE, "unreported"))

\* localResult.
LocalResult(x, r) ==
    IF r = "completed" THEN Page(x, FALSE, TRUE, "callback", Of("completed", TRUE, "pending"))
    ELSE IF r = "unstored" THEN Page(x, FALSE, TRUE, "local_recovery", NoResult)
    ELSE Page(x, TRUE, r \in DataGone, "finished",
              Of("failed", r \in DataGone, "unreported"))

Told(x, answer) == Page(x, TRUE, FALSE, "finished", Of("completed", TRUE, answer))

Stepped(x, found) ==
    IF x.phase = "none" THEN Fence(x)
    ELSE IF x.phase = "callback" THEN Told(x, found)
    ELSE IF found = "unknown" THEN Unknown(x)
    ELSE LocalResult(x, found)

-----------------------------------------------------------------------------
(* Control *)

Goto(p, label) == pc' = [pc EXCEPT ![p] = label]

Fault == faults < MaxFaults /\ faults' = faults + 1
NoFault == UNCHANGED faults

\* Every update of the row advances its revision.
Write(x) == job' = x /\ current' = {}

Free == lock = None
Release(w) == lock' = IF lock = w THEN None ELSE lock

\* The handler of w returns what it found, or goes on at label, or throws, which rolls
\* its page back.
Return(w, found) == Goto(w, "commit") /\ ret' = [ret EXCEPT ![w] = found] /\ UNCHANGED lock
Proceed(w, label) == Goto(w, label) /\ UNCHANGED <<ret, lock>>
Throw(w) == Goto(w, "record") /\ Release(w) /\ UNCHANGED ret

\* What a worker in its handler leaves alone.
Handling == UNCHANGED <<job, expired, current, receiver, seen, retries>>

Init ==
    /\ job = NoJob /\ expired = FALSE /\ lock = None /\ current = {}
    /\ request = "absent" /\ reports = {} /\ erased = [s \in Subject |-> 0]
    /\ pc = [p \in Receiver \cup Worker |-> "idle"]
    /\ delivery = [r \in Receiver |-> [print |-> None, subject |-> None]]
    /\ seen = [w \in Worker |-> NoJob] /\ erasing = [w \in Worker |-> FALSE]
    /\ ret = [w \in Worker |-> "none"]
    /\ accepted = {} /\ retries = 0 /\ faults = 0

-----------------------------------------------------------------------------
(* receive *)

Receive(r, print) ==
    /\ pc[r] = "idle" /\ Goto(r, "get")
    /\ delivery' = [delivery EXCEPT ![r].print = print]
    /\ UNCHANGED <<queue, outside, accepted, worker, retries, faults>>

Respond(r) ==
    /\ Goto(r, "idle")
    /\ delivery' = [delivery EXCEPT ![r] = [print |-> None, subject |-> None]]

\* replay: the payload is gone after retention.
Replay(r) ==
    /\ Respond(r)
    /\ accepted' = IF job.print = delivery[r].print THEN accepted \cup {job.print} ELSE accepted

\* 'Recognized replays use the original job.'
GetExisting(r) ==
    /\ pc[r] = "get"
    /\ \/ job.state # "absent" /\ Replay(r)
       \/ job.state = "absent" /\ Goto(r, "resolve") /\ UNCHANGED receiver
    /\ UNCHANGED <<queue, outside, worker, retries, faults>>

\* resolveSubject: the host's mapping may change, or end, between deliveries.
Resolve(r) ==
    /\ pc[r] = "resolve" /\ UNCHANGED accepted
    /\ \/ Respond(r)
       \/ \E s \in Subject : delivery' = [delivery EXCEPT ![r].subject = s] /\ Goto(r, "submit")
    /\ UNCHANGED <<queue, outside, worker, retries, faults>>

\* Payloads are sealed at random, so that any second submission conflicts.  A submission
\* that fails may have taken effect.
Submit(r) ==
    /\ pc[r] = "submit"
    /\ \/ /\ job.state = "absent"
          /\ Write([NoJob EXCEPT !.state = "queued", !.print = delivery[r].print,
                                 !.subject = delivery[r].subject])
          /\ \/ Respond(r) /\ accepted' = accepted \cup {delivery[r].print} /\ NoFault
             \/ Goto(r, "winner") /\ UNCHANGED receiver /\ Fault
       \/ /\ Goto(r, "winner") /\ UNCHANGED <<job, current, receiver>>
          /\ job.state = "absent" => Fault
          /\ job.state # "absent" => NoFault
    /\ UNCHANGED <<expired, lock, outside, worker, retries>>

\* Mutant: the winner is the same request.
WinnerUnchecked(r) == Respond(r) /\ accepted' = accepted \cup {delivery[r].print}

Winner(r) == Replay(r)

AfterConflict(r) ==
    /\ pc[r] = "winner"
    /\ \/ job.state # "absent" /\ Winner(r)
       \/ job.state = "absent" /\ Respond(r) /\ UNCHANGED accepted
    /\ UNCHANGED <<queue, outside, worker, retries, faults>>

-----------------------------------------------------------------------------
(* runNext and processStep *)

Claim(w) ==
    /\ pc[w] = "idle" /\ job.state = "queued" /\ Free /\ ~expired
    /\ lock' = w /\ current' = current \cup {w} /\ Goto(w, "handle")
    /\ seen' = [seen EXCEPT ![w] = job]
    /\ UNCHANGED <<job, expired, outside, receiver, erasing, ret, retries, faults>>

\* "local_recovery": as the request that getRequest finds asks for.
RecoverLocal(w) ==
    IF request = "absent" THEN Throw(w)
    ELSE \/ request = "created" /\ Proceed(w, "reserve")
         \/ request \in DataGone \ {"completed"} /\ Proceed(w, "complete")
         \/ request \in {"refused", "completed"} /\ Return(w, request)

\* The step that the claimed checkpoint asks for.
BeginPage(w) ==
    /\ pc[w] = "handle"
    /\ \/ seen[w].phase = "none" /\ Return(w, "none")
       \/ seen[w].phase = "local_execution" /\ Proceed(w, "reserve")
       \/ seen[w].phase = "local_recovery" /\ RecoverLocal(w)
       \/ /\ seen[w].phase = "callback"
          /\ IF request = "completed" THEN Proceed(w, "put") ELSE Throw(w)
    /\ erasing' = [erasing EXCEPT ![w] =
                    seen[w].phase = "local_execution" \/ request = "created"]
    /\ Handling /\ UNCHANGED <<outside, faults>>

\* The page fails on an error that changes nothing.
FailPage(w) ==
    /\ pc[w] \in {"handle", "reserve", "execute", "complete", "deliver", "put", "commit"}
    /\ Throw(w)
    /\ Handling /\ UNCHANGED <<erasing, outside, faults>>

\* Mutant: the candidate id is remembered.
NotStartedNamed(w) ==
    IF seen[w].phase = "local_execution" THEN Return(w, "unknown") ELSE Throw(w)

\* The reservation gave no answer: dataOutcome is not_started.
NotStarted(w) == Throw(w)

Reserve(w) ==
    /\ pc[w] = "reserve"
    /\ \/ /\ request' = IF request = "absent" THEN "created" ELSE request
          /\ \/ Proceed(w, "execute") /\ NoFault
             \/ NotStarted(w) /\ Fault
       \/ UNCHANGED request /\ NotStarted(w) /\ Fault
    /\ Handling /\ UNCHANGED <<erasing, reports, erased>>

\* A later transaction of the request gave no answer: dataOutcome is unknown.
NoAnswer(w) ==
    /\ Fault
    /\ IF seen[w].phase = "local_execution" THEN Return(w, "unknown") ELSE Throw(w)

\* The erasure, or its refusal; of a request that was executed before, neither.
Execute(w) ==
    /\ pc[w] = "execute"
    /\ \E after \in IF request = "created" THEN {"created", "committed", "refused"} ELSE {request} :
        /\ request' = after
        /\ erased' = IF after = "committed" /\ request = "created"
                     THEN [erased EXCEPT ![seen[w].subject] = @ + 1] ELSE erased
        /\ \/ after # "created" /\ Proceed(w, "complete") /\ NoFault
           \/ NoAnswer(w)
    /\ Handling /\ UNCHANGED <<erasing, reports>>

\* What retryCompletion makes of the request.
Completed == IF request \in {"committed", "unstored"} THEN {"completed", "unstored", "lost"}
             ELSE {request}

Complete(w) ==
    /\ pc[w] = "complete"
    /\ \/ request' \in Completed /\ Proceed(w, "deliver") /\ NoFault
       \/ request' \in Completed \cup {request} /\ NoAnswer(w)
    /\ Handling /\ UNCHANGED <<erasing, reports, erased>>

\* Mutant: what is still not stored is checkpointed again.
StillUnstoredAgain(w) == FALSE

StillUnstored(w) == ~erasing[w] /\ request = "unstored"

\* The notifications are delivered, and the request read once more.
Deliver(w) ==
    /\ pc[w] = "deliver"
    /\ \/ (IF StillUnstored(w) THEN Throw(w) ELSE Return(w, request)) /\ NoFault
       \/ NoAnswer(w)
    /\ Handling /\ UNCHANGED <<erasing, outside>>

\* The provider answers, or takes the call and its answer does not arrive.
Put(w) ==
    /\ pc[w] = "put"
    /\ \E answer \in {"accepted", "rejected"} :
        /\ reports' = reports \cup {answer}
        /\ Return(w, answer) \/ Throw(w)
    /\ Handling /\ UNCHANGED <<erasing, request, erased, faults>>

EndPage(w) ==
    /\ Goto(w, "idle")
    /\ seen' = [seen EXCEPT ![w] = NoJob] /\ erasing' = [erasing EXCEPT ![w] = FALSE]
    /\ ret' = [ret EXCEPT ![w] = "none"]

\* The page commits, if its transaction has not timed out.
CommitPage(w) ==
    /\ pc[w] = "commit" /\ lock = w /\ ~expired
    /\ Write(Stepped(seen[w], ret[w]))
    /\ Release(w) /\ EndPage(w)
    /\ UNCHANGED <<expired, outside, receiver, retries, faults>>

\* purgeOne: payload, checkpoint and result are set to null.
Purged ==
    [job EXCEPT !.state = IF @ = "queued" THEN "failed" ELSE @, !.subject = None,
                !.print = None, !.phase = "none", !.named = FALSE, !.result = NoResult]

\* recordFailure; a row that has changed since it was claimed is left alone.
RecordFailure(w) ==
    /\ pc[w] = "record" /\ Free
    /\ IF w \notin current \/ job.state # "queued"
       THEN UNCHANGED job /\ current' = current \ {w}
       ELSE Write(IF expired THEN Purged
                  ELSE [job EXCEPT !.attempts = @ + 1,
                          !.state = IF job.attempts + 1 >= MaxAttempts THEN "failed" ELSE @])
    /\ EndPage(w)
    /\ UNCHANGED <<expired, lock, outside, receiver, retries, faults>>

\* An expired row is purged instead of claimed.
ClaimExpired(w) ==
    /\ pc[w] = "idle" /\ job.state = "queued" /\ Free /\ expired
    /\ Write(Purged)
    /\ UNCHANGED <<expired, lock, outside, pc, receiver, worker, retries, faults>>

-----------------------------------------------------------------------------
(* Everything else *)

\* The worker crashes, or its COMMIT fails without an answer.
LosePage(w) ==
    /\ pc[w] # "idle" /\ Fault
    /\ Release(w) /\ EndPage(w) /\ current' = current \ {w}
    /\ UNCHANGED <<job, expired, outside, receiver, retries>>

\* The page's transaction times out, and the worker does not know it yet.
TimeOut ==
    /\ lock # None /\ Fault /\ lock' = None
    /\ UNCHANGED <<job, expired, current, outside, pc, receiver, worker, retries>>

Operate(x) ==
    /\ Free /\ Write(x)
    /\ UNCHANGED <<expired, lock, outside, pc, receiver, worker, faults>>

Cancel ==
    /\ job.state \in {"queued", "failed"}
    /\ Operate([job EXCEPT !.state = "cancelled"]) /\ UNCHANGED retries

Retry ==
    /\ job.state \in {"failed", "cancelled"} /\ ~expired
    /\ retries < MaxRetries /\ retries' = retries + 1
    /\ Operate([job EXCEPT !.state = "queued", !.attempts = 0])

Expire ==
    /\ ~expired /\ job.state # "absent" /\ expired' = TRUE
    /\ UNCHANGED <<job, lock, current, outside, pc, receiver, worker, retries, faults>>

\* purgeExpiredChunks.
Purge ==
    /\ expired /\ Free /\ job.print # None
    /\ Write(Purged)
    /\ UNCHANGED <<expired, lock, outside, pc, receiver, worker, retries, faults>>

\* Others call retryCompletion and expirePendingArtifacts.
CompleteElsewhere ==
    /\ request' \in Completed \ {request}
    /\ UNCHANGED <<queue, reports, erased, pc, receiver, worker, retries, faults>>

-----------------------------------------------------------------------------
Serve(r) ==
    (\E print \in Fingerprint : Receive(r, print))
        \/ GetExisting(r) \/ Resolve(r) \/ Submit(r) \/ AfterConflict(r)

Work(w) ==
    \/ Claim(w) \/ ClaimExpired(w) \/ BeginPage(w) \/ FailPage(w) \/ Reserve(w) \/ Execute(w)
    \/ Complete(w) \/ Deliver(w) \/ Put(w) \/ CommitPage(w) \/ RecordFailure(w)

Next ==
    \/ \E r \in Receiver : Serve(r)
    \/ \E w \in Worker : Work(w) \/ LosePage(w)
    \/ TimeOut \/ Cancel \/ Retry \/ Expire \/ Purge \/ CompleteElsewhere

Spec == Init /\ [][Next]_vars

\* Workers call runNext again and again, and their calls return.
FairSpec == Spec /\ \A w \in Worker : WF_vars(Work(w))

-----------------------------------------------------------------------------
(* Properties *)

TypeOK ==
    /\ job \in Job /\ expired \in BOOLEAN /\ lock \in Worker \cup {None} /\ current \subseteq Worker
    /\ request \in Request /\ reports \subseteq {"accepted", "rejected"}
    /\ erased \in [Subject -> Nat] /\ accepted \subseteq Fingerprint
    /\ seen \in [Worker -> Job] /\ erasing \in [Worker -> BOOLEAN]
    /\ retries \in 0 .. MaxRetries /\ faults \in 0 .. MaxFaults

\* However often and in whatever way the webhook is delivered, and pages are lost and run
\* again, at most one subject is erased, once; and only deliveries that agree with each
\* other are acknowledged, before and after the mapping of the subject, and the payload
\* of the job, are gone.
OneErasure ==
    /\ \A s, t \in Subject : erased[s] + (IF s = t THEN 0 ELSE erased[t]) <= 1
    /\ Cardinality(accepted) <= 1
    /\ job.print # None => accepted \subseteq {job.print}

\* Whatever ends the job, once a local request may exist the job is known to have
\* changed data, so that a failed or cancelled one is reported as partial.
ChangesAreFenced == request # "absent" => job.changed

\* The job's result and checkpoint never say more than is true of the request, now and
\* later: a request that is named exists, a job that completed agrees with the final
\* outcome of its request, and the provider hears of completed erasures only, and has
\* said what the result has of it.
ResultsAreTrue ==
    /\ TypeOK
    /\ job.named => request # "absent"
    /\ job.result.status = "completed" => request = "completed"
    /\ job.result.data => request \in DataGone
    /\ job.result.status = "failed" =>
            request = IF job.result.data THEN "lost" ELSE "refused"
    /\ reports # {} => request = "completed"
    /\ job.result.provider \in {"accepted", "rejected"} => job.result.provider \in reports

\* A job does not stay in the queue, whatever fails, and however often: its pages do not
\* go round.
JobEnds == job.state = "queued" ~> job.state # "queued"
===============================================================================
