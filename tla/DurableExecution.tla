--------------------------- MODULE DurableExecution ---------------------------
(***************************************************************************)
(* The durable execution path: DurableCoordinator over PrismaExecutionStore *)
(* (src/src/durable-coordinator.ts, src/src/storage/prisma-execution-       *)
(* store.ts) with the expirePendingArtifacts worker of DataSubjectService.  *)
(*                                                                         *)
(* Processes share one database.  Each transaction of the store locks the   *)
(* execution row of its request (FOR UPDATE, Serializable), so what happens *)
(* inside a transaction is one step, except for the two external calls the  *)
(* coordinator makes while it holds the lock: artifactStorage.put and the   *)
(* notification callbacks.  Those take effect at once, survive a rollback,  *)
(* and are steps of their own.                                              *)
(*                                                                         *)
(* A fault is a crash, a failing or ambiguous external call, or a           *)
(* transaction that is aborted, times out, or whose COMMIT gives no answer. *)
(***************************************************************************)
EXTENDS Naturals, FiniteSets

CONSTANTS
    Caller,     \* processes that call execute and retryCompletion
    Worker,     \* processes that call expirePendingArtifacts
    Req,        \* request identifiers (randomUUID: never handed out twice)
    Key,        \* (tenant, type, requestKey) triples
    EraseKey,   \* the keys whose type is 'erase'
    Payload,    \* payload hashes
    Channel,    \* the notification channels looked at
    MaxFaults,  \* bound on the faults of a behaviour
    None        \* no request, no key, no payload, no lock holder

Proc == Caller \cup Worker

ASSUME ConstantsOK ==
    /\ Caller \cap Worker = {}
    /\ EraseKey \subseteq Key
    /\ Channel \subseteq {"outbox", "audit"}
    /\ MaxFaults \in Nat
    /\ None \notin Proc \cup Req \cup Key \cup Payload

VARIABLES
    row,        \* per request: its row, its execution row, its entity work
    stored,     \* the artifact store holds the request's artifact
    published,  \* notifications a callback has taken
    expired,    \* the TTL of the request's retry payload has passed
    lock,       \* the transaction holding the request's execution row
    pc, req,    \* what a process is doing, and for which request
    call,       \* the key and payload of its execute call
    batch,      \* rows an expiry worker has listed and not yet processed
    pending,    \* notifications its delivery transaction has yet to try
    sent,       \* notifications it published and will mark delivered
    reply,      \* what its last call returned
    faults      \* faults so far

out  == <<stored, published, expired>>
tx   == <<batch, pending, sent>>
vars == <<row, out, lock, pc, req, call, tx, reply, faults>>

-----------------------------------------------------------------------------
(* Notifications *)

\* Where an event comes in record.notifications: enqueue only appends, each id
\* once, and every path appends events in this order.
Position == [created |-> 0, processing |-> 1, erasure_requested |-> 2,
             failed |-> 3, expired |-> 4, completed |-> 5]
Event == DOMAIN Position
Note  == Channel \X Event

Rank(n) == 2 * Position[n[2]] + (IF n[1] = "outbox" THEN 0 ELSE 1)

On(channels, event) == (channels \cap Channel) \X {event}
Both(event) == On({"outbox", "audit"}, event)

\* initialNotifications.
Initial == Both("created") \cup On({"audit"}, "processing")

\* What execute's transaction leaves in the record, for a request of key k.
ExecutedNotes(k) ==
    Initial \cup (IF k \in EraseKey THEN On({"outbox"}, "erasure_requested") ELSE {})

\* Mutant: the notifications of the rolled-back transaction are kept.
KeptNotes(k) == ExecutedNotes(k) \cup Both("failed")

\* What its failure recording leaves: the record was read afresh.
FailureNotes(k) == Initial \cup Both("failed")

-----------------------------------------------------------------------------
(* Rows: what a transaction writes, as a function of what it read *)

Row == [key: Key \cup {None}, payload: Payload \cup {None},
        state: {"none", "created", "processing", "failed", "completed"},
        phase: {"pending", "data_committed", "completed"},
        artifact: {"none", "held", "uploaded", "discarded"},
        reason: {"none", "execution", "write_failed", "expired"},
        recovery: {"none", "inspect_data", "retry_artifact", "artifact_expired"},
        artifactFailure: {"none", "retry_artifact", "artifact_expired"},
        notes: SUBSET Note, delivered: SUBSET Note,
        effects: Nat]

NoRow == [key |-> None, payload |-> None, state |-> "none", phase |-> "pending",
          artifact |-> "none", reason |-> "none", recovery |-> "none",
          artifactFailure |-> "none", notes |-> {}, delivered |-> {}, effects |-> 0]

Reserved(r) == row[r].key # None
Held(x)     == x.artifact = "held"

\* Mutants: settled means failed only, or committed only.
SettledByFailure(x) == x.state = "failed"
SettledByCommit(x)  == x.phase # "pending"

\* execute and its failure recording leave such a request alone: a failed
\* execution is final, a committed one is not repeated.
Settled(x) == x.phase # "pending" \/ x.state = "failed"

\* retryCompletion throws: execution has not committed, or bytes are missing.
NotCompletable(x) ==
    \/ ~Settled(x)
    \/ x.phase = "data_committed" /\ x.artifact \notin {"held", "discarded"}

\* Mutant: with or without bytes.
ExpirableUnheld(x) == x.artifact # "discarded"

\* What retryCompletion lets expire.
Expirable(x) == Held(x) /\ x.phase # "completed"

\* Mutant: the evidence of failed erasures is forgotten.
ListableCommitted(x) == Held(x) /\ x.phase = "data_committed"

\* What the SQL of listExpiredArtifacts finds.
Listable(x) == Held(x) /\ x.phase # "completed"

\* reserve: the request and its execution row.
ReservedRow(k, y) == [NoRow EXCEPT !.key = k, !.payload = y, !.state = "created"]

\* execute: the entity work, the request, the retry payload and the intents.
Executed(x) ==
    [x EXCEPT !.effects = @ + 1, !.state = "processing", !.phase = "data_committed",
              !.artifact = "held", !.recovery = "none", !.artifactFailure = "none",
              !.notes = @ \cup ExecutedNotes(x.key)]

\* execute after its work threw; an ErasureVerificationError leaves evidence.
Failed(x, residual) ==
    [x EXCEPT !.state = "failed", !.reason = "execution",
              !.recovery = "inspect_data", !.artifactFailure = "none",
              !.artifact = IF residual THEN "held" ELSE @,
              !.notes = @ \cup FailureNotes(x.key)]

\* retryCompletion after the TTL: the bytes are erased.
Discarded(x) ==
    [x EXCEPT !.artifact = "discarded", !.state = "failed",
              !.reason = IF x.phase = "data_committed" THEN "expired" ELSE @,
              !.recovery = "artifact_expired", !.artifactFailure = "artifact_expired",
              !.notes = @ \cup Both("expired")]

\* Mutants: the upload of failed evidence completes it; the advice to retry is kept.
UploadedCompletes(x) ==
    [x EXCEPT !.artifact = "uploaded", !.phase = "completed", !.state = "completed",
              !.reason = "none", !.recovery = "none", !.notes = @ \cup Both("completed")]
UploadedWithAdvice(x) == [UploadedCompletes(x) EXCEPT !.recovery = x.recovery]

\* retryCompletion after put: the evidence of a failed erasure is kept without
\* completing it; a committed request is completed.
Uploaded(x) ==
    IF x.phase = "pending"
      THEN [x EXCEPT !.artifact = "uploaded", !.artifactFailure = "none"]
      ELSE [x EXCEPT !.artifact = "uploaded", !.phase = "completed",
                     !.state = "completed", !.reason = "none", !.recovery = "none",
                     !.notes = @ \cup Both("completed")]

\* Mutants: a failed put gives up the bytes, or leaves the request processing.
NotUploadedDropped(x) == [x EXCEPT !.artifact = "none", !.state = "failed"]
NotUploadedProcessing(x) == [x EXCEPT !.notes = @ \cup Both("failed")]

\* retryCompletion after put threw.
NotUploaded(x) ==
    IF x.phase = "pending"
      THEN [x EXCEPT !.artifactFailure = "retry_artifact"]
      ELSE [x EXCEPT !.state = "failed", !.reason = "write_failed",
                     !.recovery = "retry_artifact", !.notes = @ \cup Both("failed")]

\* Mutant: notifications whose callback threw are marked delivered too.
AllDelivered(x, done) == [x EXCEPT !.delivered = x.notes]

\* deliverNotifications.
Delivered(x, done) == [x EXCEPT !.delivered = @ \cup done]

-----------------------------------------------------------------------------
(* Control *)

Goto(p, label) == pc' = [pc EXCEPT ![p] = label]

\* The call of p goes on with the part of the code called label.
Proceed(p, label) == Goto(p, label) /\ UNCHANGED <<req, call, reply>>

\* The call of p returns (or throws) answer.
Answer(p, answer) ==
    /\ Goto(p, "idle")
    /\ req' = [req EXCEPT ![p] = None]
    /\ call' = [call EXCEPT ![p] = <<None, None>>]
    /\ reply' = [reply EXCEPT ![p] = answer]

Fault == faults < MaxFaults /\ faults' = faults + 1
NoFault == UNCHANGED faults

Free(r) == lock[r] = None
Unlock(p) == lock' = [r \in Req |-> IF lock[r] = p THEN None ELSE lock[r]]

Write(r, x) == row' = [row EXCEPT ![r] = x]

\* p is at label and its request's row is free, so it can lock and read it.
At(p, label) == pc[p] = label /\ Free(req[p])

\* A transaction of p that makes no external call commits x and goes on at
\* label, or the caller does not learn that its COMMIT took effect.
Commit(p, x, label) ==
    /\ Write(req[p], x)
    /\ \/ Proceed(p, label) /\ NoFault
       \/ Answer(p, "unknown") /\ Fault
    /\ UNCHANGED <<out, tx, lock>>

\* The transaction of p reads and goes on at label.
ReadOnly(p, label) == Proceed(p, label) /\ UNCHANGED <<row, out, tx, lock, faults>>

\* p takes the row's lock and starts the external calls at label.
Hold(p, label) ==
    /\ lock' = [lock EXCEPT ![req[p]] = p]
    /\ Proceed(p, label)
    /\ UNCHANGED <<row, out, batch, sent, faults>>

\* p's transaction is over, its lock released and its working copy gone.
Release(p) ==
    /\ Unlock(p)
    /\ pending' = [pending EXCEPT ![p] = {}]
    /\ sent' = [sent EXCEPT ![p] = {}]
    /\ UNCHANGED out

\* The COMMIT of a transaction that made external calls.  If it has timed out,
\* the database has given its lock away and it can only fail.
CommitHeld(p, x, Then) ==
    /\ \/ lock[req[p]] = p /\ Write(req[p], x) /\ Then /\ NoFault
       \/ lock[req[p]] = p /\ Write(req[p], x) /\ Answer(p, "unknown") /\ Fault
       \/ lock[req[p]] = p /\ UNCHANGED row /\ Answer(p, "unknown") /\ Fault
       \/ lock[req[p]] # p /\ UNCHANGED row /\ Answer(p, "unknown") /\ NoFault
    /\ Release(p)
    /\ UNCHANGED batch

-----------------------------------------------------------------------------
Init ==
    /\ row = [r \in Req |-> NoRow]
    /\ stored = [r \in Req |-> FALSE]
    /\ published = [r \in Req |-> {}]
    /\ expired = [r \in Req |-> FALSE]
    /\ lock = [r \in Req |-> None]
    /\ pc = [p \in Proc |-> "idle"]
    /\ req = [p \in Proc |-> None]
    /\ call = [p \in Proc |-> <<None, None>>]
    /\ batch = [p \in Proc |-> {}]
    /\ pending = [p \in Proc |-> {}]
    /\ sent = [p \in Proc |-> {}]
    /\ reply = [p \in Proc |-> "none"]
    /\ faults = 0

-----------------------------------------------------------------------------
(* Calls *)

\* p, idle, starts a call at label.
Begin(p, label) ==
    /\ pc[p] = "idle" /\ Goto(p, label)
    /\ reply' = [reply EXCEPT ![p] = "none"]
    /\ UNCHANGED <<row, out, lock, pending, sent, faults>>

\* DataSubjectService.export or erase with a requestKey.
CallExecute(p, k, y) ==
    /\ p \in Caller
    /\ Begin(p, "reserve")
    /\ call' = [call EXCEPT ![p] = <<k, y>>]
    /\ UNCHANGED <<req, batch>>

\* DataSubjectService.retryCompletion of a stored request.
CallRetry(p, r) ==
    /\ p \in Caller /\ Reserved(r)
    /\ Begin(p, "complete")
    /\ req' = [req EXCEPT ![p] = r]
    /\ UNCHANGED <<call, batch>>

\* expirePendingArtifacts reads its bounded list ...
ListExpired(p) ==
    /\ p \in Worker /\ batch[p] = {}
    /\ Begin(p, "idle")
    /\ \E rows \in SUBSET {r \in Req : Listable(row[r]) /\ expired[r]} :
        rows # {} /\ batch' = [batch EXCEPT ![p] = rows]
    /\ UNCHANGED <<req, call>>

\* ... and runs retryCompletion on each row of it; by then a row may have been
\* completed, or expired, by somebody else.
ExpireNext(p, r) ==
    /\ r \in batch[p]
    /\ Begin(p, "complete")
    /\ batch' = [batch EXCEPT ![p] = @ \ {r}]
    /\ req' = [req EXCEPT ![p] = r]
    /\ UNCHANGED call

-----------------------------------------------------------------------------
(* PrismaExecutionStore.reserve *)

Prior(k) == {r \in Req : row[r].key = k}

\* existing(): the key is taken; the call shares its request if the payload is
\* the same and is rejected otherwise.
Existing(p, r) ==
    \/ /\ row[r].payload = call[p][2]
       /\ req' = [req EXCEPT ![p] = r]
       /\ Goto(p, "execute")
       /\ UNCHANGED <<call, reply>>
    \/ row[r].payload # call[p][2] /\ Answer(p, "conflict")

\* The transaction looks for the key, and finds it or goes on to insert.
ReserveRead(p) ==
    /\ pc[p] = "reserve"
    /\ \/ \E r \in Prior(call[p][1]) : Existing(p, r)
       \/ Prior(call[p][1]) = {} /\ Proceed(p, "insert")
    /\ UNCHANGED <<row, out, tx, lock, faults>>

Insert(p, r) == ~Reserved(r) /\ Write(r, ReservedRow(call[p][1], call[p][2]))

\* Mutant: there is no unique index on the key.
MayInsertAlways(p) == TRUE

\* The unique index on the key admits the insert.
MayInsert(p) == Prior(call[p][1]) = {}

ReserveInsert(p) ==
    /\ pc[p] = "insert" /\ MayInsert(p)
    /\ \E r \in Req : Insert(p, r) /\ req' = [req EXCEPT ![p] = r]
    /\ Goto(p, "execute")
    /\ UNCHANGED <<out, call, tx, reply, lock, faults>>

\* A concurrent call won the key: read its row outside the transaction.
ReserveConflict(p) ==
    /\ pc[p] = "insert"
    /\ \E r \in Prior(call[p][1]) : Existing(p, r)
    /\ UNCHANGED <<row, out, tx, lock, faults>>

\* Any other error of reserve is reported as 'not_started', although the
\* reservation may have been committed.
ReserveFails(p) ==
    /\ pc[p] \in {"reserve", "insert"}
    /\ \/ UNCHANGED row
       \/ pc[p] = "insert" /\ MayInsert(p) /\ \E r \in Req : Insert(p, r)
    /\ Answer(p, "not_started")
    /\ Fault
    /\ UNCHANGED <<out, tx, lock>>

-----------------------------------------------------------------------------
(* DurableCoordinator.execute *)

ExecuteSettled(p) ==
    /\ At(p, "execute") /\ Settled(row[req[p]])
    /\ ReadOnly(p, "complete")

ExecuteCommits(p) ==
    /\ At(p, "execute") /\ ~Settled(row[req[p]])
    /\ Commit(p, Executed(row[req[p]]), "complete")

\* The work throws (policy or preview mismatch, an executor, or a verification
\* that finds residual rows) and its transaction is rolled back.
ExecuteThrows(p) ==
    /\ At(p, "execute") /\ ~Settled(row[req[p]])
    /\ \/ ReadOnly(p, "recordFailure")
       \/ row[req[p]].key \in EraseKey /\ ReadOnly(p, "recordResidual")

\* The failure is recorded in a second transaction ...
RecordFailure(p) ==
    /\ At(p, "recordFailure") \/ At(p, "recordResidual")
    /\ ~Settled(row[req[p]])
    /\ Commit(p, Failed(row[req[p]], pc[p] = "recordResidual"), "complete")

\* ... unless somebody else has settled the request between the two.
FailureOvertaken(p) ==
    /\ At(p, "recordFailure") \/ At(p, "recordResidual")
    /\ Settled(row[req[p]])
    /\ ReadOnly(p, "complete")

-----------------------------------------------------------------------------
(* DurableCoordinator.retryCompletion: the artifact transaction *)

\* Mutant: instead of failing, wait for the execution to commit.
CompleteWaits(p) ==
    /\ At(p, "complete") /\ NotCompletable(row[req[p]])
    /\ ReadOnly(p, "complete")

CompleteRejected(p) ==
    /\ At(p, "complete") /\ NotCompletable(row[req[p]])
    /\ Answer(p, "rejected")
    /\ UNCHANGED <<row, out, tx, lock, faults>>

\* No bytes to upload: completed, discarded, or failed without evidence.
NothingToUpload(p) ==
    /\ At(p, "complete")
    /\ ~NotCompletable(row[req[p]]) /\ ~Held(row[req[p]])
    /\ ReadOnly(p, "deliver")

ExpireArtifact(p) ==
    /\ At(p, "complete") /\ Settled(row[req[p]])
    /\ Expirable(row[req[p]]) /\ expired[req[p]]
    /\ Commit(p, Discarded(row[req[p]]), "deliver")

StartUpload(p) ==
    /\ At(p, "complete") /\ Settled(row[req[p]])
    /\ Held(row[req[p]]) /\ ~expired[req[p]]
    /\ Hold(p, "put")
    /\ UNCHANGED pending

\* artifactStorage.put succeeds, or throws, possibly after storing the bytes.
Store(r) == stored' = [stored EXCEPT ![r] = TRUE]

PutSucceeds(p) ==
    /\ pc[p] = "put"
    /\ Store(req[p])
    /\ Proceed(p, "saveUploaded")
    /\ UNCHANGED <<row, published, expired, tx, lock, faults>>

\* Mutant: the error of put is swallowed.
AfterPutThrowsSwallowed == "saveUploaded"

AfterPutThrows == "saveUploadFailed"

PutThrows(p) ==
    /\ pc[p] = "put"
    /\ UNCHANGED stored \/ Store(req[p])
    /\ Proceed(p, AfterPutThrows)
    /\ Fault
    /\ UNCHANGED <<row, published, expired, tx, lock>>

SaveUploaded(p) ==
    /\ pc[p] = "saveUploaded"
    /\ CommitHeld(p, Uploaded(row[req[p]]), Proceed(p, "deliver"))

SaveUploadFailed(p) ==
    /\ pc[p] = "saveUploadFailed"
    /\ CommitHeld(p, NotUploaded(row[req[p]]), Proceed(p, "deliver"))

-----------------------------------------------------------------------------
(* DurableCoordinator.deliverNotifications: the delivery transaction *)

\* The caller is given the stored request; its state is what matters here.
AnswerStored(p) == Answer(p, row[req[p]].state)

Undelivered(x) == x.notes \ x.delivered

NothingToDeliver(p) ==
    /\ At(p, "deliver") /\ Undelivered(row[req[p]]) = {}
    /\ AnswerStored(p)
    /\ UNCHANGED <<row, out, tx, lock, faults>>

StartDelivery(p) ==
    /\ At(p, "deliver") /\ Undelivered(row[req[p]]) # {}
    /\ pending' = [pending EXCEPT ![p] = Undelivered(row[req[p]])]
    /\ Hold(p, "publish")

\* One callback: it takes the notification, or throws, possibly after taking it.
Publish(p) ==
    /\ pc[p] = "publish"
    /\ \E n \in pending[p] :
        /\ \A m \in pending[p] : Rank(n) <= Rank(m)
        /\ pending' = [pending EXCEPT ![p] = @ \ {n}]
        /\ \/ /\ published' = [published EXCEPT ![req[p]] = @ \cup {n}]
              /\ sent' = [sent EXCEPT ![p] = @ \cup {n}]
              /\ NoFault
           \/ /\ \/ UNCHANGED published
                 \/ published' = [published EXCEPT ![req[p]] = @ \cup {n}]
              /\ UNCHANGED sent
              /\ Fault
    /\ UNCHANGED <<row, stored, expired, lock, pc, req, call, batch, reply>>

SaveDelivered(p) ==
    /\ pc[p] = "publish" /\ pending[p] = {}
    /\ CommitHeld(p, Delivered(row[req[p]], sent[p]), AnswerStored(p))

-----------------------------------------------------------------------------
(* Faults and time *)

InTransaction == {"put", "saveUploaded", "saveUploadFailed", "publish"}

\* A serialization abort after external calls: retrySerialization runs the
\* whole transaction again, external calls included.
Rerun(p) ==
    /\ pc[p] \in InTransaction \ {"put"} /\ lock[req[p]] = p
    /\ Proceed(p, IF pc[p] = "publish" THEN "deliver" ELSE "complete")
    /\ Release(p)
    /\ Fault
    /\ UNCHANGED <<row, batch>>

\* The database ends a transaction that has run too long; the process does not
\* know and goes on with its external calls.
TimeOut(p) ==
    /\ pc[p] \in InTransaction /\ lock[req[p]] = p
    /\ Unlock(p)
    /\ Fault
    /\ UNCHANGED <<row, out, pc, req, call, tx, reply>>

\* A transaction is aborted before it commits, or waits too long for its lock: the
\* error of p's call is the same as if its COMMIT had given no answer.
TransactionFails(p) ==
    /\ pc[p] \in {"execute", "recordFailure", "recordResidual", "complete", "deliver"}
    /\ Answer(p, "unknown")
    /\ Fault
    /\ UNCHANGED <<row, out, tx, lock>>

\* A process dies and starts afresh; its open transaction is rolled back.
Crash(p) ==
    /\ pc[p] # "idle" \/ batch[p] # {}
    /\ Answer(p, "none")
    /\ Release(p)
    /\ batch' = [batch EXCEPT ![p] = {}]
    /\ Fault
    /\ UNCHANGED row

TtlPasses(r) ==
    /\ Reserved(r) /\ ~expired[r]
    /\ expired' = [expired EXCEPT ![r] = TRUE]
    /\ UNCHANGED <<row, stored, published, lock, pc, req, call, tx, reply, faults>>

-----------------------------------------------------------------------------
\* The code of a call, once it has begun.
Step(p) ==
    \/ ReserveRead(p) \/ ReserveInsert(p) \/ ReserveConflict(p)
    \/ ReserveFails(p)
    \/ ExecuteSettled(p) \/ ExecuteCommits(p) \/ ExecuteThrows(p)
    \/ RecordFailure(p) \/ FailureOvertaken(p)
    \/ CompleteRejected(p) \/ NothingToUpload(p) \/ ExpireArtifact(p)
    \/ StartUpload(p) \/ PutSucceeds(p) \/ PutThrows(p)
    \/ SaveUploaded(p) \/ SaveUploadFailed(p)
    \/ NothingToDeliver(p) \/ StartDelivery(p) \/ Publish(p)
    \/ SaveDelivered(p)

ExpiryWorker(p) == ListExpired(p) \/ \E r \in Req : ExpireNext(p, r)

Next ==
    \/ \E p \in Proc :
        \/ Step(p) \/ ExpiryWorker(p)
        \/ Rerun(p) \/ TimeOut(p) \/ TransactionFails(p) \/ Crash(p)
        \/ \E k \in Key, y \in Payload : CallExecute(p, k, y)
        \/ \E r \in Req : CallRetry(p, r)
    \/ \E r \in Req : TtlPasses(r)

Spec == Init /\ [][Next]_vars

\* Processes run, and PostgreSQL queues the waiters of a row lock, so a step
\* that is possible again and again is taken.  The expiry worker is scheduled
\* and time passes.  Nothing makes a caller call.
Fairness ==
    /\ \A p \in Proc : SF_vars(Step(p))
    /\ \A p \in Worker : WF_vars(ExpiryWorker(p))
    /\ \A r \in Req : WF_vars(TtlPasses(r))

FairSpec == Spec /\ Fairness

-----------------------------------------------------------------------------
(* Properties *)

Label == {"idle", "reserve", "insert", "execute", "recordFailure",
          "recordResidual", "complete", "deliver"} \cup InTransaction

\* Types.  A call returns an error, or the state of a stored request.
TypeOK ==
    /\ row \in [Req -> Row]
    /\ stored \in [Req -> BOOLEAN]
    /\ published \in [Req -> SUBSET Note]
    /\ expired \in [Req -> BOOLEAN]
    /\ lock \in [Req -> Proc \cup {None}]
    /\ pc \in [Proc -> Label]
    /\ req \in [Proc -> Req \cup {None}]
    /\ call \in [Proc -> (Key \cup {None}) \X (Payload \cup {None})]
    /\ batch \in [Proc -> SUBSET Req]
    /\ pending \in [Proc -> SUBSET Note]
    /\ sent \in [Proc -> SUBSET Note]
    /\ reply \in [Proc -> {"none", "not_started", "conflict", "rejected", "unknown",
                           "created", "processing", "failed", "completed"}]
    /\ faults \in 0 .. MaxFaults

\* Duplicate and concurrent calls under one key share one request: the read and
\* the insert of reserve are two steps, and only the unique index stands between.
OneRequestPerKey ==
    \A q, r \in Req : Reserved(q) /\ row[q].key = row[r].key => q = r

\* The data subject's rows and the record change together: a request's entity
\* work has taken effect exactly once if its record has left 'pending', and not
\* at all otherwise, whatever crashed, was retried, or had an unknown outcome.
DataCommitsWithRecord ==
    \A r \in Req : row[r].effects = IF row[r].phase = "pending" THEN 0 ELSE 1

\* A request is completed exactly when its record is, and an artifact that the
\* record calls uploaded (completed, or evidence of a failed erasure) is in the
\* store, although put runs before, and apart from, the commit that says so.
CompletedIsStored ==
    \A r \in Req :
        /\ row[r].state = "completed" <=> row[r].phase = "completed"
        /\ row[r].phase = "completed" => row[r].artifact = "uploaded"
        /\ row[r].artifact = "uploaded" => stored[r]

\* After the data has changed, the evidence or export of it is never lost before
\* its time: the bytes are in the database, or in the store, or expired.  Hence
\* retryCompletion is never stuck on missing bytes (EvidenceReportInvalid).
EvidenceIsKept ==
    \A r \in Req :
        /\ row[r].phase = "data_committed" => row[r].artifact \in {"held", "discarded"}
        /\ row[r].artifact = "discarded" => expired[r]

\* The reason of a failure, and the recovery that the request and its artifact advise,
\* can be followed, now and after any number of retries: where they are to be retried the
\* bytes are still there, where they are said to have expired they are not, and the host
\* is told to inspect the data only if none was committed.  So a completed request
\* advises nothing.
AdviceHolds ==
    \A r \in Req :
        LET x == row[r]
            advice == {x.recovery, x.artifactFailure}
        IN  /\ x.reason = "write_failed" \/ "retry_artifact" \in advice => Held(x)
            /\ x.reason = "expired" \/ "artifact_expired" \in advice => x.artifact = "discarded"
            /\ x.recovery = "inspect_data" => x.effects = 0 /\ x.state = "failed"

\* A transactional outbox: what a callback has taken was committed before, and
\* what is marked delivered was taken, although callbacks run in transactions
\* that may be rolled back, run again, or outlive their lock.
OutboxIsDurable ==
    \A r \in Req :
        row[r].delivered \subseteq published[r] /\ published[r] \subseteq row[r].notes

\* No callback announces what is not so: an erasure that was rolled back, a
\* completion that did not happen, or both a completion and an expiry.
AnnouncementsAreTrue ==
    \A r \in Req : \A n \in published[r] :
        /\ n[2] = "erasure_requested" => row[r].effects = 1
        /\ n[2] = "completed" => row[r].state = "completed"
        /\ n[2] = "expired" => row[r].artifact = "discarded"

\* The request a call returns has come to an end: the caller is never handed one
\* that is still 'created' or 'processing'.
AnswersAreTerminal ==
    \A p \in Proc : reply[p] \notin {"created", "processing"}

\* A failed execution is never run again, by whatever key, retry or worker.
FailedIsFinal ==
    [][\A r \in Req :
          row[r].state = "failed" /\ row[r].phase = "pending" =>
              /\ row'[r].effects = row[r].effects
              /\ row'[r].phase = "pending" /\ row'[r].state = "failed"]_vars

\* Completion and loss are final, and a notification intent is never withdrawn.
OutcomesAreFinal ==
    [][\A r \in Req :
          /\ row[r].state = "completed" => row'[r].state = "completed"
          /\ row[r].artifact = "discarded" => row'[r].artifact = "discarded"
          /\ row[r].notes \subseteq row'[r].notes
          /\ row[r].delivered \subseteq row'[r].delivered]_vars

\* The scheduled worker erases the bytes of every expired artifact.
ExpiredBytesAreErased ==
    \A r \in Req : (Held(row[r]) /\ expired[r]) ~> ~Held(row[r])

\* No call waits for ever, on another's row lock or on its own retries.
CallsReturn == \A p \in Proc : (pc[p] # "idle") ~> (pc[p] = "idle")

-----------------------------------------------------------------------------
(* The inductive invariant *)

Terminal == {"failed", "completed"}

\* One request: x is its row, s whether its artifact is stored, pub what has been
\* published about it, e whether its TTL has passed.  Beyond the properties above:
\* what is only intended (notes) is already true, an absent row is blank, and a
\* failed write or an expiry is one of a committed execution.
RowOK(x, s, pub, e) ==
    /\ x.effects = IF x.phase = "pending" THEN 0 ELSE 1
    /\ x.state = "completed" <=> x.phase = "completed"
    /\ x.phase = "completed" => x.artifact = "uploaded"
    /\ x.phase = "data_committed" => x.artifact \in {"held", "discarded"}
    /\ x.artifact = "uploaded" => s
    /\ x.artifact = "discarded" => e /\ x.state = "failed"
    /\ x.reason = "write_failed" => Held(x) /\ x.phase = "data_committed"
    /\ x.reason = "expired" => x.artifact = "discarded"
    /\ x.recovery = "retry_artifact" => Held(x) /\ x.phase = "data_committed"
    /\ x.artifactFailure = "retry_artifact" => Held(x) /\ x.phase = "pending"
    /\ "artifact_expired" \in {x.recovery, x.artifactFailure} => x.artifact = "discarded"
    /\ x.recovery = "inspect_data" => x.phase = "pending" /\ x.state = "failed"
    /\ x.delivered \subseteq pub /\ pub \subseteq x.notes
    /\ \A n \in x.notes :
        /\ n[2] = "erasure_requested" => x.effects = 1
        /\ n[2] = "completed" => x.state = "completed"
        /\ n[2] = "expired" => x.artifact = "discarded"
    /\ x.key = None => x = NoRow

\* One process: it works on a stored request; while it holds the lock for an
\* upload the bytes are there; what it will mark delivered is published; it
\* delivers about, and returns, requests that have come to an end.
ProcOK(p) ==
    /\ pc[p] \notin {"idle", "reserve", "insert"} => req[p] \in Req /\ Reserved(req[p])
    /\ pc[p] \in {"put", "saveUploaded", "saveUploadFailed"} /\ lock[req[p]] = p =>
          Held(row[req[p]]) /\ Settled(row[req[p]])
    /\ pc[p] = "saveUploaded" => stored[req[p]]
    /\ pc[p] = "publish" => /\ pending[p] \subseteq row[req[p]].notes
                            /\ sent[p] \subseteq published[req[p]]
    /\ pc[p] # "publish" => sent[p] = {}
    /\ pc[p] \in {"reserve", "insert"} => call[p][1] # None
    /\ pc[p] \in {"deliver", "publish"} => row[req[p]].state \in Terminal
    /\ \A r \in batch[p] : Reserved(r)
    /\ reply[p] \notin {"created", "processing"}

\* A lock is held only by a transaction that makes external calls for its row.
LockOK(r) == lock[r] # None => pc[lock[r]] \in InTransaction /\ req[lock[r]] = r

\* Every step of the specification preserves Inv, and Inv implies the invariants.
Inv ==
    /\ TypeOK
    /\ OneRequestPerKey
    /\ \A r \in Req : RowOK(row[r], stored[r], published[r], expired[r])
    /\ \A r \in Req : LockOK(r)
    /\ \A p \in Proc : ProcOK(p)

-----------------------------------------------------------------------------
(* Refinement *)

\* Where the request of row x is in its life.
Life(x) ==
    IF x.key = None THEN "absent"
    ELSE IF x.phase = "pending" THEN IF x.state = "failed" THEN "refused" ELSE "accepted"
    ELSE IF x.phase = "completed" THEN "completed"
    ELSE IF x.artifact = "discarded" THEN "lost" ELSE "executed"

Lifecycle == INSTANCE RequestLifecycle WITH
    status <- [r \in Req |-> Life(row[r])],
    effects <- [r \in Req |-> row[r].effects],
    heard <- [r \in Req |-> {n[2] : n \in published[r]}]

\* Durable execution implements the request lifecycle: entity work at most once,
\* outcomes final, and nothing announced before it is true.
ImplementsLifecycle == Lifecycle!Spec
===============================================================================
