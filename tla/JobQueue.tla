------------------------------- MODULE JobQueue -------------------------------
(***************************************************************************)
(* The PostgreSQL job queue: PostgresJobStore                               *)
(* (src/src/jobs/postgres-job-store.ts, src/prisma/p2-jobs.sql).            *)
(*                                                                         *)
(* Workers run one page of a job at a time: runNext claims a due row with   *)
(* FOR UPDATE SKIP LOCKED and runs the handler, which does the page's       *)
(* business work and may append one chunk, inside the same transaction; the *)
(* page, its chunk and its checkpoint commit together.  A page that fails   *)
(* is rolled back and recorded by a second transaction, which may come      *)
(* late.  Cancellation, retry, cleanup, expiry and readers run beside them. *)
(*                                                                         *)
(* Every other transaction makes no call outside the database and is one    *)
(* step; it waits for the row lock.  A fault is a crash, a transaction that *)
(* times out or is aborted, or a COMMIT that gives no answer.               *)
(***************************************************************************)
EXTENDS Naturals, FiniteSets

CONSTANTS
    Job,          \* (tenant, kind, idempotencyKey) triples: one row each
    Worker,       \* processes that call runNext
    Cleaner,      \* processes that call deleteChunks
    Reader,       \* processes that iterate over readChunks
    MaxAttempts,  \* opts.maxAttempts
    Batch,        \* chunks deleted by one transaction (1000 in the code)
    Limit,        \* jobs purged by one purgeExpiredChunks
    MaxPages,     \* bound on the pages of a job
    MaxRetries,   \* bound on the retries of a behaviour
    MaxFaults,    \* bound on the faults of a behaviour
    None          \* no job, no checkpoint, no lock holder

Proc == Worker \cup Cleaner \cup Reader

\* How a call that names no job may end.
Answer == {"none", "rejected", "unavailable", "whole"}

ASSUME ConstantsOK ==
    /\ Worker \cap (Cleaner \cup Reader) = {} /\ Cleaner \cap Reader = {}
    /\ MaxAttempts \in Nat \ {0} /\ Batch \in Nat \ {0} /\ Limit \in Nat \ {0}
    /\ MaxPages \in Nat \ {0} /\ MaxRetries \in Nat /\ MaxFaults \in Nat
    /\ None \notin Proc \cup Job \cup Nat /\ Answer \cap Job = {}

VARIABLES
    job,      \* the row of each job
    chunks,   \* the indices of its chunk rows
    expired,  \* expiresAt has passed
    waiting,  \* availableAt has not passed
    lock,     \* the worker whose page holds the row
    pc, at,   \* what a process is doing, and for which job
    seen,     \* a worker: the row it has claimed
    total,    \* a reader: the chunks to read
    next,     \* a reader: the next index
    reply,    \* how the last deleteChunks or readChunks of a process ended
    ran,      \* history: how often the business work of each page took effect
    throws,   \* history: failed pages since the last committed page or retry
    retries, faults

time    == <<expired, waiting>>
history == <<ran, throws>>
vars    == <<job, chunks, time, lock, pc, at, seen, total, next, reply, history, retries,
          faults>>

-----------------------------------------------------------------------------
(* Rows *)

Row == [state: {"absent", "queued", "completed", "failed", "cancelled"},
        attempts: Nat, revision: Nat,
        checkpoint: {None} \cup Nat,  \* the page to resume at; None is the start
        pages: Nat, written: Nat,     \* pagesCommitted, chunksWritten
        changed: BOOLEAN,             \* hasCommittedChanges
        deleted: BOOLEAN,             \* chunksDeletedAt is set
        purged: BOOLEAN]              \* purgedAt is set; the payload is gone

NoRow == [state |-> "absent", attempts |-> 0, revision |-> 0, checkpoint |-> None,
          pages |-> 0, written |-> 0, changed |-> FALSE, deleted |-> FALSE,
          purged |-> FALSE]

Exists(j) == job[j].state # "absent"
Queued(j) == job[j].state = "queued"

\* The page the handler runs for a row: it only knows the checkpoint.
PageOf(x) == IF x.checkpoint = None THEN 0 ELSE x.checkpoint

\* The chunk rows that one cleanup transaction leaves: it takes the lowest first.
Rest(c) == {i \in c : Cardinality({h \in c : h < i}) >= Batch}

\* Mutant: one batch is taken to be enough.
SweptAtOnce(c) == TRUE

\* It deleted fewer than a batch, so none are left.
Swept(c) == Cardinality(c) < Batch

\* The row x after a page of a worker that claimed it as old: counters are added
\* to in SQL, the checkpoint and the flag are set to what the worker computed.
Paged(x, old, done, chunk, change) ==
    [x EXCEPT !.state = IF done THEN "completed" ELSE "queued",
              !.checkpoint = PageOf(old) + 1, !.pages = @ + 1,
              !.written = @ + (IF chunk THEN 1 ELSE 0),
              !.changed = old.changed \/ change,
              !.attempts = 0, !.revision = @ + 1]

\* The row after a failed page.
Failed(x) ==
    [x EXCEPT !.attempts = @ + 1, !.revision = @ + 1,
              !.state = IF x.attempts + 1 >= MaxAttempts THEN "failed" ELSE "queued"]

Cancelled(x) == [x EXCEPT !.state = "cancelled", !.revision = @ + 1]

Resumed(x) == [x EXCEPT !.state = "queued", !.attempts = 0, !.revision = @ + 1]

Discarded(x) == [x EXCEPT !.deleted = TRUE, !.revision = @ + 1]

\* Mutant: chunksDeletedAt is set once no chunk row is left.
MarkedAtEnd(x, c) == IF Swept(c) /\ ~x.deleted THEN Discarded(x) ELSE x

\* deleteChunks' update, with its first batch.
Marked(x, c) == IF x.deleted THEN x ELSE Discarded(x)

\* purgeOne's update, of a row whose last chunk rows are gone, or not yet.
Purged(x, complete) ==
    [x EXCEPT !.state = IF @ = "queued" THEN "failed" ELSE @,
              !.checkpoint = None, !.deleted = TRUE, !.purged = complete,
              !.revision = @ + 1]

-----------------------------------------------------------------------------
(* Control *)

Fault == faults < MaxFaults /\ faults' = faults + 1
NoFault == UNCHANGED faults

Free(j) == lock[j] = None

\* Process p goes on at label, or has returned.
Goto(p, label) == pc' = [pc EXCEPT ![p] = label]
Return(p, answer) ==
    /\ Goto(p, "idle")
    /\ at' = [at EXCEPT ![p] = None]
    /\ seen' = [seen EXCEPT ![p] = NoRow]
    /\ total' = [total EXCEPT ![p] = 0]
    /\ next' = [next EXCEPT ![p] = 0]
    /\ reply' = [reply EXCEPT ![p] = answer]
Stay == UNCHANGED <<pc, at, seen, total, next, reply>>

Write(j, x) == job' = [job EXCEPT ![j] = x]

\* The end of the transaction that runs w's page.
Release(w) == lock' = [j \in Job |-> IF lock[j] = w THEN None ELSE lock[j]]

\* purgeOne for each job of a set, in one transaction.
PurgeAll(jobs) ==
    /\ chunks' = [j \in Job |-> IF j \in jobs THEN Rest(chunks[j]) ELSE chunks[j]]
    /\ job' = [j \in Job |-> IF j \in jobs THEN Purged(job[j], Swept(chunks[j]))
                                           ELSE job[j]]

-----------------------------------------------------------------------------
Init ==
    /\ job = [j \in Job |-> NoRow]
    /\ chunks = [j \in Job |-> {}]
    /\ expired = [j \in Job |-> FALSE]
    /\ waiting = [j \in Job |-> FALSE]
    /\ lock = [j \in Job |-> None]
    /\ pc = [p \in Proc |-> "idle"]
    /\ at = [p \in Proc |-> None]
    /\ seen = [p \in Proc |-> NoRow]
    /\ total = [p \in Proc |-> 0]
    /\ next = [p \in Proc |-> 0]
    /\ reply = [p \in Proc |-> "none"]
    /\ ran = [j \in Job |-> [n \in 0 .. MaxPages |-> 0]]
    /\ throws = [j \in Job |-> 0]
    /\ retries = 0
    /\ faults = 0

-----------------------------------------------------------------------------
(* submit, cancel and retry *)

\* A second submission under the key finds the row and changes nothing.
Submit(j) ==
    /\ ~Exists(j)
    /\ Write(j, [NoRow EXCEPT !.state = "queued"])
    /\ Stay
    /\ UNCHANGED <<chunks, time, lock, history, retries, faults>>

Cancel(j) ==
    /\ Exists(j) /\ Free(j)
    /\ job[j].state \notin {"completed", "cancelled"}
    /\ Write(j, Cancelled(job[j]))
    /\ Stay
    /\ UNCHANGED <<chunks, time, lock, history, retries, faults>>

\* Mutants: any ended job may be resumed; deleted chunks do not matter.
ResumableEnded(j) ==
    job[j].state \in {"failed", "cancelled", "completed"} /\ ~job[j].deleted
ResumableDeleted(j) == job[j].state \in {"failed", "cancelled"}

Resumable(j) == job[j].state \in {"failed", "cancelled"} /\ ~job[j].deleted

Retry(j) ==
    /\ Free(j) /\ ~expired[j] /\ ~job[j].purged /\ Resumable(j)
    /\ retries < MaxRetries /\ retries' = retries + 1
    /\ Write(j, Resumed(job[j]))
    /\ waiting' = [waiting EXCEPT ![j] = FALSE]
    /\ throws' = [throws EXCEPT ![j] = 0]
    /\ Stay
    /\ UNCHANGED <<chunks, expired, lock, ran, faults>>

-----------------------------------------------------------------------------
(* runNext: one page *)

\* Mutant: a job that has failed a page is left alone.
ClaimableFresh(j) == Queued(j) /\ ~waiting[j] /\ Free(j) /\ job[j].attempts = 0

\* A due row that no other transaction holds (SKIP LOCKED).  Among several the
\* code takes the one that is due longest; here it is any.
Claimable(j) == Queued(j) /\ ~waiting[j] /\ Free(j)

Claim(w, j) ==
    /\ pc[w] = "idle" /\ Claimable(j) /\ ~expired[j]
    /\ lock' = [lock EXCEPT ![j] = w]
    /\ Goto(w, "handle")
    /\ at' = [at EXCEPT ![w] = j]
    /\ seen' = [seen EXCEPT ![w] = job[j]]
    /\ UNCHANGED <<job, chunks, time, total, next, reply, history, retries, faults>>

\* An expired row is purged instead.
ClaimExpired(w, j) ==
    /\ pc[w] = "idle" /\ Claimable(j) /\ expired[j]
    /\ PurgeAll({j})
    /\ Stay
    /\ UNCHANGED <<time, lock, history, retries, faults>>

\* Mutants: the claim's check of expiry is enough; a page that lost its
\* transaction commits through another connection.
MayCommitExpired(w) == lock[at[w]] = w
MayCommitUnlocked(w) == ~expired[at[w]]

\* The transaction is still w's and the final UPDATE finds the row unexpired.
MayCommit(w) == lock[at[w]] = w /\ ~expired[at[w]]

\* The page takes effect: its business work, its chunk, its checkpoint.
Page(j, old, done, chunk, change) ==
    /\ chunk => old.written \notin chunks[j]
    /\ Write(j, Paged(job[j], old, done, chunk, change))
    /\ chunks' = [chunks EXCEPT ![j] = @ \cup (IF chunk THEN {old.written} ELSE {})]
    /\ ran' = [ran EXCEPT ![j][PageOf(old)] = @ + 1]
    /\ throws' = [throws EXCEPT ![j] = 0]
    /\ waiting' = [waiting EXCEPT ![j] = FALSE]

\* The handler returns a step and the transaction commits, whether or not the
\* worker learns of it.
CommitPage(w, done, chunk, change) ==
    /\ pc[w] = "handle" /\ MayCommit(w)
    /\ job[at[w]].pages < MaxPages
    /\ done \/ job[at[w]].pages + 1 < MaxPages
    /\ Page(at[w], seen[w], done, chunk, change)
    /\ Release(w)
    /\ Return(w, "none")
    /\ UNCHANGED <<expired, retries, faults>>

\* The handler throws, or its transaction is gone, or the row has expired: the
\* page is rolled back, and w will record the failure.
FailPage(w) ==
    /\ pc[w] = "handle"
    /\ Release(w)
    /\ Goto(w, "record")
    /\ throws' = [throws EXCEPT ![at[w]] =
                    IF seen[w].revision = job[at[w]].revision THEN @ + 1 ELSE @]
    /\ UNCHANGED <<job, chunks, time, at, seen, total, next, reply, ran, retries, faults>>

\* A serialization abort, or a COMMIT that failed without an answer: the page is
\* rolled back, and not recorded.
AbortPage(w) ==
    /\ pc[w] = "handle"
    /\ Release(w)
    /\ Return(w, "none")
    /\ Fault
    /\ UNCHANGED <<job, chunks, time, history, retries>>

\* Mutant: the failure is recorded against any row that is still queued.
SameRevisionQueued(w) == Queued(at[w])

\* recordFailure: nobody has changed the row since it was claimed.
SameRevision(w) == job[at[w]].revision = seen[w].revision /\ Queued(at[w])

RecordFailure(w) ==
    /\ pc[w] = "record" /\ Free(at[w]) /\ SameRevision(w)
    /\ \/ /\ expired[at[w]]
          /\ PurgeAll({at[w]})
          /\ UNCHANGED waiting
       \/ /\ ~expired[at[w]]
          /\ Write(at[w], Failed(job[at[w]]))
          /\ waiting' = [waiting EXCEPT ![at[w]] = TRUE]
          /\ UNCHANGED chunks
    /\ Return(w, "none")
    /\ UNCHANGED <<expired, lock, history, retries, faults>>

\* Another worker, a cancellation or a purge came first.
FailureOvertaken(w) ==
    /\ pc[w] = "record" /\ Free(at[w]) /\ ~SameRevision(w)
    /\ Return(w, "none")
    /\ UNCHANGED <<job, chunks, time, lock, history, retries, faults>>

-----------------------------------------------------------------------------
(* deleteChunks: one transaction per batch *)

StartDelete(c, j) ==
    /\ pc[c] = "idle" /\ Exists(j)
    /\ Goto(c, "delete")
    /\ at' = [at EXCEPT ![c] = j]
    /\ reply' = [reply EXCEPT ![c] = "none"]
    /\ UNCHANGED <<job, chunks, time, lock, seen, total, next, history, retries, faults>>

DeleteBatch(c) ==
    /\ pc[c] = "delete" /\ Free(at[c]) /\ ~Queued(at[c])
    /\ chunks' = [chunks EXCEPT ![at[c]] = Rest(@)]
    /\ Write(at[c], Marked(job[at[c]], chunks[at[c]]))
    /\ IF Swept(chunks[at[c]]) THEN Return(c, at[c]) ELSE Stay
    /\ UNCHANGED <<time, lock, history, retries, faults>>

\* 'cancel the job before cleanup'.
DeleteRejected(c) ==
    /\ pc[c] = "delete" /\ Free(at[c]) /\ Queued(at[c])
    /\ Return(c, "rejected")
    /\ UNCHANGED <<job, chunks, time, lock, history, retries, faults>>

-----------------------------------------------------------------------------
(* readChunks: one query per chunk, outside any transaction *)

Readable(j) == job[j].state = "completed" /\ ~job[j].deleted /\ ~expired[j]

StartRead(r, j) ==
    /\ pc[r] = "idle" /\ Readable(j)
    /\ Goto(r, "read")
    /\ at' = [at EXCEPT ![r] = j]
    /\ total' = [total EXCEPT ![r] = job[j].written]
    /\ reply' = [reply EXCEPT ![r] = "none"]
    /\ UNCHANGED <<job, chunks, time, lock, seen, next, history, retries, faults>>

ReadChunk(r) ==
    /\ pc[r] = "read" /\ next[r] < total[r]
    /\ Readable(at[r]) /\ next[r] \in chunks[at[r]]
    /\ next' = [next EXCEPT ![r] = @ + 1]
    /\ UNCHANGED <<job, chunks, time, lock, pc, at, seen, total, reply, history,
                   retries, faults>>

\* 'export chunk is unavailable': the reader has got a part and is told so.
ReadFails(r) ==
    /\ pc[r] = "read" /\ next[r] < total[r]
    /\ ~(Readable(at[r]) /\ next[r] \in chunks[at[r]])
    /\ Return(r, "unavailable")
    /\ UNCHANGED <<job, chunks, time, lock, history, retries, faults>>

ReadEnds(r) ==
    /\ pc[r] = "read" /\ next[r] = total[r]
    /\ Return(r, "whole")
    /\ UNCHANGED <<job, chunks, time, lock, history, retries, faults>>

-----------------------------------------------------------------------------
(* Time, retention and faults *)

\* Mutant: a job whose chunks are marked deleted is taken to be purged.
PurgeableFresh ==
    {j \in Job : Exists(j) /\ expired[j] /\ ~job[j].deleted /\ Free(j)}

\* purgeExpiredChunks: as many expired rows as the limit allows, skipping locked.
Purgeable == {j \in Job : Exists(j) /\ expired[j] /\ ~job[j].purged /\ Free(j)}

PurgeExpired ==
    /\ Purgeable # {}
    /\ \E jobs \in SUBSET Purgeable :
        /\ Cardinality(jobs) = Limit \/ (jobs = Purgeable /\ Cardinality(jobs) < Limit)
        /\ PurgeAll(jobs)
    /\ Stay
    /\ UNCHANGED <<time, lock, history, retries, faults>>

Expire(j) ==
    /\ Exists(j) /\ ~expired[j]
    /\ expired' = [expired EXCEPT ![j] = TRUE]
    /\ Stay
    /\ UNCHANGED <<job, chunks, waiting, lock, history, retries, faults>>

BackoffPasses(j) ==
    /\ waiting[j]
    /\ waiting' = [waiting EXCEPT ![j] = FALSE]
    /\ Stay
    /\ UNCHANGED <<job, chunks, expired, lock, history, retries, faults>>

\* The database ends a page's transaction that has run too long; the handler does
\* not know.
TimeOut(w) ==
    /\ pc[w] = "handle" /\ lock[at[w]] = w
    /\ Release(w)
    /\ Stay
    /\ Fault
    /\ UNCHANGED <<job, chunks, time, history, retries>>

\* A process dies, or its transaction fails, and what it was doing ends.
Crash(p) ==
    /\ pc[p] # "idle"
    /\ Release(p)
    /\ Return(p, "none")
    /\ Fault
    /\ UNCHANGED <<job, chunks, time, history, retries>>

-----------------------------------------------------------------------------
RunPage(w) ==
    \/ \E done, chunk, change \in BOOLEAN : CommitPage(w, done, chunk, change)
    \/ FailPage(w) \/ RecordFailure(w) \/ FailureOvertaken(w)

RunNext(w) == \E j \in Job : Claim(w, j) \/ ClaimExpired(w, j)

Cleanup(c) == DeleteBatch(c) \/ DeleteRejected(c)

Read(r) == ReadChunk(r) \/ ReadFails(r) \/ ReadEnds(r)

Next ==
    \/ \E j \in Job :
        \/ Submit(j) \/ Cancel(j) \/ Retry(j) \/ Expire(j) \/ BackoffPasses(j)
        \/ \E c \in Cleaner : StartDelete(c, j)
        \/ \E r \in Reader : StartRead(r, j)
    \/ \E w \in Worker : RunNext(w) \/ RunPage(w) \/ AbortPage(w) \/ TimeOut(w)
    \/ \E c \in Cleaner : Cleanup(c)
    \/ \E r \in Reader : Read(r)
    \/ \E p \in Proc : Crash(p)
    \/ PurgeExpired

Spec == Init /\ [][Next]_vars

\* Workers poll, the purge is scheduled, readers iterate to the end, and a backoff
\* passes.  Nothing makes a job expire before it ends by itself.  Row locks are queued by
\* PostgreSQL, so a cleanup or a failure record that waits gets its turn.
Fairness ==
    /\ \A w \in Worker : WF_vars(RunNext(w)) /\ SF_vars(RunPage(w))
    /\ \A c \in Cleaner : SF_vars(Cleanup(c))
    /\ \A r \in Reader : WF_vars(Read(r))
    /\ \A j \in Job : WF_vars(BackoffPasses(j))
    /\ WF_vars(PurgeExpired)

FairSpec == Spec /\ Fairness

-----------------------------------------------------------------------------
(* Properties *)

\* Types.
TypeOK ==
    /\ job \in [Job -> Row]
    /\ chunks \in [Job -> SUBSET (0 .. MaxPages)]
    /\ expired \in [Job -> BOOLEAN] /\ waiting \in [Job -> BOOLEAN]
    /\ lock \in [Job -> Worker \cup {None}]
    /\ pc \in [Proc -> {"idle", "handle", "record", "delete", "read"}]
    /\ at \in [Proc -> Job \cup {None}]
    /\ seen \in [Proc -> Row]
    /\ total \in [Proc -> Nat] /\ next \in [Proc -> Nat]
    /\ reply \in [Proc -> Answer \cup Job]
    /\ ran \in [Job -> [0 .. MaxPages -> Nat]]
    /\ throws \in [Job -> Nat]
    /\ retries \in 0 .. MaxRetries /\ faults \in 0 .. MaxFaults

\* Types; and the business work of each page takes effect once, in order: a page is never
\* repeated or skipped, though its worker may crash, time out while another takes
\* the job over, or not learn that it committed.
PagesRunOnce ==
    /\ TypeOK
    /\ \A j \in Job : \A n \in 0 .. MaxPages :
        ran[j][n] = IF n < job[j].pages THEN 1 ELSE 0

\* The chunk rows of a job are the pages' chunks in order without a gap, until a
\* cleanup that the row admits to eats them from the front.
ChunksAreContiguous ==
    \A j \in Job : \E first \in 0 .. job[j].written :
        /\ chunks[j] = first .. (job[j].written - 1)
        /\ first # 0 => job[j].deleted

\* A row that says it is purged has nothing left to purge, whichever of the three
\* paths to purgeOne purged it, in however many batches.  And once deleteChunks has
\* returned, the job has no chunk rows, and gets none: not by a resumption between two
\* batches, nor by a page that was still running.
CleanupHolds ==
    /\ \A j \in Job : job[j].purged =>
        /\ chunks[j] = {} /\ job[j].checkpoint = None /\ job[j].deleted
        /\ expired[j] /\ ~Queued(j)
    /\ \A c \in Cleaner : reply[c] \in Job => chunks[reply[c]] = {}

\* A job is only charged for consecutive failures that happened to it as it is
\* now: a failure recorded late, after another worker's page or a resumption, does
\* not count, and a job that has not expired fails after MaxAttempts of them.
AttemptsAreReal ==
    \A j \in Job :
        /\ job[j].attempts <= throws[j]
        /\ Queued(j) => job[j].attempts < MaxAttempts
        /\ job[j].state = "failed" => job[j].attempts >= MaxAttempts \/ expired[j]

\* A reader that comes to the end has read every chunk of the completed job, one
\* query at a time, and the number it took at the start is still right.
ReadsAreWhole ==
    \A r \in Reader : pc[r] = "read" =>
        /\ total[r] = job[at[r]].written
        /\ job[at[r]].state = "completed"

\* No page of a job takes effect, and no chunk of it is stored, after its
\* retention has ended, although its handler may have begun before.
NoPageAfterExpiry ==
    [][\A j \in Job : expired[j] =>
          ran'[j] = ran[j] /\ chunks'[j] \subseteq chunks[j]]_vars

\* A queued job does not stay queued for ever, however its pages fail; and workers,
\* cleanups and readers come to an end, though they wait for each other's row lock.
JobsEnd ==
    /\ \A j \in Job : Queued(j) ~> ~Queued(j)
    /\ \A p \in Proc : (pc[p] # "idle") ~> (pc[p] = "idle")

\* Expired data is purged to the last chunk, though every transaction deletes but
\* one batch and the row stops being queued with the first.
ExpiredIsPurged == \A j \in Job : (Exists(j) /\ expired[j]) ~> job[j].purged

-----------------------------------------------------------------------------
(* Refinement *)

Lifecycle == INSTANCE JobLifecycle WITH
    status <- [j \in Job |-> IF job[j].deleted THEN "erased" ELSE job[j].state],
    work <- [j \in Job |-> job[j].pages],
    output <- [j \in Job |-> IF job[j].deleted THEN 0 ELSE Cardinality(chunks[j])],
    partial <- [j \in Job |-> job[j].changed]

\* The queue implements the life of a job: pages as wholes, one after the other,
\* only while it is queued, and erasure for good.
ImplementsLifecycle == Lifecycle!Spec
===============================================================================
