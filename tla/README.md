# Formal models of @nestarc/data-subject

TLA+ models of the data-subject request library in `src/`, checked with TLC and
proved with TLAPS. The library answers GDPR-style
requests: it erases or exports everything a host application holds about one
subject of one tenant, and leaves a record and an artifact (a report of the
erasure, or the export) that tell what happened. What can go wrong is rarely in
one function. It is in the gaps between a data commit, a request row, an artifact
store, notification callbacks and several processes that share them.

File names below are relative to `src/src/`, those of the examples to `src/`.

## 1. Inventory

| Part | Source | State | Operations | Modelled |
| --- | --- | --- | --- | --- |
| Durable execution | `durable-coordinator.ts`, `storage/prisma-execution-store.ts` | request row, execution record (phase, retry payload, notification list), the row lock | `execute`, `retryCompletion`, `deliverNotifications`, `reserve`, `withLock`, `listExpiredArtifacts`, `expirePendingArtifacts` | `DurableExecution`, `RequestLifecycle` |
| Job queue | `jobs/postgres-job-store.ts`, `../prisma/p2-jobs.sql` | job rows, chunk rows | `submit`, `cancel`, `retry`, `runNext`, `readChunks`, `deleteChunks`, `purgeExpiredChunks`, `get` | `JobQueue`, `JobLifecycle` |
| Paged privacy | `jobs/paged-privacy.ts`, `prisma/paged-from-prisma.ts` | the checkpoint of a job, the tables | the page handler; `highWatermark`, `readPage`, `selectByIds`, `eraseByIds`, `updateByIds` | `PagedPrivacy` |
| Immediate execution | `data-subject.service.ts`, the two request storages | the request row, locals of one call | `erase`/`export` without a durable store | `ImmediateExecution` |
| Erase runner, previews | `erase-runner.ts`, `erasure-plan.ts`, `preview.ts` | a snapshot, a plan | `run`, `captureErasureSnapshot`, `issue`, `verify` | `ErasureRun` (partly) |
| Transcend adapter | `integrations/transcend.ts` | sealed job payload and checkpoint | `receive`, `processStep` | `TranscendJob` (partly) |
| Private artifact storage | `examples/private-artifacts/` | the objects of a bucket | `put`, `get`, `signDownload`, `cleanup`, authorized downloads | `ArtifactBucket` |
| Registry, policies | `registry.ts`, `policy-compiler.ts`, `registry-validation.ts`, ... | a map of policies; of `list()`, its counts | `register`, `registerDefinition`, `list`, `validateRegistry` | `Registry`, `LintedErasure` |
| Schema lint, CLI | `lint/`, `cli.ts` | none | `lintPrismaSchema`; the parser | `LintedErasure` (partly) |
| Exports, evidence, hashing | `export-runner.ts`, `artifacts.ts`, `erasure-evidence.ts`, `stable-json.ts` | none | formatting | no |
| Nest module, types | `data-subject.module.ts`, `types.ts`, ... | none | wiring | no |

How they interact. `DataSubjectService` is the entry point. With a durable store it
delegates to `DurableCoordinator`, which splits a request into three transactions of
the store (data; artifact and status; notifications), each under the row lock of the
request's execution row, with the artifact upload and the callbacks inside the
second and third. Without a durable store the service runs the same stages as a
chain of separate calls of host code. Large subjects go through the job queue
instead: workers claim a job and run one page of it in one transaction, and the
paged privacy handler is the code of a page. The Transcend adapter is another page
handler, which calls the durable path from inside a job. Artifact store, callbacks
and the application that shares the tables belong to the host; the artifact store that
the repository gives as an example is a private S3 bucket, which workers, readers and a
scheduled cleanup share. Every erasure, export and preview goes through the entities in
the order of the registry's `list()`; the lint tells a host beforehand whether its
policies suit its schema.

What is hard:

* **Durable execution.** Callers with one key race through `reserve`; a commit may
  give no answer; a failure is recorded by a second transaction that may come late; an
  upload cannot be rolled back; callbacks are delivered at least once from within a
  transaction that may be run again or outlive its lock; retries, duplicate calls and
  the expiry worker compete. Correct means: one request per key, data and record
  commit together and once, a failure is final, the artifact exists wherever a row
  says so, advice and notifications are true.
* **Job queue.** A worker works from the row it read at its claim; its transaction may
  be gone when it commits; failures are recorded late; chunk cleanup and purging take
  many transactions; reading takes one query per chunk. Correct means: each page takes
  effect once and in order, only real failures count, chunks are a gapless prefix,
  nothing is written after expiry, a cleanup is final, every job ends.
* **Paged privacy.** Between two pages the application goes on writing, and the next
  page may run on a worker with another policy. Correct means: every row that was
  there at the first page and was left alone is dealt with exactly once; and a job that stops half-way
  says whether it has changed anything.
* **Immediate execution.** Every call fails before or after taking effect, or never
  returns. Correct means: what the row, the error, the advice and the notifications
  claim is never more than what is so.
* **Erase runner.** Without a serializable transaction the application writes between
  the snapshot, the writes and the verification, registers entities, and a deletion
  cascades into other entities. Correct means: success is only reported when every row
  that was seen, and that nobody else has touched, is dealt with as its policy says; and
  an approved erasure writes what its preview showed: it rewrites, deletes or has the database delete
  no other row, unless the application has changed it meanwhile.
* **Transcend.** A webhook is delivered any number of times; the erasure and the call of
  the provider take effect outside the page's transaction, and every answer can be
  lost. Correct means: one subject is erased, once; the job knows that data may have
  changed before it can change; job and provider are told nothing that is not so; the job
  ends.
* **Private artifact storage.** An upload may have worked although it failed; another
  worker may have stored other content under the key; a cleanup decides on what it read
  some time ago; time goes on between any two calls, and signatures are dated in whole
  seconds. Correct means: the artifact of a completed request stays until it expires,
  nothing is given out longer than that, and what is left over goes.
* **Registry and lint.** Policies are registered in any order, and the database refuses or
  cascades as its schema says. Correct means: every entity is dealt with once and before
  its parents; and if the lint finds nothing, an erasure is not refused half-way and
  takes nothing along that a policy keeps.

Every hazard is listed with its line in `PROJECT.json`, with the properties that
would notice it going wrong.

## 2. Plan

1. `DurableExecution`, its abstraction `RequestLifecycle`, and `DurableExecutionProofs`, with the
   refinement: done.
2. `JobQueue`, its abstraction `JobLifecycle`, and `JobQueueProofs`, with the refinement: done.
3. `PagedPrivacy`, the handler, and `PagedPrivacyProofs`: done. What the queue does to the job of a
   handler is taken to be what `JobLifecycle` allows; that the queue keeps to it is shown for
   `JobQueue` only.
4. `ImmediateExecution`, with `ImmediateExecutionProofs`: done.
5. `ErasureRun`: preview, snapshot, writes with cascades and verification beside a
   concurrent application, with `ErasureRunProofs`: done.
6. `TranscendJob`: receipts and job pages, with `TranscendJobProofs`: done. Left: that its job and its
   request move as `JobLifecycle` and `RequestLifecycle` allow, which would tie it to the modules
   it abstracts.
7. `Registry`, and `LintedErasure` on top of it, with `LintedErasureProofs` for both: done.
8. `ArtifactBucket`, with `ArtifactBucketProofs`: done.
9. Left: the lifetime of a preview and its use beside an erasure, in `ErasureRun`; the rows of other
   subjects that refer to a subject's rows, in `LintedErasure`.

## 3. The modules

### DurableExecution

One record `row[r]` stands for the request row and its execution row, because each
transaction of the store writes both; `effects` counts how often the entity work of the
request took effect. `lock` is the row lock. A transaction without an external call
is one step; `StartUpload` and `StartDelivery` open the two that have one, the steps
between (`PutSucceeds`, `PutThrows`, `Publish`) happen at once and survive a rollback,
and `SaveUploaded`, `SaveUploadFailed` and `SaveDelivered` commit, if the transaction
still holds its lock. `Commit` gives every commit its outcomes: it answers, or it
succeeds without an answer.

| Code | Actions |
| --- | --- |
| `reserve`: read, insert, lookup after a unique violation | `ReserveRead`, `ReserveInsert`, `ReserveConflict`, `ReserveFails` |
| `execute`: data transaction | `ExecuteSettled`, `ExecuteCommits`, `ExecuteThrows` |
| `execute`: failure recording | `RecordFailure`, `FailureOvertaken` |
| `retryCompletion`: artifact and status | `CompleteRejected`, `NothingToUpload`, `ExpireArtifact`, `StartUpload`, `Put...`, `Save...` |
| `deliverNotifications` | `NothingToDeliver`, `StartDelivery`, `Publish`, `SaveDelivered` |
| `expirePendingArtifacts` | `ListExpired`, `ExpireNext` |
| faults | `Rerun`, `TimeOut`, `TransactionFails`, `Crash`, and the outcomes of `Commit`, `PutThrows`, `Publish` |

`Executed`, `Failed`, `Uploaded`, ... are the rows that the transactions write, as
functions of the row that they read. `reason` is `failureReason`; of `stats` there is the advice to the
host, `lifecycle.recovery` (`recovery`) and the one inside `lifecycle.artifactFailure`. A payload is
reduced to its hash, a TTL to the moment it has passed.

### RequestLifecycle

What an observer is promised of one request: accepted, then refused or executed;
executed, then completed or lost; entity work once; events only when they are true.

### JobQueue and JobLifecycle

`job[j]` is a job row, `chunks[j]` the indices of its chunk rows. `Claim` is the `SELECT ...
FOR UPDATE SKIP LOCKED`; the handler runs between it and `CommitPage`, so the lock is held
over several steps, and `TimeOut` takes it away. `RecordFailure` and `FailureOvertaken` are
the second transaction of a failed page. `deleteChunks` is one `DeleteBatch` per transaction,
`readChunks` one `ReadChunk` per query, `purgeExpiredChunks` and the two other ways into
`purgeOne` use `PurgeAll`. `ran` and `throws` are history. `JobLifecycle` is the promise:
whole pages, only while queued, and erasure for good.

### PagedPrivacy

The queue gives each page a serializable transaction that also stores the checkpoint,
so a page is one step (`RowsPage`, `EmptyPage`, `LastPage`); `Fail`, `Cancel` and `Resume` are what
the queue may do to the job; `Edit` is the application between two pages. The write of a
page reaches a subset of its rows, and the page commits only if `Verified`. The handler `Reports` whether
its page changes data, and the queue keeps what any page has reported (`Changed`). `untouched` is
history: the rows in scope at the first page that the application has left alone.

### ImmediateExecution

One action per call of host code in `DataSubjectService.execute`. `Try` and `TryOrThrow` give
each its outcomes: it works, fails without an effect, or fails with it. `Crash` stops a
call anywhere. Two calls may be handed one id, as `idFactory` is the host's. `work`
and `did` say how much of the entity work has been done.

### ErasureRun

The run outside a serializable transaction, each call of an executor a step: `Inspect`,
`SelectRows` and `LookUp` take the snapshot, entity by entity; `Announce` is the callback before
the first write; `Write` erases the rows of an entity as its strategy says, and may miss
some; `VerifyRows` looks up the rows of the snapshot by identity, or selects again if the executor has no
identities, and `RecheckRows` selects the subject's rows again. A
run with the purpose "preview" stops after the snapshot and leaves `expected`, the plan
that a later erasure must find again (`Approved`): the fingerprints of the rows by their identity or,
without identities, a bag of the contents (`Planned`). `PutRow`, `RemoveRow` and `Register` are the
application; `Cascade` is what the database deletes along with a row. `touched` and `due` are
history: the rows that the application has changed since the run looked, and what was
registered at the first write. With the durable path the run is within one
transaction, and is one step of `DurableExecution`.

### TranscendJob

One identity of the provider, and so one job. `Receive`, `GetExisting`, `Resolve`, `Submit` and
`AfterConflict` are the stretches of `receive` between its awaits; payloads are sealed with a random
nonce, so that a second submission conflicts and compares itself with the first (`Winner`). A page is
claimed (`Claim`), dispatched by the phase of its checkpoint (`BeginPage`), and ends in `CommitPage` or
`RecordFailure`; between them `Reserve`, `Execute`, `Complete`, `Deliver` and `Put` take effect at once and survive the
page, and any of them may give no answer (`NoAnswer`). `TimeOut` takes the lock away while the
handler goes on. `current` are the workers whose claimed revision is still the row's; only
they may write it. Of the job queue and of the durable request there is what the adapter
can see of them: states, retention, retries and the fate of the artifact.

### ArtifactBucket

`object[r]` is what the bucket holds under the key of a request, `host[r]` what the host stores
of it. `Put`, `Upload`, `Look` and `Complete` are a worker; the bucket takes the first
upload only, and `Look` compares after any failure. `Head`, `Fetch` and `Give` are a download,
`Head`, `Sign` and `Signed` a link; `Tick` may come between any two, with several ticks in a second of a
signature. `List`, `Inspect`, `Classify` and `Delete` are the cleanup, key by key, which works with what it
`seen`. Every call may fail, with an effect or without one.

### Registry

`list()` in steps: `BeginList` counts the children of each entity, `ListNext` puts out the
first entity in the order of registration that has none to come, and counts down for its
parents, `ListEnds` returns or throws. `Register` may come before or after, in any order and with
parents that are not registered yet.

### LintedErasure

Extends `Registry`, and composes it with the validation and with an erasure. An `instance` is a schema,
the policies and the order in which the host registers them. `RegisterNext` and `ListEntities` are
steps of `Registry`; `Validate` is `validateRegistry` with the lint, whose checks are
one set of findings each; `EraseNext` writes the subject's row in the next table as `classifyPolicy` reads the
policy, and the database accepts the write, refuses it, or takes a child along, whatever the
schema's referential actions are. The host may also erase although there are findings.

## 4. The runs

Deadlock is checked unless noted.

| Run | Instance and bounds | Shows | Distinct states |
| --- | --- | --- | --- |
| `durable_race` | two callers, one key, two request ids, equal and different payloads, two faults | one request per key; data with its record; evidence is kept; a failure is final; the invariant of the proofs, `Inv` | 189 756 |
| `durable_outbox` | an erasure and an export, a caller and an expiry worker, both channels, one fault | artifact, advice and notifications agree with the record; outcomes are final; implements `RequestLifecycle` | 595 097 |
| `durable_live` | a caller and a worker on one row, two faults, `FairSpec` | expired bytes are erased; calls return | 25 252 |
| `queue_pages` | two workers, one job, two pages, two attempts, two faults, one retry | pages run once; failures are real; nothing after expiry | 134 249 |
| `queue_chunks` | a worker, a cleanup, a reader, a purge, three pages, batches of one, one retry, one fault, `FairSpec` | contiguous chunks; whole reads; cleanups and purges hold; implements `JobLifecycle`; the job ends, calls return, and what expires is purged | 113 445 |
| `paged_rows` | up to two entities, three keys, pages of two rows, three policies, one of them empty, `FairSpec` | rows are dealt with exactly once; numbers agree; what a stopped job has changed is known; the job ends | 139 980 |
| `immediate_calls` | two calls that may share an id | what is stored, thrown, returned and announced is true, and final once it was returned | 27 695 |
| `erasure_app` | an entity anonymized in part, one deleted with what refers to it, one without identities anonymized; two rows each; one edit | success means erased; what is written or deleted along was approved | 1 130 176 |
| `transcend_receipts` | two receivers, two subjects, two fingerprints, two workers, one fault | one erasure per identity; only agreeing deliveries are acknowledged | 514 948 |
| `transcend_pages` | two workers, two attempts, one retry, one fault, `FairSpec` | the fence precedes the change; results are true; the job ends | 565 865 |
| `bucket_race` | two workers with different content, a reader, a cleanup, a request and the leftover of another, time to 5, two ticks a second, one fault, `FairSpec` | artifacts are kept, and nothing is given out, until they expire; leftovers go | 353 309 |
| `lint_plans` | 83 776 instances: all policies of a child and a parent with one or two foreign key columns; all graphs of relations and dependencies of three entities; all gaps of registration and coverage of two | `list()` is in order; the lint is sound | 796 268 |

Why the bounds are enough. A race in `reserve` or for a row lock needs two processes, and a
third adds only another loser. Each bad pattern known for this code needs one or two
faults (an unknown commit and then a late failure record; a timeout and then a commit by the
owner who lost its lock). `durable_outbox` has one, because it has two requests of different types;
all of its properties are proved for any number of faults. In `transcend_pages` the
answer of the provider and a failing artifact store are not faults but choices, and so
are unbounded; the one fault is a crash, a time-out or a lost answer of the erasure. Three chunks with batches of one give a cleanup that stops at the front,
in the middle and at the end. Three keys with pages of two rows give full, short and
exactly full last pages and an upper bound below, at and above the cursor. One edit of the
application, placed anywhere, is what each of the runner's checks is there for. In `bucket_race`
time is the length of a retention and a tick more, so that it ends at, before and
after each step; the grace is shorter. In `lint_plans` an edge, an order of two writes and a
composite key need two tables, a circle that is none of two entities needs three. The faults,
retries, pages and edits are capped by `MaxFaults`, `MaxRetries`, `MaxPages` and `MaxEdits`; the theorems of section 6 do
not depend on `MaxFaults`, nor on any other size.

`queue_pages` sets `CHECK_DEADLOCK FALSE`: once its job has ended and the retries are spent, nothing is
left to do in this instance. So do `erasure_app` and `lint_plans`: an erasure that has ended is not begun
again; and `bucket_race`: when time is up, the bucket empty and everything given, nobody has
anything to do. Symmetry is used only in
runs without liveness properties, and only over processes and identifiers that are
interchangeable.

## 5. Fairness

* `DurableExecution`: strong fairness for the steps of a call, because a process runs on and
  PostgreSQL queues the waiters of a row lock, so that a step enabled again and again,
  whenever the lock is free, is taken. Weak fairness for the expiry worker, which the
  README of the library tells the host to schedule, and for the passing of the TTL.
  Nobody is obliged to call.
* `JobQueue`: weak fairness for polling (`RunNext`), the scheduled purge, readers and the end of
  a backoff; strong fairness for what waits for a row lock. Jobs need not expire. The
  number of faults is finite, so a job is not hindered for ever.
* `PagedPrivacy`: weak fairness of `RunPage`: some worker that polls has the policy of the
  payload, and its executors get through in the end. Nothing hinders the application
  from editing rows for ever.
* `ArtifactBucket`: weak fairness of each cleanup's next step. `cleanup` is a method, which goes through
  the bucket once; the property is about a host that calls it again and again, also after it has thrown or died.
  Neither time nor workers nor readers need go on.
* `TranscendJob`: weak fairness of each worker's next step: it polls, and its handler and transactions
  get on. The artifact store may fail for ever, so a page may fail each time; only
  crashes, time-outs and lost answers are finite. No delivery is obliged to come.

`ImmediateExecution`, `ErasureRun` and `LintedErasure` have no liveness property: nothing resumes a call
that stopped.

## 6. What is proved

### DurableExecution

`DurableExecutionProofs` proves, with TLAPS, for any finite or infinite sets of callers, workers,
request ids, keys, payloads, either channel or both and any number of faults: type correctness, all
safety invariants of the two safety runs, both action properties and the refinement. The types and
`AnswersAreTerminal` are not listed in a run of their own: the first is a conjunct of `Inv`, which
`durable_race` checks, and the second follows from it. The only
assumption is `ConstantsOK` of that module, which each of its runs evaluates.

None of the invariants is inductive as it stands. `CompletedIsStored`, for instance, speaks
about what `SaveUploaded` writes, and is preserved only because the process got to that
label by a successful `put`; `AnnouncementsAreTrue` is preserved by `Publish` only because what a
process has read to publish was intended, and is true already. `Inv`, in
`DurableExecution`, adds what is missing, one predicate for each kind of state:

* `RowOK`: of one row, with its artifact, its notifications and its TTL. It strengthens truth of
  what was *published* to truth of what is *intended*, which is what the row gives.
* `ProcOK`: of one process, by its label: it works on a reserved request; an upload that holds its
  lock still has its bytes; what will be marked delivered is published; delivery and
  answers are about requests that have ended.
* `LockOK`: a lock is held only by a process inside a transaction with external calls, about
  that row. It keeps every other process away from the row during an upload, and
  shows that a transaction that lost its lock writes nothing.

The proof has one lemma for each function from row to row (each keeps `RowOK`), one step for
each action, and under it one for each conjunct that the action can disturb.
`FailureIsFinal` and `OutcomesStand` then go through the same actions once more, with
`Inv` as hypothesis.

`DurableImplementsLifecycle` is the refinement of `RequestLifecycle`. A step leaves rows and callbacks alone
(`Still`), writes one row (`Moved`) or calls back with one note (`Said`). A row that is written `MovesOn`:
its place in the lifecycle stays or goes on by one, and `effects` grows by one exactly when it
becomes "executed"; then one action of the lifecycle, or none, explains the step (`MovedMaps`). A callback is
`Announce`, and what it says is true because of `RowOK` and of one more invariant: only a
request that is decided has notes (`NotesFollow`).

### JobQueue

`JobQueueProofs` proves every safety property of `queue_pages` and `queue_chunks`, and that the queue implements
`JobLifecycle`, for any jobs, workers, cleaners and readers, and any pages, attempts, batches, retries and faults. It uses
`ConstantsOK` of the module; among other things this says that the answers of a call are no
jobs, as both are values of one variable. The inductive invariant `QInv` has three parts:

* `RowOK`: of one row with its chunk rows. Pages up to `pages` have run once and no other has, chunks
  are contiguous and start at 0 unless the row is marked, a purged row has none.
* `LockOK`: a worker that has the lock has also seen the row as it is; so the page it commits is
  the next one.
* `ProcOK`: what a process without the lock relies on. It has seen a revision that the row had, and
  revisions only rise (`Rises`), so a late `RecordFailure` finds the revision it claimed, and then the
  row is the one it saw, or it is overtaken. The job of a
  reader is completed, and what a cleanup has said it has emptied is empty.

There is a lemma for every function from row to row; `StepKeeps` then says what a step has
to show of the rows and the process that it touches. In the refinement, each step is one action of the
lifecycle for one job or stutters; a purge of several jobs at once and a cleanup are `Erase`.

### PagedPrivacy

`PagedPrivacyProofs` proves `ScopeIsErased`, `EachRowOnce`, `NumbersAgree` and `ChangesAreKnown`, for any finite set of
keys, any policies and any size of a page, from `ConstantsOK` and `NoneIsNew` (a checkpoint is not the value that
stands for none). `PInv` says where the job `Stands` at its checkpoint: rows in scope that
are behind the cursor have been dealt with and the others are still to be found within the bound of their entity
(`ScopeOK`), and in an export each row behind the cursor is in one chunk, none ahead in any (`ChunksOK`).
The argument is `PageSkipsNone`: a page moves past a row only if it has taken it, because the least keys
are taken in order and a page that leaves a key out is full.

`NumbersAgree` needs a second invariant, `NInv`: the checkpoint, the job and its chunks `Agree`, and a job without a
checkpoint has counted nothing. The counts are sums over finite sets, which the community modules define by folds. An
induction over the set is out of the prover's reach, so the facts about sums (there is a function that sums, it depends
on the terms only, each term counts once) are proved by the least set that would refute them (`LeastSet`).

`ChangesAreKnown` is inductive beside `PInv`: a page that changes a row leaves a chunk, whose entity's rule is one that
reports; and the rows of a page are those of its entity alone, so as long as no such page has run every other row
stands.

### ImmediateExecution

`ImmediateExecutionProofs` proves both invariants of `immediate_calls` for any calls and requests, from `NoneIsNew` (no
request, outcome or advice is the value for none). There is no lock here. `IInv` says that a request has at most
one call that owns it (`Alone`, since `createRequest` refuses an id it has stored), what a call knows
about its own request at each of its labels (`CallOK`), what is true of every request, also of one whose
call died (`RequestOK`), and what an answer still says after other calls have gone on (`ReplyOK`).

### ErasureRun

`ErasureRunProofs` proves both properties of `erasure_app` for any entities, rows, rules, cascades, executors with and without
identities, and any number of edits, from `ConstantsOK` of that module: entities are numbered, and
the three strategies of a rule share no field, as `compilePolicy` gives a field one strategy. `EInv` adds how far
the verification has come (`Verifying`): of each entity before the present one that is not `residual`, every untouched row
is as promised (`Checked`). That stays so to the end, because all writes come before, and the application's edits end
that a row is untouched. For an entity to be deleted, the last check asks for rows of the subject, not for
those that were seen; that it misses none is `OwnOrGone`: such rows are never rewritten, so they are the subject's
until they are gone.

For `WritesAreApproved`, `Agreed` ties the plan that was approved to the rows that the run has seen, and `Standing` the
rows that the run has seen to the table: from its inspection until its own write an entity is reached by deletions
only, of the run or of the database, so the subject has no rows there but those seen, with the values seen, or those
that the application has touched (`AsSeen`). What a deletion takes along in entities that are not registered
was in no plan; these rows must be reachable from rows that were (`Cascade`).

### TranscendJob

`TranscendJobProofs` proves the three invariants of the two runs, for any receivers, workers, subjects, fingerprints, attempts,
retries and faults, from `ConstantsOK` of that module. A worker may lose its lock and go on, so
what it has seen or been answered must still be true when it acts on it. `TInv` therefore judges a row (`RowTrue`), an
answer (`FoundTrue`) and the place of a worker (`WorkTrue`) by the durable request and the provider's reports alone,
and these only move `Later`, which takes back no verdict (`RowStaysTrue`, `WorkStaysTrue`). `Claims` ties the lock and the
revisions to the row, so that only a worker whose revision is `current` writes it; `Receipts` says that each delivery
acknowledged has the fingerprint of the job; `Effects`, that one subject at most has been erased, once, and by
a request that went as far, and that the job says so.

### Registry

`LintedErasureProofs` also proves `ListIsOrdered` for any entities, dependencies and orders of registration,
from `EntityOK` (the entities are a finite set). The invariant behind it, `IInv`, says what the map of
counts stands for: `CountsAreTrue` (of each entity that is not listed yet, the number of its children that
are not), `ParentsFollow` and `ChildrenPrecede` (where the entities stand in the list). That no entity is
lost is then arithmetic of finite sets, and that `list()` throws only for a real circle is that
every entity left has a child left.

### LintedErasure

The same module carries `ListIsOrdered` over to the composition, and proves `LintIsSound` for every
schema, every set of policies, every order of registration and every wiring of foreign keys, from
`FamilyOK`: relations name columns that exist, and the values that stand for "kept" and for null are no
entities. The invariant, `LInv`, has two parts. After a report without findings and up to
any point of the erasure, each row is as before or as its policy makes it, according to its
place in the list, and all foreign keys hold (`Written`). The step is one relation at a time: when a child is written,
its parent still has what it refers to, or the write detaches it (`ParentStands`); when a parent is written in a
way that matters, its child is gone or detached already (`ChildIsGone`), for then the lint has asked for a
dependency, and the order of `list()` follows it. So no cascade and no refusal can happen, whatever
the referential actions are.

### ArtifactBucket

`ArtifactBucketProofs` proves both invariants of `bucket_race`, for any requests, processes, contents, retention, grace, length of
a second, wanted lifetimes and faults, from `ConstantsOK` of that module. A deletion is harmless only because of what
the cleanup has seen some steps before, so `BInv` says what each process knows, by its label, and that it
stays true: `Cleaning` (what it is about to delete has expired or belongs to an abandoned request), `Storing` (what
a worker is about to have recorded is in the bucket), `Reading` (what a reader got is its request's, and its link
ends in time; the lemma `LinksEnd` is the arithmetic of whole seconds). `StepKeeps` is the part
that all steps share: a step that takes no completion back and leaves alone what is to be kept (`Safe`)
disturbs nobody else's knowledge.

## 7. What is only model-checked

* Liveness (`ExpiredBytesAreErased` and `CallsReturn` of `DurableExecution`; `JobsEnd` and `ExpiredIsPurged`; `JobEnds` of
  the paged and of the Transcend job; `LeftoversAreRemoved`): temporal reasoning under fairness is out of the prover's reach.

All other properties of the runs are theorems.

## 8. What is not modelled

* Of the registry: the form of names, replacements, scopes and legal bases. Of the lint: the parser of Prisma schemas, the
  name patterns for personal data, which only count without strict coverage, warnings, and the command line.
* In `LintedErasure`, tables have one row of the subject each. Rows of other subjects that refer to it, and what a
  cascade takes along after its first child, are not followed. The lint does not look at a static replacement of a foreign
  key, which can dangle: `LintIsSound` allows that one refusal by name.
* Of the bucket: the check of its configuration at start, the form of keys and metadata, and objects of others. An ETag is
  the content, and host and S3 share one clock.
* Of previews: signature, lifetime, the counts, and the comparison of values across database
  types. Of the Transcend adapter: parsing and cryptography, and `deleteChunks` on its job,
  which has no chunks.
* Signatures, tokens and encryption; hashing is taken to be injective, so a payload or a
  policy is its hash.
* Formatting of artifacts, evidence and archives; the Nest module and types, which only wire and
  describe; the other examples and the benchmarks, which use the library in the ways modelled here.
* Checks of arguments that come before any state is read or written.
* PostgreSQL itself. Its part is an assumption: serializable transactions take effect as a whole
  or not at all, `FOR UPDATE` excludes other holders and queues its waiters, and a unique
  index admits one row.
