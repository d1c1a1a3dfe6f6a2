----------------------------- MODULE PagedPrivacy -----------------------------
(***************************************************************************)
(* Paged erasure and export: the handler that createPagedPrivacyHandler     *)
(* (src/src/jobs/paged-privacy.ts) gives to the job queue, with the         *)
(* executors of pagedFromPrisma (src/src/prisma/paged-from-prisma.ts).      *)
(*                                                                         *)
(* The queue runs the pages of a job one after the other, each in one       *)
(* serializable transaction that also stores the checkpoint: a page is one  *)
(* step here, and the queue is what JobLifecycle promises of it.  Between   *)
(* two pages the application goes on to use the tables, the job may be      *)
(* cancelled, fail and be resumed, and the next page may run on a worker    *)
(* that was deployed with another policy.                                   *)
(***************************************************************************)
EXTENDS Naturals, Sequences, FiniteSets, FiniteSetsExt, Functions

CONSTANTS
    Id,        \* the stable keys of rows; their order is the database's
    Policies,  \* what may be registered: a rule for each entity, in order
    Batch,     \* batchSize
    None       \* no checkpoint, no cursor, nothing in scope

\* effectiveRowStrategy, and whether any field is exported.
Rule == [row: {"delete-row", "update-fields", "no-op"}, exports: BOOLEAN]

ASSUME ConstantsOK ==
    /\ Id \subseteq Nat /\ IsFiniteSet(Id) /\ Batch \in Nat \ {0}
    /\ Policies \subseteq Seq(Rule) /\ Policies # {}
    /\ None \notin Id

\* Entities by their place in Registry.list().
Entity == UNION {DOMAIN p : p \in Policies}

VARIABLES
    table,       \* the subject's rows: absent, live, or clean (replaced values)
    state,       \* of the job
    type,        \* payload: erase or export
    policy,      \* payload: the policy whose hash it names
    checkpoint,
    pages,       \* the job's pagesCommitted
    rows,        \* its processedRows
    changed,     \* its hasCommittedChanges
    chunks,      \* its chunks
    untouched    \* history: in scope at the first page, and left alone since by
                 \* the application

job     == <<state, type, policy>>
output  == <<checkpoint, pages, rows, changed, chunks>>
vars    == <<table, job, output, untouched>>

-----------------------------------------------------------------------------
(* Executors *)

\* The rows that select by subject and tenant finds.
Present(e) == {i \in Id : table[e][i] # "absent"}

HighWatermark(e) == IF Present(e) = {} THEN None ELSE Max(Present(e))

\* The least Batch ids.
First(ids) == {i \in ids : Cardinality({h \in ids : h < i}) < Batch}

\* The rows of entity e after eraseByIds or updateByIds, which reached some of the
\* ids.
Written(e, rule, reached) ==
    [i \in Id |-> IF i \notin reached \/ rule.row = "no-op" THEN table[e][i]
                  ELSE IF rule.row = "delete-row" THEN "absent" ELSE "clean"]

-----------------------------------------------------------------------------
(* Checkpoints *)

Checkpoint(p) ==
    [entity: 1 .. Len(p) + 1, cursor: Id \cup {None}, pages: Nat,
     through: [DOMAIN p -> Id \cup {None}], counts: [DOMAIN p -> Nat]]

ASSUME NoneIsNew == \A p \in Policies : None \notin Checkpoint(p)

\* The upper bounds of all entities are fixed in the first transaction.
InitialCheckpoint(p) ==
    [entity |-> 1, cursor |-> None, pages |-> 0,
     through |-> [e \in DOMAIN p |-> IF type = "export" /\ ~p[e].exports
                                     THEN None ELSE HighWatermark(e)],
     counts |-> [e \in DOMAIN p |-> 0]]

\* What parseCheckpoint checks against the job and the policy.
Accepted(c, p) ==
    /\ pages >= 1 /\ c.pages = pages
    /\ DOMAIN c.counts = DOMAIN p
    /\ SumFunction(c.counts) = rows
    /\ c.entity = Len(p) + 1 => c.cursor = None
    /\ c.cursor # None => c.through[c.entity] # None /\ c.cursor <= c.through[c.entity]

\* The page that readPage returns.
PageIds(c) ==
    IF c.through[c.entity] = None THEN {}
    ELSE First({i \in Present(c.entity) :
                  /\ c.cursor # None => i > c.cursor
                  /\ i <= c.through[c.entity]})

\* Mutant: the cursor stays at the page's first row.
CursorAtFirst(c, ids) == IF ids = {} THEN c.cursor ELSE Min(ids)

Cursor(c, ids) == IF ids = {} THEN c.cursor ELSE Max(ids)

\* The page was short, or has come to the bound.
EntityEnds(c, ids) ==
    \/ Cardinality(ids) < Batch
    \/ c.through[c.entity] = None
    \/ Cursor(c, ids) = c.through[c.entity]

\* Mutant: pages are counted only if they had rows.
AdvancedIfRows(c, ids) ==
    [c EXCEPT !.counts[c.entity] = @ + Cardinality(ids),
              !.entity = IF EntityEnds(c, ids) THEN @ + 1 ELSE @,
              !.cursor = IF EntityEnds(c, ids) THEN None ELSE Cursor(c, ids),
              !.pages = IF ids = {} THEN @ ELSE @ + 1]

\* The checkpoint after a page.
Advanced(c, ids) ==
    [c EXCEPT !.counts[c.entity] = @ + Cardinality(ids),
              !.entity = IF EntityEnds(c, ids) THEN @ + 1 ELSE @,
              !.cursor = IF EntityEnds(c, ids) THEN None ELSE Cursor(c, ids),
              !.pages = @ + 1]

\* Mutant: the page is taken to have worked.
VerifiedUnseen(e, rule, reached, ids) == TRUE

\* verifyPage, on the rows that selectByIds finds after the writes.
Verified(e, rule, reached, ids) ==
    \A i \in ids :
        Written(e, rule, reached)[i] =
            IF rule.row = "delete-row" THEN "absent"
            ELSE IF rule.row = "update-fields" THEN "clean" ELSE table[e][i]

-----------------------------------------------------------------------------
Init ==
    /\ table = [e \in Entity |-> [i \in Id |-> "absent"]]
    /\ state = "absent" /\ type = "erase" /\ policy = <<>>
    /\ checkpoint = None
    /\ pages = 0 /\ rows = 0 /\ changed = FALSE
    /\ chunks = <<>>
    /\ untouched = [e \in Entity |-> {}]

\* createPagedPrivacyPayload and submit.
Submit(t, p) ==
    /\ state = "absent"
    /\ state' = "queued" /\ type' = t /\ policy' = p
    /\ UNCHANGED <<table, output, untouched>>

\* Mutant: a worker does not compare its registry with the payload.
RunsAny(p) == state = "queued" /\ Len(p) = Len(policy)

\* The worker is registered with the policy of the payload (PlanMismatch).
Runs(p) == state = "queued" /\ p = policy

\* Mutant: every page asks for the bounds.
CurrentAnew(p) ==
    IF checkpoint = None THEN InitialCheckpoint(p)
    ELSE [checkpoint EXCEPT !.through = InitialCheckpoint(p).through]

\* Where the page starts.
Current(p) == IF checkpoint = None THEN InitialCheckpoint(p) ELSE checkpoint

\* The page's evidence, or its rows.
Chunk(c, ids) ==
    [entity |-> c.entity, count |-> Cardinality(ids),
     ids |-> IF type = "export" THEN ids ELSE {}]

\* Mutant: a page reports what it deletes, and not what it rewrites.
ReportsDeleted(rule) == type = "erase" /\ rule.row = "delete-row"

\* The page reports that it has changed business data: hasCommittedChanges of its step.
Reports(rule) == type = "erase" /\ rule.row # "no-op"

\* The queue keeps what any page has reported.
Changed(report) == changed \/ report

\* What the queue stores with a page that ends with checkpoint c.
Store(c, p, ids) ==
    /\ checkpoint' = c
    /\ state' = IF c.entity = Len(p) + 1 THEN "completed" ELSE "queued"
    /\ pages' = pages + 1
    /\ rows' = rows + Cardinality(ids)
    /\ UNCHANGED <<type, policy>>

\* The scope, as the first page fixes it.
Scope(c) ==
    [e \in Entity |->
        IF checkpoint # None THEN untouched[e]
        ELSE IF e \in DOMAIN c.through /\ c.through[e] # None THEN Present(e) ELSE {}]

\* A page with rows.  The write, if the rule has one, reaches some of them; the
\* page commits if it is verified, and is rolled back otherwise.
RowsPage(p, reached) ==
    /\ Runs(p)
    /\ LET c == Current(p)
           ids == PageIds(c)
           writes == type = "erase" /\ p[c.entity].row # "no-op"
       IN  /\ checkpoint # None => Accepted(c, p)
           /\ c.entity <= Len(p) /\ ids # {}
           /\ reached \subseteq ids /\ (~writes => reached = {})
           /\ type = "erase" => Verified(c.entity, p[c.entity], reached, ids)
           /\ table' = [table EXCEPT ![c.entity] = Written(c.entity, p[c.entity], reached)]
           /\ chunks' = Append(chunks, Chunk(c, ids))
           /\ changed' = Changed(Reports(p[c.entity]))
           /\ untouched' = Scope(c)
           /\ Store(Advanced(c, ids), p, ids)

\* A page without rows goes on to the next entity.
EmptyPage(p) ==
    /\ Runs(p)
    /\ LET c == Current(p)
       IN  /\ checkpoint # None => Accepted(c, p)
           /\ c.entity <= Len(p) /\ PageIds(c) = {}
           /\ untouched' = Scope(c)
           /\ Store(Advanced(c, {}), p, {})
    /\ UNCHANGED <<table, chunks, changed>>

\* Nothing is registered.
LastPage(p) ==
    /\ Runs(p)
    /\ LET c == Current(p)
       IN  /\ checkpoint # None => Accepted(c, p)
           /\ c.entity = Len(p) + 1
           /\ untouched' = Scope(c)
           /\ Store([c EXCEPT !.pages = @ + 1], p, {})
    /\ UNCHANGED <<table, chunks, changed>>

\* As often as the queue allows a page has failed: a worker with another policy, a
\* write that was not verified, a chunk that was too large.
Fail ==
    /\ state = "queued"
    /\ state' = "failed"
    /\ UNCHANGED <<table, type, policy, output, untouched>>

Cancel ==
    /\ state \in {"queued", "failed"}
    /\ state' = "cancelled"
    /\ UNCHANGED <<table, type, policy, output, untouched>>

Resume ==
    /\ state \in {"failed", "cancelled"}
    /\ state' = "queued"
    /\ UNCHANGED <<table, type, policy, output, untouched>>

\* The application inserts, rewrites or removes a row of the subject, or makes it
\* someone else's.
Edit(e, i, value) ==
    /\ table[e][i] # value \/ i \in untouched[e]
    /\ table' = [table EXCEPT ![e][i] = value]
    /\ untouched' = [untouched EXCEPT ![e] = @ \ {i}]
    /\ UNCHANGED <<job, output>>

RunPage ==
    \E p \in Policies :
        \/ \E reached \in SUBSET Id : RowsPage(p, reached)
        \/ EmptyPage(p) \/ LastPage(p)

Next ==
    \/ \E t \in {"erase", "export"}, p \in Policies : Submit(t, p)
    \/ RunPage \/ Fail \/ Cancel \/ Resume
    \/ \E e \in Entity, i \in Id : \E value \in {"absent", "live"} : Edit(e, i, value)

Spec == Init /\ [][Next]_vars

\* Some worker has the policy of the payload and polls the queue.
FairSpec == Spec /\ WF_vars(RunPage)

-----------------------------------------------------------------------------
(* Properties *)

\* The page that stored checkpoint c has left the row i of entity e behind.
Behind(c, e, i) ==
    \/ e < c.entity
    \/ e = c.entity /\ c.cursor # None /\ i <= c.cursor

\* Types.
TypeOK ==
    /\ table \in [Entity -> [Id -> {"absent", "live", "clean"}]]
    /\ state \in {"absent", "queued", "completed", "failed", "cancelled"}
    /\ type \in {"erase", "export"}
    /\ policy \in Policies \cup {<<>>}
    /\ checkpoint \in Checkpoint(policy) \cup {None}
    /\ pages \in Nat /\ rows \in Nat /\ changed \in BOOLEAN
    /\ chunks \in Seq([entity: Entity, count: Nat, ids: SUBSET Id])
    /\ untouched \in [Entity -> SUBSET Id]

\* An erasure has dealt with every row that was there at its first page and that
\* the application has left alone: no page skips one, though rows around the
\* cursor and the bound come and go, writes may miss rows, and pages may run on
\* workers with another policy.  When it is completed they are all behind it.
ScopeIsErased ==
    (type = "erase" /\ checkpoint # None) =>
        \A e \in DOMAIN policy : \A i \in untouched[e] :
            Behind(checkpoint, e, i) =>
                \/ policy[e].row = "no-op"
                \/ policy[e].row = "delete-row" /\ table[e][i] = "absent"
                \/ policy[e].row = "update-fields" /\ table[e][i] = "clean"

\* A row is exported at most once, even if it leaves and comes back; exactly once if
\* it was there at the first page and has been left alone; never if its entity
\* exports nothing.
EachRowOnce ==
    \A e \in Entity : \A i \in Id :
        LET times == Cardinality({k \in DOMAIN chunks :
                                    chunks[k].entity = e /\ i \in chunks[k].ids})
        IN  /\ times <= 1
            /\ times = 1 => policy[e].exports
            /\ (/\ type = "export" /\ checkpoint # None
                /\ i \in untouched[e] /\ Behind(checkpoint, e, i)) => times = 1

\* Types; and the numbers that the job, its checkpoint and its chunks give agree, so
\* that the result is true and no worker rejects what another has stored.
NumbersAgree ==
    /\ TypeOK
    /\ checkpoint # None =>
        /\ state # "completed" => Accepted(checkpoint, policy)
        /\ \A e \in DOMAIN policy :
            checkpoint.counts[e] =
                MapThenSumSet(LAMBDA k : chunks[k].count,
                              {k \in DOMAIN chunks : chunks[k].entity = e})

\* A job says that it has changed business data if and only if some chunk is evidence of
\* a page that did.  As long as it does not say so, each row that was there at the first
\* page and has been left alone is still there, and no row has been rewritten: a job that
\* is cancelled or fails without being `partial` has changed nothing, wherever between its
\* pages it stops, however often it was resumed, and whichever entities it had come to.
ChangesAreKnown ==
    /\ changed <=> type = "erase" /\ \E k \in DOMAIN chunks : policy[chunks[k].entity].row # "no-op"
    /\ ~changed => \A e \in Entity :
        /\ \A i \in untouched[e] : table[e][i] # "absent"
        /\ \A i \in Id : table[e][i] # "clean"

\* A job that is neither cancelled nor fails comes to its end, however the
\* application adds and removes rows.
JobEnds == (state = "queued") ~> (state # "queued")
===============================================================================
