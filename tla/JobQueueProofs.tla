---------------------------- MODULE JobQueueProofs ----------------------------
(***************************************************************************)
(* What is proved of the PostgreSQL job queue, for any jobs, workers,       *)
(* cleaners and readers, and any bounds.                                    *)
(*                                                                         *)
(* The inductive invariant QInv has three parts.  RowOK speaks of one row   *)
(* and its chunk rows, so that every transaction is judged by the function  *)
(* from row to row that it applies: one lemma each (SubmitOK .. PurgedOK).  *)
(* LockOK says what the row lock protects: the row is as the worker that    *)
(* holds it saw it.  ProcOK says what a process that works without the lock *)
(* may rely on, and holds because the revision only Rises: a failure that   *)
(* is recorded late finds its own revision, or is overtaken.  StepKeeps     *)
(* puts them together: what a step has to show of the rows and the process  *)
(* it touches, and that nothing else is disturbed.                          *)
(***************************************************************************)
EXTENDS JobQueue, FiniteSetTheorems, TLAPS

-----------------------------------------------------------------------------
(* The invariant *)

\* The chunk rows are in order and without a gap, and only a row marked deleted lacks some.
Contiguous(c, written, deleted) ==
    \E first \in 0 .. written : c = first .. (written - 1) /\ (first # 0 => deleted)

\* Each page has run once.
Once(runs, pages) == runs = [n \in 0 .. MaxPages |-> IF n < pages THEN 1 ELSE 0]

\* Of one row x, with its chunk rows c, whether it has expired, what ran of its pages,
\* and its failures in a row.  It only speaks of this row, so that a transaction is
\* judged by the function from row to row that it applies.
RowOK(x, c, late, runs, failures) ==
    /\ x \in Row /\ late \in BOOLEAN /\ failures \in Nat
    /\ x.state = "absent" => x = NoRow /\ ~late
    /\ x.written <= x.pages /\ x.pages <= MaxPages
    /\ ~x.deleted => x.checkpoint = IF x.pages = 0 THEN None ELSE x.pages
    /\ x.state = "queued" => ~x.deleted /\ x.attempts < MaxAttempts
    /\ x.attempts <= failures
    /\ x.state = "failed" => x.attempts >= MaxAttempts \/ late
    /\ x.purged => c = {} /\ x.checkpoint = None /\ x.deleted /\ late /\ x.state # "queued"
    /\ Contiguous(c, x.written, x.deleted) /\ Once(runs, x.pages)

RowRight(j) == RowOK(job[j], chunks[j], expired[j], ran[j], throws[j])

Rows == \A j \in Job : RowRight(j)

\* Of one process: what it works on exists, a worker's claim is not of the future, and a
\* failure that it may still record has been counted but not charged yet; a reader's job is
\* complete; and what a cleanup has said it has emptied is marked, and empty.
ProcOK(p) ==
    /\ pc[p] \in {"handle", "record"} =>
        /\ p \in Worker /\ at[p] \in Job /\ Exists(at[p])
        /\ seen[p].revision <= job[at[p]].revision
        /\ pc[p] = "record" /\ seen[p].revision = job[at[p]].revision =>
            job[at[p]].attempts < throws[at[p]]
    /\ pc[p] = "delete" => p \in Cleaner /\ at[p] \in Job /\ Exists(at[p])
    /\ pc[p] = "read" =>
        /\ p \in Reader /\ at[p] \in Job
        /\ total[p] = job[at[p]].written /\ job[at[p]].state = "completed"
    /\ reply[p] \in Job => job[reply[p]].deleted /\ chunks[reply[p]] = {}

\* A row is only locked by a worker whose page runs on it, and is as the worker saw it.
LockOK(j) ==
    lock[j] # None =>
        /\ pc[lock[j]] = "handle" /\ at[lock[j]] = j
        /\ seen[lock[j]] = job[j] /\ Queued(j)

DataTypes ==
    /\ job \in [Job -> Row] /\ chunks \in [Job -> SUBSET Nat]
    /\ expired \in [Job -> BOOLEAN] /\ waiting \in [Job -> BOOLEAN]
    /\ lock \in [Job -> Worker \cup {None}]
    /\ ran \in [Job -> [0 .. MaxPages -> Nat]] /\ throws \in [Job -> Nat]
    /\ retries \in 0 .. MaxRetries /\ faults \in 0 .. MaxFaults

ProcTypes ==
    /\ pc \in [Proc -> {"idle", "handle", "record", "delete", "read"}]
    /\ at \in [Proc -> Job \cup {None}] /\ seen \in [Proc -> Row]
    /\ total \in [Proc -> Nat] /\ next \in [Proc -> Nat]
    /\ reply \in [Proc -> Answer \cup Job]

Types == DataTypes /\ ProcTypes

QInv == Types /\ Rows /\ (\A p \in Proc : ProcOK(p)) /\ (\A j \in Job : LockOK(j))

-----------------------------------------------------------------------------
(* Chunks *)

\* A batch of a gapless piece is its front.
LEMMA RestOfInterval ==
    ASSUME NEW a \in Nat, NEW b \in Nat, a <= b
    PROVE  /\ Swept(a .. (b - 1)) <=> b - a < Batch
           /\ \E first \in a .. b : Rest(a .. (b - 1)) = first .. (b - 1)
           /\ b - a < Batch => Rest(a .. (b - 1)) = {}
<1> DEFINE c == a .. (b - 1)
<1>1. Cardinality(c) = b - a
  <2>1. Cardinality(c) = IF a > b - 1 THEN 0 ELSE (b - 1) - a + 1  BY FS_Interval
  <2> QED  BY <2>1
<1>2. ASSUME NEW i \in c PROVE Cardinality({h \in c : h < i}) = i - a
  <2>1. {h \in c : h < i} = a .. (i - 1) /\ i \in Int /\ a <= i  BY <1>2
  <2> HIDE DEF c
  <2>2. Cardinality(a .. (i - 1)) = IF a > i - 1 THEN 0 ELSE (i - 1) - a + 1
    BY <2>1, FS_Interval
  <2> QED  BY <2>1, <2>2
<1>3. Rest(c) = {i \in c : i - a >= Batch}  BY <1>2 DEF Rest
<1>4. Batch \in Nat \ {0}  BY ConstantsOK
<1>5. Swept(c) <=> b - a < Batch  BY <1>1 DEF Swept
<1>6. CASE b - a < Batch
  <2>1. Rest(c) = {}  BY <1>3, <1>4, <1>6
  <2>2. b \in a .. b /\ {} = b .. (b - 1)  OBVIOUS
  <2> QED  BY <1>5, <2>1, <2>2
<1>7. CASE ~(b - a < Batch)
  <2>0. {i \in c : i - a >= Batch} = (a + Batch) .. (b - 1)  BY <1>4
  <2>1. Rest(c) = (a + Batch) .. (b - 1)  BY <1>3, <2>0
  <2>2. a + Batch \in a .. b  BY <1>4, <1>7
  <2> QED  BY <1>5, <1>7, <2>1, <2>2
<1> QED  BY <1>6, <1>7

-----------------------------------------------------------------------------
(* What the transactions make of a row *)

LEMMA RowTypes ==
    ASSUME NEW x \in Row
    PROVE  /\ x.attempts \in Nat /\ x.revision \in Nat /\ x.pages \in Nat /\ x.written \in Nat
           /\ x.attempts + 1 \in Nat /\ x.revision + 1 \in Nat
           /\ x.pages + 1 \in Nat /\ x.written + 1 \in Nat
           /\ x.checkpoint \in {None} \cup Nat /\ None \notin Nat
           /\ x.changed \in BOOLEAN /\ x.deleted \in BOOLEAN /\ x.purged \in BOOLEAN
           /\ x.state \in {"absent", "queued", "completed", "failed", "cancelled"}
BY ConstantsOK DEF Row

\* A transaction that changes a row counts its revision up, and takes nothing back.
Rises(x, y) ==
    /\ y.state # "absent" /\ y.revision > x.revision
    /\ x.state = "completed" => y.state = "completed" /\ y.written = x.written
    /\ x.deleted => y.deleted

LEMMA SubmitOK ==
    ASSUME NEW x, NEW c, NEW late, NEW runs, NEW f, RowOK(x, c, late, runs, f), x.state = "absent"
    PROVE  RowOK([NoRow EXCEPT !.state = "queued"], c, late, runs, f)
<1> DEFINE y == [NoRow EXCEPT !.state = "queued"]
<1>1. x = NoRow  BY DEF RowOK
<1>2. /\ y \in Row /\ y.state = "queued" /\ y.attempts = 0 /\ y.pages = 0 /\ y.written = 0
      /\ y.checkpoint = None /\ ~y.deleted /\ ~y.purged
  BY ConstantsOK DEF NoRow, Row
<1>3. x.pages = 0 /\ x.written = 0 /\ ~x.deleted  BY <1>1 DEF NoRow
<1> HIDE DEF y
<1>4. RowOK(y, c, late, runs, f)  BY <1>2, <1>3, ConstantsOK DEF RowOK, Contiguous
<1> QED  BY <1>4 DEF y

LEMMA CancelledOK ==
    ASSUME NEW x, NEW c, NEW late, NEW runs, NEW f, RowOK(x, c, late, runs, f),
           x.state \notin {"absent", "completed"}
    PROVE  RowOK(Cancelled(x), c, late, runs, f) /\ Rises(x, Cancelled(x))
<1> DEFINE y == Cancelled(x)
<1>1. x \in Row /\ x.revision + 1 \in Nat  BY RowTypes DEF RowOK
<1>2. /\ y \in Row /\ y.revision = x.revision + 1 /\ y.state = "cancelled" /\ y.attempts = x.attempts /\ y.pages = x.pages
      /\ y.written = x.written /\ y.checkpoint = x.checkpoint /\ y.deleted = x.deleted
      /\ y.purged = x.purged
  BY <1>1 DEF Cancelled, Row
<1> HIDE DEF y
<1>3. RowOK(y, c, late, runs, f)  BY <1>2 DEF RowOK
<1>4. Rises(x, y)  BY <1>1, <1>2, RowTypes DEF Rises
<1> QED  BY <1>3, <1>4 DEF y

LEMMA ResumedOK ==
    ASSUME NEW x, NEW c, NEW late, NEW runs, NEW f, RowOK(x, c, late, runs, f),
           x.state \notin {"absent", "completed"}, ~x.deleted
    PROVE  RowOK(Resumed(x), c, late, runs, 0) /\ Rises(x, Resumed(x))
<1> DEFINE y == Resumed(x)
<1>1. x \in Row /\ x.revision + 1 \in Nat  BY RowTypes DEF RowOK
<1>2. /\ y \in Row /\ y.revision = x.revision + 1
      /\ y.state = "queued" /\ y.attempts = 0 /\ y.pages = x.pages
      /\ y.written = x.written /\ y.checkpoint = x.checkpoint /\ y.deleted = x.deleted
      /\ y.purged = x.purged
  BY <1>1 DEF Resumed, Row
<1> HIDE DEF y
<1>3. RowOK(y, c, late, runs, 0)  BY <1>2, ConstantsOK DEF RowOK
<1>4. Rises(x, y)  BY <1>1, <1>2, RowTypes DEF Rises
<1> QED  BY <1>3, <1>4 DEF y

LEMMA FailedOK ==
    ASSUME NEW x, NEW c, NEW late, NEW runs, NEW f, RowOK(x, c, late, runs, f),
           x.state = "queued", x.attempts < f
    PROVE  RowOK(Failed(x), c, late, runs, f) /\ Rises(x, Failed(x))
<1> DEFINE y == Failed(x)
<1>1. x \in Row /\ MaxAttempts \in Nat /\ x.attempts + 1 \in Nat /\ x.revision + 1 \in Nat
  BY RowTypes, ConstantsOK DEF RowOK
<1>2. /\ y \in Row /\ y.revision = x.revision + 1 /\ y.attempts = x.attempts + 1 /\ y.pages = x.pages
      /\ y.state = IF x.attempts + 1 >= MaxAttempts THEN "failed" ELSE "queued"
      /\ y.written = x.written /\ y.checkpoint = x.checkpoint /\ y.deleted = x.deleted
      /\ y.purged = x.purged
  BY <1>1 DEF Failed, Row
<1> HIDE DEF y
<1>3. RowOK(y, c, late, runs, f)  BY <1>1, <1>2, RowTypes DEF RowOK
<1>4. Rises(x, y)  BY <1>1, <1>2, RowTypes DEF Rises
<1> QED  BY <1>3, <1>4 DEF y

\* A page of a worker that has seen the row as it is.
LEMMA PagedOK ==
    ASSUME NEW x, NEW c, NEW late, NEW runs, NEW f, RowOK(x, c, late, runs, f),
           x.state = "queued", x.pages < MaxPages,
           NEW done \in BOOLEAN, NEW chunk \in BOOLEAN, NEW change \in BOOLEAN
    PROVE  /\ PageOf(x) = x.pages /\ PageOf(x) \in 0 .. MaxPages
           /\ c = 0 .. (x.written - 1)
           /\ RowOK(Paged(x, x, done, chunk, change), c \cup (IF chunk THEN {x.written} ELSE {}),
                    late, [runs EXCEPT ![PageOf(x)] = @ + 1], 0)
           /\ Rises(x, Paged(x, x, done, chunk, change))
<1> DEFINE y == Paged(x, x, done, chunk, change)
           d == c \cup (IF chunk THEN {x.written} ELSE {})
           again == [runs EXCEPT ![PageOf(x)] = @ + 1]
<1>1. x \in Row /\ ~x.deleted /\ MaxPages \in Nat  BY ConstantsOK DEF RowOK
<1>2. PageOf(x) = x.pages /\ PageOf(x) \in 0 .. MaxPages /\ c = 0 .. (x.written - 1)
  <2>1. PageOf(x) = x.pages  BY <1>1, RowTypes DEF RowOK, PageOf
  <2>2. c = 0 .. (x.written - 1)  BY <1>1 DEF RowOK, Contiguous
  <2>3. x.pages \in 0 .. MaxPages  BY <1>1, RowTypes
  <2> QED  BY <2>1, <2>2, <2>3
<1>3. /\ y \in Row /\ y.revision = x.revision + 1 /\ y.state \in {"queued", "completed"} /\ ~y.deleted /\ ~y.purged
      /\ y.checkpoint = x.pages + 1 /\ y.pages = x.pages + 1 /\ y.attempts = 0
      /\ y.written = IF chunk THEN x.written + 1 ELSE x.written
  <2>1. /\ ~x.purged /\ x.revision + 1 \in Nat /\ x.pages + 1 \in Nat /\ x.written + 1 \in Nat
        /\ x.written \in Nat /\ x.written + 0 = x.written /\ x.changed \in BOOLEAN
    BY <1>1, RowTypes DEF RowOK
  <2>2. PageOf(x) = x.pages  BY <1>2
  <2> DEFINE written == IF chunk THEN x.written + 1 ELSE x.written
             state == IF done THEN "completed" ELSE "queued"
  <2>3. written \in Nat /\ x.written + (IF chunk THEN 1 ELSE 0) = written  BY <2>1
  <2>4. state \in {"queued", "completed"} /\ (x.changed \/ change) \in BOOLEAN  OBVIOUS
  <2>5. y = [x EXCEPT !.state = state, !.checkpoint = x.pages + 1, !.pages = x.pages + 1,
                      !.written = written, !.changed = x.changed \/ change,
                      !.attempts = 0, !.revision = x.revision + 1]
    BY <1>1, <2>2, <2>3 DEF Paged, Row
  <2> HIDE DEF y, written, state
  <2>6. /\ y \in Row /\ y.revision = x.revision + 1 /\ y.state = state
        /\ y.deleted = x.deleted /\ y.purged = x.purged
        /\ y.checkpoint = x.pages + 1 /\ y.pages = x.pages + 1 /\ y.attempts = 0
        /\ y.written = written
    BY <1>1, <2>1, <2>3, <2>4, <2>5, ZenonT(30) DEF Row
  <2> QED  BY <1>1, <2>1, <2>4, <2>6 DEF written
<1>4. d = 0 .. (y.written - 1) /\ x.written \in Nat
  <2>1. x.written \in Nat  BY <1>1, RowTypes
  <2> HIDE DEF y
  <2> QED  BY <1>2, <1>3, <2>1
<1>5. Once(again, y.pages)
  <2>1. runs = [n \in 0 .. MaxPages |-> IF n < x.pages THEN 1 ELSE 0]  BY DEF RowOK, Once
  <2>2. x.pages \in Nat /\ MaxPages \in Nat  BY <1>1, RowTypes
  <2>3. again = [n \in 0 .. MaxPages |-> IF n < x.pages + 1 THEN 1 ELSE 0]
    <3>1. again = [n \in 0 .. MaxPages |-> IF n = x.pages THEN runs[n] + 1 ELSE runs[n]]
      BY <1>2, <2>1
    <3>2. ASSUME NEW n \in 0 .. MaxPages
          PROVE  (IF n = x.pages THEN runs[n] + 1 ELSE runs[n])
                   = (IF n < x.pages + 1 THEN 1 ELSE 0)
      <4>1. runs[n] = IF n < x.pages THEN 1 ELSE 0  BY <2>1
      <4>2. n \in Nat  BY <2>2
      <4> HIDE DEF again
      <4>3. CASE n = x.pages
        <5>1. runs[n] = 0 /\ n < x.pages + 1  BY <2>2, <4>1, <4>3
        <5> QED  BY <4>3, <5>1
      <4>4. CASE n # x.pages
        <5>1. n < x.pages <=> n < x.pages + 1  BY <2>2, <4>2, <4>4
        <5> QED  BY <4>1, <4>4, <5>1
      <4> QED  BY <4>3, <4>4
    <3> HIDE DEF again
    <3> QED  BY <3>1, <3>2
  <2>4. y.pages = x.pages + 1  BY <1>3
  <2> HIDE DEF y, again
  <2> QED  BY <2>3, <2>4 DEF Once
<1> HIDE DEF y, d, again
<1>6. y.written <= y.pages /\ y.pages <= MaxPages /\ y.pages # 0 /\ y.written \in Nat
  <2>1. x.written <= x.pages /\ x.written \in Nat /\ x.pages \in Nat  BY <1>1, RowTypes DEF RowOK
  <2> QED  BY <1>1, <1>3, <2>1
<1>7. Contiguous(d, y.written, y.deleted)  BY <1>4, <1>6 DEF Contiguous
<1>8. RowOK(y, d, late, again, 0)
  BY <1>3, <1>5, <1>6, <1>7, ConstantsOK DEF RowOK
<1>9. Rises(x, y)  BY <1>1, <1>3, RowTypes DEF Rises
<1> QED  BY <1>2, <1>8, <1>9 DEF y, d, again

\* Chunks are deleted from the front of a row that is marked deleted by then.
LEMMA RestOK ==
    ASSUME NEW x, NEW c, NEW late, NEW runs, NEW f, RowOK(x, c, late, runs, f)
    PROVE  /\ Contiguous(Rest(c), x.written, TRUE)
           /\ Swept(c) => Rest(c) = {}
           /\ c = {} => Rest(c) = {}
           /\ Rest(c) \subseteq c
<1>1. x.written \in Nat  BY RowTypes DEF RowOK
<1>2. PICK a \in 0 .. x.written : c = a .. (x.written - 1)  BY DEF RowOK, Contiguous
<1>3. PICK first \in a .. x.written : Rest(c) = first .. (x.written - 1)
  BY <1>1, <1>2, RestOfInterval
<1>4. Swept(c) => Rest(c) = {}  BY <1>1, <1>2, RestOfInterval
<1>5. Contiguous(Rest(c), x.written, TRUE)  BY <1>1, <1>2, <1>3 DEF Contiguous
<1> QED  BY <1>4, <1>5 DEF Rest

LEMMA MarkedOK ==
    ASSUME NEW x, NEW c, NEW late, NEW runs, NEW f, RowOK(x, c, late, runs, f),
           x.state \notin {"absent", "queued"}
    PROVE  /\ RowOK(Marked(x, c), Rest(c), late, runs, f) /\ Marked(x, c).deleted
           /\ \/ Marked(x, c) = x
              \/ Rises(x, Marked(x, c))
<1> DEFINE y == Marked(x, c)
<1>1. x \in Row /\ x.revision + 1 \in Nat  BY RowTypes DEF RowOK
<1>2. /\ y \in Row /\ (y = x \/ y.revision = x.revision + 1)
      /\ y.deleted = TRUE /\ y.state = x.state
      /\ y.written = x.written /\ y.pages = x.pages
      /\ y.attempts = x.attempts /\ y.purged = x.purged
      /\ y.checkpoint = x.checkpoint
  BY <1>1 DEF Marked, Discarded, Row
<1> HIDE DEF y
<1>3. RowOK(y, Rest(c), late, runs, f)
  <2>0. Contiguous(Rest(c), x.written, TRUE) /\ (c = {} => Rest(c) = {})  BY RestOK
  <2>1. Contiguous(Rest(c), y.written, y.deleted)  BY <1>2, <2>0 DEF Contiguous
  <2>2. x.purged => c = {}  BY DEF RowOK
  <2>3. y.purged => Rest(c) = {}  BY <1>2, <2>0, <2>2
  <2> QED  BY <1>2, <2>1, <2>3 DEF RowOK
<1>4. y = x \/ Rises(x, y)  BY <1>1, <1>2, RowTypes DEF Rises
<1> QED  BY <1>2, <1>3, <1>4 DEF y

LEMMA PurgedOK ==
    ASSUME NEW x, NEW c, NEW late, NEW runs, NEW f, RowOK(x, c, late, runs, f),
           x.state # "absent", late
    PROVE  /\ RowOK(Purged(x, Swept(c)), Rest(c), late, runs, f)
           /\ Rises(x, Purged(x, Swept(c)))
<1> DEFINE y == Purged(x, Swept(c))
<1>1. x \in Row /\ x.revision + 1 \in Nat /\ Swept(c) \in BOOLEAN  BY RowTypes DEF RowOK, Swept
<1>2. /\ y \in Row /\ y.revision = x.revision + 1 /\ y.deleted = TRUE /\ y.state \in {"completed", "failed", "cancelled"}
      /\ y.written = x.written /\ y.pages = x.pages /\ y.attempts = x.attempts
      /\ y.purged = Swept(c) /\ y.checkpoint = None
      /\ x.state = "completed" => y.state = "completed"
  BY <1>1 DEF Purged, Row, RowOK
<1> HIDE DEF y
<1>3. RowOK(y, Rest(c), late, runs, f)  BY <1>2, RestOK DEF RowOK
<1>4. Rises(x, y)  BY <1>1, <1>2, RowTypes DEF Rises
<1> QED  BY <1>3, <1>4 DEF y

-----------------------------------------------------------------------------
(* The steps *)

\* A step of process p alone, or of nobody.
Only(p) ==
    \A q \in Proc \ {p} :
        /\ pc'[q] = pc[q] /\ at'[q] = at[q] /\ seen'[q] = seen[q]
        /\ total'[q] = total[q] /\ reply'[q] = reply[q]

\* What it may do to a row that others work with.
Steady(j) ==
    Exists(j) =>
        /\ Rises(job[j], job'[j]) \/ (job'[j] = job[j] /\ throws'[j] >= throws[j])
        /\ job[j].deleted /\ chunks[j] = {} => chunks'[j] = {}

Same(j) ==
    /\ job'[j] = job[j] /\ chunks'[j] = chunks[j] /\ expired'[j] = expired[j]
    /\ ran'[j] = ran[j] /\ throws'[j] = throws[j]

LEMMA OthersKeep ==
    ASSUME QInv, NEW p, Only(p), NEW q \in Proc \ {p}, Types', \A j \in Job : Steady(j)
    PROVE  ProcOK(q)'
<1>1. /\ ProcOK(q) /\ Types
      /\ pc'[q] = pc[q] /\ at'[q] = at[q] /\ seen'[q] = seen[q]
      /\ total'[q] = total[q] /\ reply'[q] = reply[q]
  BY DEF QInv, Only
<1>2. ASSUME NEW j \in Job, Exists(j)
      PROVE  /\ Exists(j)' /\ job'[j].revision >= job[j].revision
             /\ job'[j].revision = job[j].revision => job'[j] = job[j] /\ throws'[j] >= throws[j]
             /\ job[j].state = "completed" =>
                   job'[j].state = "completed" /\ job'[j].written = job[j].written
             /\ job[j].deleted /\ chunks[j] = {} => job'[j].deleted /\ chunks'[j] = {}
  <2>1. Steady(j)  OBVIOUS
  <2>2. job[j] \in Row /\ job'[j] \in Row  BY <1>1 DEF Types, DataTypes
  <2>3. job[j].revision \in Nat /\ job'[j].revision \in Nat  BY <2>2, RowTypes
  <2>4. CASE Rises(job[j], job'[j])  BY <2>1, <2>3, <2>4, <1>2 DEF Steady, Rises, Exists
  <2>5. CASE job'[j] = job[j] /\ throws'[j] >= throws[j]  BY <2>1, <2>3, <2>5, <1>2 DEF Steady, Exists
  <2> QED  BY <1>2, <2>1, <2>4, <2>5 DEF Steady
<1>3. ASSUME NEW j \in Job, at[q] = j, pc[q] \in {"handle", "record"}, q \in Worker, Exists(j),
             seen[q].revision <= job[j].revision,
             pc[q] = "record" /\ seen[q].revision = job[j].revision => job[j].attempts < throws[j]
      PROVE  /\ Exists(j)' /\ seen[q].revision <= job'[j].revision
             /\ pc[q] = "record" /\ seen[q].revision = job'[j].revision =>
                   job'[j].attempts < throws'[j]
  <2>1. /\ Exists(j)' /\ job'[j].revision >= job[j].revision
        /\ job'[j].revision = job[j].revision => job'[j] = job[j] /\ throws'[j] >= throws[j]
    BY <1>2, <1>3
  <2>2. seen[q] \in Row /\ job[j] \in Row /\ job'[j] \in Row /\ throws[j] \in Nat /\ throws'[j] \in Nat
    BY <1>1 DEF Types, DataTypes, ProcTypes
  <2>3. /\ seen[q].revision \in Nat /\ job[j].revision \in Nat /\ job[j].attempts \in Nat
        /\ job'[j].revision \in Nat
    BY <2>2, RowTypes
  <2> QED  BY <1>3, <2>1, <2>2, <2>3
<1>4. pc[q] = "delete" => q \in Cleaner /\ at'[q] \in Job /\ Exists(at[q])'
  BY <1>1, <1>2 DEF ProcOK, Exists
<1>5. pc[q] = "read" => /\ q \in Reader /\ at[q] \in Job
                        /\ total[q] = job'[at[q]].written /\ job'[at[q]].state = "completed"
  BY <1>1, <1>2 DEF ProcOK, Exists
<1>6. reply[q] \in Job => job'[reply[q]].deleted /\ chunks'[reply[q]] = {}
  <2> SUFFICES ASSUME reply[q] \in Job
               PROVE  job'[reply[q]].deleted /\ chunks'[reply[q]] = {}
    OBVIOUS
  <2>1. job[reply[q]].deleted /\ chunks[reply[q]] = {}  BY <1>1 DEF ProcOK
  <2>2. Exists(reply[q])  BY <2>1 DEF QInv, Rows, RowRight, RowOK, NoRow, Exists
  <2> QED  BY <1>2, <2>1, <2>2
<1>7. pc[q] \in {"handle", "record"} =>
        /\ q \in Worker /\ at'[q] \in Job /\ Exists(at[q])'
        /\ seen[q].revision <= job'[at[q]].revision
        /\ pc[q] = "record" /\ seen[q].revision = job'[at[q]].revision =>
              job'[at[q]].attempts < throws'[at[q]]
  BY <1>1, <1>3 DEF ProcOK, Exists
<1> QED  BY <1>1, <1>4, <1>5, <1>6, <1>7 DEF ProcOK

\* The rows that it leaves alone stay right, and locks stay true if the locked rows stay.
LEMMA StepKeeps ==
    ASSUME QInv, NEW p, Only(p), Types', p \in Proc => ProcOK(p)',
           \A j \in Job : /\ Same(j) \/ RowRight(j)'
                          /\ Same(j) \/ Steady(j)
                          /\ \/ lock'[j] = None \/ LockOK(j)'
                             \/ lock'[j] = lock[j] /\ lock[j] # p /\ job'[j] = job[j]
    PROVE  QInv'
<1>1. Types /\ Rows /\ \A j \in Job : LockOK(j)  BY DEF QInv
<1>2. Rows'
  <2> SUFFICES ASSUME NEW j \in Job
               PROVE  RowRight(j)'
    BY DEF Rows
  <2>1. RowRight(j)  BY <1>1 DEF Rows
  <2> QED  BY <2>1 DEF Same, RowRight
<1>3. \A j \in Job : Steady(j)
  <2> SUFFICES ASSUME NEW j \in Job, Same(j) PROVE Steady(j)  OBVIOUS
  <2> QED  BY <1>1 DEF Same, Steady, Types, DataTypes
<1>4. \A q \in Proc : ProcOK(q)'  BY <1>3, OthersKeep
<1>5. \A j \in Job : LockOK(j)'
  <2> SUFFICES ASSUME NEW j \in Job, lock'[j] = lock[j], lock[j] # p, job'[j] = job[j], lock[j] # None
               PROVE  LockOK(j)'
    BY DEF LockOK
  <2>1. lock[j] \in Proc \ {p}  BY <1>1 DEF Types, DataTypes, Proc
  <2> QED  BY <1>1, <2>1 DEF LockOK, Only, Queued
<1>6. Proc' = Proc  BY DEF Proc
<1> QED  BY <1>2, <1>4, <1>5, <1>6 DEF QInv

\* A step of nobody: it changes rows that are free, or does not change what a lock protects.
LEMMA RowsStep ==
    ASSUME QInv, Stay, UNCHANGED lock, DataTypes',
           \A j \in Job :
              \/ Same(j)
              \/ RowRight(j)' /\ Steady(j) /\ (lock[j] = None \/ job'[j] = job[j])
    PROVE  QInv'
<1>1. PICK nobody : nobody \notin Proc \cup Worker \cup {None}  BY NoSetContainsEverything
<1>2. Types /\ Types' /\ Only(nobody)  BY DEF QInv, Types, ProcTypes, Stay, Only
<1>3. \A j \in Job : lock[j] # nobody  BY <1>1, <1>2 DEF Types, DataTypes
<1>4. \A j \in Job : lock'[j] = None \/ (lock'[j] = lock[j] /\ lock[j] # nobody /\ job'[j] = job[j])
  BY <1>3 DEF Same
<1> QED  BY <1>1, <1>2, <1>4, StepKeeps

\* Process p returns.
LEMMA ReturnOK ==
    ASSUME Types, NEW p \in Proc, NEW answer \in Answer \cup Job, Return(p, answer),
           answer \in Job => job'[answer].deleted /\ chunks'[answer] = {}
    PROVE  ProcTypes' /\ ProcOK(p)' /\ Only(p)
<1>1. NoRow \in Row /\ 0 \in Nat  BY ConstantsOK DEF NoRow, Row
<1>2. ProcTypes'  BY <1>1 DEF Types, ProcTypes, Return, Goto
<1>3. pc'[p] = "idle" /\ reply'[p] = answer  BY DEF Types, ProcTypes, Return, Goto
<1>4. Only(p)  BY DEF Types, ProcTypes, Return, Goto, Only
<1> QED  BY <1>2, <1>3, <1>4 DEF ProcOK

-----------------------------------------------------------------------------
(* Rows *)

LEMMA RowNow ==
    ASSUME QInv, NEW j \in Job
    PROVE  /\ RowOK(job[j], chunks[j], expired[j], ran[j], throws[j])
           /\ job[j] \in Row /\ throws[j] \in Nat /\ chunks[j] \subseteq Nat
           /\ expired[j] \in BOOLEAN /\ DataTypes /\ ProcTypes /\ LockOK(j)
           /\ ~Queued(j) => lock[j] = None
BY DEF QInv, Rows, RowRight, RowOK, Types, DataTypes, LockOK

LEMMA RightTypes ==
    ASSUME NEW x, NEW c, NEW late, NEW runs, NEW f, RowOK(x, c, late, runs, f)
    PROVE  x \in Row /\ f \in Nat /\ runs \in [0 .. MaxPages -> Nat] /\ c \subseteq Nat
<1>1. x \in Row /\ x.written \in Nat  BY RowTypes DEF RowOK
<1>2. PICK a \in 0 .. x.written : c = a .. (x.written - 1)  BY DEF RowOK, Contiguous
<1> QED  BY <1>1, <1>2 DEF RowOK, Once

LEMMA SubmitKeeps == ASSUME QInv, NEW j \in Job, Submit(j) PROVE QInv'
<1> DEFINE y == [NoRow EXCEPT !.state = "queued"]
<1>1. RowOK(y, chunks[j], expired[j], ran[j], throws[j])  BY RowNow, SubmitOK DEF Submit, Exists
<1>2. y \in Row  BY <1>1, RightTypes
<1> HIDE DEF y
<1>3. job' = [job EXCEPT ![j] = y]
      /\ UNCHANGED <<chunks, expired, waiting, lock, ran, throws, retries, faults>> /\ Stay
  BY DEF Submit, Write, y, time, history
<1>4. DataTypes' /\ job'[j] = y /\ \A i \in Job : i = j \/ Same(i)
  BY <1>2, <1>3, RowNow DEF DataTypes, Same
<1>5. Steady(j) /\ lock[j] = None  BY RowNow DEF Submit, Steady, Exists, Queued
<1>6. RowRight(j)'  BY <1>1, <1>3, <1>4 DEF RowRight
<1> QED  BY <1>3, <1>4, <1>5, <1>6, RowsStep

LEMMA CancelKeeps == ASSUME QInv, NEW j \in Job, Cancel(j) PROVE QInv'
<1> DEFINE y == Cancelled(job[j])
<1>1. RowOK(y, chunks[j], expired[j], ran[j], throws[j]) /\ Rises(job[j], y)
  BY RowNow, CancelledOK DEF Cancel, Exists
<1>2. y \in Row  BY <1>1, RightTypes
<1> HIDE DEF y
<1>3. job' = [job EXCEPT ![j] = y] /\ lock[j] = None
      /\ UNCHANGED <<chunks, expired, waiting, lock, ran, throws, retries, faults>> /\ Stay
  BY DEF Cancel, Write, y, time, history, Free
<1>4. DataTypes' /\ job'[j] = y /\ \A i \in Job : i = j \/ Same(i)
  BY <1>2, <1>3, RowNow DEF DataTypes, Same
<1>5. Steady(j)  BY <1>1, <1>3, <1>4 DEF Steady
<1>6. RowRight(j)'  BY <1>1, <1>3, <1>4 DEF RowRight
<1> QED  BY <1>3, <1>4, <1>5, <1>6, RowsStep

LEMMA RetryKeeps == ASSUME QInv, NEW j \in Job, Retry(j) PROVE QInv'
<1> DEFINE y == Resumed(job[j])
<1>1. RowOK(y, chunks[j], expired[j], ran[j], 0) /\ Rises(job[j], y)
  BY RowNow, ResumedOK DEF Retry, Resumable
<1>2. y \in Row  BY <1>1, RightTypes
<1> HIDE DEF y
<1>3. /\ job' = [job EXCEPT ![j] = y] /\ lock[j] = None
      /\ waiting' = [waiting EXCEPT ![j] = FALSE] /\ throws' = [throws EXCEPT ![j] = 0]
      /\ retries < MaxRetries /\ retries' = retries + 1
      /\ UNCHANGED <<chunks, expired, lock, ran, faults>> /\ Stay
  BY DEF Retry, Write, y, Free
<1>4. retries' \in 0 .. MaxRetries
  BY <1>3, RowNow, ConstantsOK DEF DataTypes
<1>5. DataTypes' /\ job'[j] = y /\ throws'[j] = 0 /\ \A i \in Job : i = j \/ Same(i)
  BY <1>2, <1>3, <1>4, RowNow DEF DataTypes, Same
<1>6. Steady(j)  BY <1>1, <1>3, <1>5 DEF Steady
<1>7. RowRight(j)'  BY <1>1, <1>3, <1>5 DEF RowRight
<1> QED  BY <1>3, <1>5, <1>6, <1>7, RowsStep

LEMMA ExpireKeeps == ASSUME QInv, NEW j \in Job, Expire(j) PROVE QInv'
<1>1. /\ expired' = [expired EXCEPT ![j] = TRUE]
      /\ UNCHANGED <<job, chunks, waiting, lock, ran, throws, retries, faults>> /\ Stay
  BY DEF Expire, history
<1>2. DataTypes' /\ expired'[j] = TRUE /\ \A i \in Job : i = j \/ Same(i)
  BY <1>1, RowNow DEF DataTypes, Same
<1>3. RowOK(job[j], chunks[j], TRUE, ran[j], throws[j])  BY RowNow DEF RowOK, Expire, Exists
<1>4. Steady(j)  BY <1>1, RowNow DEF Steady
<1>5. RowRight(j)' /\ job'[j] = job[j]  BY <1>1, <1>2, <1>3 DEF RowRight
<1> QED  BY <1>1, <1>2, <1>4, <1>5, RowsStep

LEMMA BackoffPassesKeeps == ASSUME QInv, NEW j \in Job, BackoffPasses(j) PROVE QInv'
<1>1. /\ waiting' = [waiting EXCEPT ![j] = FALSE]
      /\ UNCHANGED <<job, chunks, expired, lock, ran, throws, retries, faults>> /\ Stay
  BY DEF BackoffPasses, history
<1>2. DataTypes'  BY <1>1, RowNow DEF DataTypes
<1>3. \A i \in Job : Same(i)  BY <1>1 DEF Same
<1> QED  BY <1>1, <1>2, <1>3, RowsStep

\* Expired rows that no page holds are purged.
LEMMA PurgeAllOK ==
    ASSUME QInv, NEW jobs \in SUBSET Job, PurgeAll(jobs),
           \A j \in jobs : Exists(j) /\ expired[j],
           UNCHANGED <<expired, ran, throws>>
    PROVE  /\ job' \in [Job -> Row] /\ chunks' \in [Job -> SUBSET Nat]
           /\ \A j \in Job \ jobs : Same(j)
           /\ \A j \in jobs : /\ RowRight(j)'
                             /\ Steady(j) /\ Rises(job[j], job'[j])
<1>1. ASSUME NEW j \in jobs
      PROVE  /\ job'[j] = Purged(job[j], Swept(chunks[j])) /\ chunks'[j] = Rest(chunks[j])
             /\ RowOK(job'[j], chunks'[j], expired[j], ran[j], throws[j])
             /\ Rises(job[j], job'[j]) /\ chunks'[j] \subseteq chunks[j]
  <2>1. j \in Job /\ Exists(j) /\ expired[j]  OBVIOUS
  <2>2. job'[j] = Purged(job[j], Swept(chunks[j])) /\ chunks'[j] = Rest(chunks[j])
    BY <2>1 DEF PurgeAll
  <2>3. RowOK(job[j], chunks[j], expired[j], ran[j], throws[j])  BY <2>1, RowNow
  <2>4. /\ RowOK(Purged(job[j], Swept(chunks[j])), Rest(chunks[j]), expired[j], ran[j], throws[j])
        /\ Rises(job[j], Purged(job[j], Swept(chunks[j])))
    BY <2>1, <2>3, PurgedOK DEF Exists
  <2>5. Rest(chunks[j]) \subseteq chunks[j]  BY DEF Rest
  <2> QED  BY <2>2, <2>4, <2>5
<1>2. \A j \in Job \ jobs : Same(j)  BY DEF PurgeAll, Same
<1>3. \A j \in Job : job'[j] \in Row /\ chunks'[j] \subseteq Nat
  <2>1. \A j \in Job : job[j] \in Row /\ chunks[j] \subseteq Nat  BY RowNow
  <2>2. \A j \in jobs : job'[j] \in Row  BY <1>1, RightTypes
  <2> QED  BY <1>1, <1>2, <2>1, <2>2 DEF Same
<1>4. job' \in [Job -> Row] /\ chunks' \in [Job -> SUBSET Nat]
  BY <1>3 DEF PurgeAll
<1>5. \A j \in jobs : Steady(j)
  BY <1>1 DEF Steady
<1>6. \A j \in jobs : RowRight(j)'
  BY <1>1 DEF RowRight
<1> QED  BY <1>1, <1>2, <1>4, <1>5, <1>6

LEMMA PurgeExpiredKeeps == ASSUME QInv, PurgeExpired PROVE QInv'
<1>1. PICK jobs \in SUBSET Purgeable : PurgeAll(jobs)  BY DEF PurgeExpired
<1>2. /\ jobs \in SUBSET Job /\ \A j \in jobs : Exists(j) /\ expired[j] /\ lock[j] = None
      /\ UNCHANGED <<expired, waiting, lock, ran, throws, retries, faults>> /\ Stay
  BY <1>1 DEF PurgeExpired, Purgeable, Free, time, history
<1>3. DataTypes'  BY <1>1, <1>2, PurgeAllOK DEF QInv, Types, DataTypes
<1>4. \A j \in Job : Same(j) \/ (RowRight(j)' /\ Steady(j) /\ lock[j] = None)
  BY <1>1, <1>2, PurgeAllOK
<1> QED  BY <1>2, <1>3, <1>4, RowsStep

LEMMA ClaimExpiredKeeps ==
    ASSUME QInv, NEW w \in Worker, NEW j \in Job, ClaimExpired(w, j) PROVE QInv'
<1>1. /\ PurgeAll({j}) /\ Exists(j) /\ expired[j] /\ lock[j] = None
      /\ UNCHANGED <<expired, waiting, lock, ran, throws, retries, faults>> /\ Stay
  BY DEF ClaimExpired, Claimable, Queued, Exists, Free, time, history
<1>2. DataTypes'  BY <1>1, PurgeAllOK DEF QInv, Types, DataTypes
<1>3. \A i \in Job : Same(i) \/ (RowRight(i)' /\ Steady(i) /\ lock[i] = None)
  BY <1>1, PurgeAllOK
<1> QED  BY <1>1, <1>2, <1>3, RowsStep

-----------------------------------------------------------------------------
(* Pages *)

LEMMA ReleaseOK ==
    ASSUME QInv, NEW p \in Proc, Release(p)
    PROVE  /\ lock' \in [Job -> Worker \cup {None}]
           /\ \A j \in Job : lock'[j] = None \/ (lock'[j] = lock[j] /\ lock[j] # p)
BY DEF QInv, Types, DataTypes, Release

\* A step of process p that leaves all rows alone.
LEMMA ProcStep ==
    ASSUME QInv, NEW p \in Proc, Only(p), ProcTypes', ProcOK(p)',
           UNCHANGED <<job, chunks, expired, waiting, ran, throws, retries>>,
           faults' \in 0 .. MaxFaults,
           Release(p) \/ (UNCHANGED lock /\ (pc[p] = "handle" => pc'[p] = "handle" /\ at'[p] = at[p]
                                                              /\ seen'[p] = seen[p]))
    PROVE  QInv'
<1>1. \A j \in Job : Same(j)  BY DEF Same
<1>2. CASE Release(p)
  <2>1. lock' \in [Job -> Worker \cup {None}]
        /\ \A j \in Job : lock'[j] = None \/ (lock'[j] = lock[j] /\ lock[j] # p)
    BY <1>2, ReleaseOK
  <2>2. Types'  BY <2>1 DEF QInv, Types, DataTypes
  <2> QED  BY <1>1, <2>1, <2>2, StepKeeps
<1>3. CASE UNCHANGED lock /\ (pc[p] = "handle" => pc'[p] = "handle" /\ at'[p] = at[p]
                                                  /\ seen'[p] = seen[p])
  <2>1. Types'  BY <1>3 DEF QInv, Types, DataTypes
  <2>2. ASSUME NEW j \in Job PROVE lock'[j] = None \/ LockOK(j)' \/ (lock'[j] = lock[j] /\ lock[j] # p)
    <3>1. CASE lock[j] = p /\ p # None
      <4>1. LockOK(j)  BY DEF QInv
      <4>2. pc[p] = "handle" /\ at[p] = j /\ seen[p] = job[j] /\ Queued(j)
        BY <3>1, <4>1 DEF LockOK
      <4> QED  BY <1>3, <3>1, <4>2 DEF LockOK, Queued
    <3> QED  BY <1>3, <3>1
  <2> QED  BY <1>1, <2>1, <2>2, StepKeeps
<1> QED  BY <1>2, <1>3

LEMMA FaultOK == ASSUME QInv, Fault PROVE faults' \in 0 .. MaxFaults
BY ConstantsOK DEF QInv, Types, DataTypes, Fault

LEMMA ClaimKeeps ==
    ASSUME QInv, NEW w \in Worker, NEW j \in Job, Claim(w, j) PROVE QInv'
<1>1. /\ pc[w] = "idle" /\ Queued(j) /\ w \in Proc /\ w # None
      /\ lock' = [lock EXCEPT ![j] = w] /\ pc' = [pc EXCEPT ![w] = "handle"]
      /\ at' = [at EXCEPT ![w] = j] /\ seen' = [seen EXCEPT ![w] = job[j]]
      /\ UNCHANGED <<job, chunks, expired, waiting, total, next, reply, ran, throws, retries, faults>>
  BY ConstantsOK DEF Claim, Claimable, Goto, Proc, time, history
<1>2. Types' /\ Only(w)  BY <1>1 DEF QInv, Types, DataTypes, ProcTypes, Only
<1>3. pc'[w] = "handle" /\ at'[w] = j /\ seen'[w] = job[j] /\ lock'[j] = w
      /\ \A i \in Job \ {j} : lock'[i] = lock[i]
  BY <1>1 DEF QInv, Types, DataTypes, ProcTypes
<1>4. LockOK(j)'  BY <1>1, <1>3 DEF LockOK, Queued
<1>5. \A i \in Job : lock[i] # w  BY <1>1 DEF QInv, LockOK
<1>6. ProcOK(w)'
  <2>1. job[j].revision \in Nat  BY RowNow, RowTypes
  <2>2. ProcOK(w)  BY <1>1 DEF QInv
  <2> QED  BY <1>1, <1>3, <2>1, <2>2 DEF ProcOK, Queued, Exists
<1>7. \A i \in Job : Same(i)  BY <1>1 DEF Same
<1> QED  BY <1>1, <1>2, <1>3, <1>4, <1>5, <1>6, <1>7, StepKeeps

LEMMA CommitPageKeeps ==
    ASSUME QInv, NEW w \in Worker, NEW done \in BOOLEAN, NEW chunk \in BOOLEAN,
           NEW change \in BOOLEAN, CommitPage(w, done, chunk, change)
    PROVE  /\ QInv' /\ at[w] \in Job /\ ~expired[at[w]]
           /\ \A i \in Job \ {at[w]} : Same(i)
           /\ Queued(at[w]) /\ ~job[at[w]].deleted
           /\ job'[at[w]] = Paged(job[at[w]], job[at[w]], done, chunk, change)
           /\ chunks[at[w]] = 0 .. (job[at[w]].written - 1)
           /\ chunks'[at[w]] = chunks[at[w]] \cup (IF chunk THEN {job[at[w]].written} ELSE {})
<1>1. PICK j \in Job : at[w] = j
  BY DEF QInv, ProcOK, CommitPage, Proc
<1>2. /\ w \in Proc /\ w # None /\ lock[j] = w /\ ~expired[j] /\ job[j].pages < MaxPages
      /\ Page(j, seen[w], done, chunk, change) /\ Release(w) /\ Return(w, "none")
      /\ UNCHANGED <<expired, retries, faults>>
  BY <1>1, ConstantsOK DEF CommitPage, MayCommit, Proc
<1>3. seen[w] = job[j] /\ Queued(j)  BY <1>2 DEF QInv, LockOK
<1> DEFINE y == Paged(job[j], job[j], done, chunk, change)
           d == chunks[j] \cup (IF chunk THEN {job[j].written} ELSE {})
           again == [ran[j] EXCEPT ![PageOf(job[j])] = @ + 1]
<1>4. /\ RowOK(y, d, expired[j], again, 0) /\ Rises(job[j], y)
      /\ chunks[j] = 0 .. (job[j].written - 1) /\ PageOf(job[j]) \in 0 .. MaxPages
      /\ ~job[j].deleted
  <2>1. RowOK(job[j], chunks[j], expired[j], ran[j], throws[j])  BY RowNow
  <2>2. job[j].state = "queued" /\ ~job[j].deleted  BY <1>3, <2>1 DEF Queued, RowOK
  <2> QED  BY <1>2, <2>1, <2>2, PagedOK
<1>5. y \in Row /\ d \subseteq Nat /\ again \in [0 .. MaxPages -> Nat]  BY <1>4, RightTypes
<1>6. /\ job' = [job EXCEPT ![j] = y] /\ chunks' = [chunks EXCEPT ![j] = d]
      /\ ran' = [ran EXCEPT ![j] = again] /\ throws' = [throws EXCEPT ![j] = 0]
      /\ waiting' = [waiting EXCEPT ![j] = FALSE]
  BY <1>2, <1>3 DEF Page, Write
<1> HIDE DEF y, d, again
<1>7. /\ job'[j] = y /\ chunks'[j] = d /\ ran'[j] = again /\ throws'[j] = 0
      /\ \A i \in Job \ {j} : Same(i)
  BY <1>2, <1>6, RowNow DEF DataTypes, Same
<1>8. lock' \in [Job -> Worker \cup {None}]
      /\ \A i \in Job : lock'[i] = None \/ (lock'[i] = lock[i] /\ lock[i] # w)
  BY <1>2, ReleaseOK
<1>9. DataTypes'  BY <1>2, <1>5, <1>6, <1>8, RowNow DEF DataTypes
<1>10. ProcTypes' /\ ProcOK(w)' /\ Only(w)
  BY <1>2, ReturnOK, ConstantsOK DEF QInv, Answer
<1>11. RowRight(j)' /\ Steady(j)  BY <1>2, <1>4, <1>7 DEF RowRight, Steady
<1>12. \A i \in Job : i # j => job'[i] = job[i]  BY <1>7 DEF Same
<1>13. lock'[j] = None  BY <1>2, <1>8
<1>14. QInv'
  BY <1>2, <1>7, <1>8, <1>9, <1>10, <1>11, <1>12, <1>13, StepKeeps DEF Types
<1> QED  BY <1>1, <1>2, <1>3, <1>4, <1>7, <1>14 DEF y, d

LEMMA FailPageKeeps == ASSUME QInv, NEW w \in Worker, FailPage(w) PROVE QInv'
<1>1. PICK j \in Job : at[w] = j /\ Exists(j) /\ seen[w].revision <= job[j].revision
  BY DEF QInv, ProcOK, FailPage, Proc
<1> DEFINE same == seen[w].revision = job[j].revision
<1>2. /\ w \in Proc /\ Release(w) /\ pc' = [pc EXCEPT ![w] = "record"]
      /\ throws' = [throws EXCEPT ![j] = IF same THEN @ + 1 ELSE @]
      /\ UNCHANGED <<job, chunks, expired, waiting, at, seen, total, next, reply, ran, retries, faults>>
  BY <1>1 DEF FailPage, Goto, Proc, time
<1> HIDE DEF same
<1>3. throws[j] \in Nat /\ job[j] \in Row  BY RowNow
<1>4. throws'[j] = (IF same THEN throws[j] + 1 ELSE throws[j]) /\ throws' \in [Job -> Nat]
  BY <1>2, <1>3 DEF QInv, Types, DataTypes
<1>5. Types' /\ Only(w)
  BY <1>2, <1>4, ReleaseOK DEF QInv, Types, DataTypes, ProcTypes, Only
<1>6. ProcOK(w)'
  <2>1. pc'[w] = "record" /\ reply'[w] = reply[w]  BY <1>2 DEF QInv, Types, ProcTypes
  <2>2. RowOK(job[j], chunks[j], expired[j], ran[j], throws[j])  BY RowNow
  <2>3. job[j].attempts <= throws[j] /\ job[j].attempts \in Nat  BY <1>3, <2>2, RowTypes DEF RowOK
  <2>4. ProcOK(w)  BY <1>2 DEF QInv
  <2> QED  BY <1>1, <1>2, <1>3, <1>4, <2>1, <2>3, <2>4 DEF ProcOK, Exists, same
<1>7. \A i \in Job \ {j} : Same(i)
  BY <1>2, RowNow DEF Same, DataTypes
<1>8. RowRight(j)' /\ Steady(j)
  <2>1. RowOK(job[j], chunks[j], expired[j], ran[j], throws[j])  BY RowNow
  <2>2. throws'[j] >= throws[j] /\ throws'[j] \in Nat  BY <1>3, <1>4
  <2>3. job[j].attempts \in Nat  BY <1>3, RowTypes
  <2>4. RowOK(job[j], chunks[j], expired[j], ran[j], throws'[j])
    BY <1>3, <2>1, <2>2, <2>3 DEF RowOK
  <2> QED  BY <1>2, <2>2, <2>4 DEF RowRight, Steady
<1>9. \A i \in Job : lock'[i] = None \/ (lock'[i] = lock[i] /\ lock[i] # w /\ job'[i] = job[i])
  BY <1>2, ReleaseOK
<1> QED  BY <1>2, <1>5, <1>6, <1>7, <1>8, <1>9, StepKeeps

LEMMA AbortPageKeeps == ASSUME QInv, NEW w \in Worker, AbortPage(w) PROVE QInv'
<1>1. /\ w \in Proc /\ Release(w) /\ Return(w, "none")
      /\ UNCHANGED <<job, chunks, expired, waiting, ran, throws, retries>>
  BY DEF AbortPage, Proc, time, history
<1>2. ProcTypes' /\ ProcOK(w)' /\ Only(w)
  BY <1>1, ReturnOK, ConstantsOK DEF QInv, Answer
<1> QED  BY <1>1, <1>2, FaultOK, ProcStep DEF AbortPage

LEMMA CrashKeeps == ASSUME QInv, NEW p \in Proc, Crash(p) PROVE QInv'
<1>1. /\ Release(p) /\ Return(p, "none")
      /\ UNCHANGED <<job, chunks, expired, waiting, ran, throws, retries>>
  BY DEF Crash, time, history
<1>2. ProcTypes' /\ ProcOK(p)' /\ Only(p)
  BY <1>1, ReturnOK, ConstantsOK DEF QInv, Answer
<1> QED  BY <1>1, <1>2, FaultOK, ProcStep DEF Crash

LEMMA TimeOutKeeps == ASSUME QInv, NEW w \in Worker, TimeOut(w) PROVE QInv'
<1>1. /\ w \in Proc /\ Release(w) /\ Stay
      /\ UNCHANGED <<job, chunks, expired, waiting, ran, throws, retries>>
  BY DEF TimeOut, Proc, time, history
<1>2. ProcTypes' /\ Only(w)  BY <1>1 DEF QInv, Types, ProcTypes, Stay, Only
<1>3. ProcOK(w)'
  <2>1. ProcOK(w)  BY <1>1 DEF QInv
  <2> QED  BY <1>1, <2>1 DEF ProcOK, Stay, Exists
<1> QED  BY <1>1, <1>2, <1>3, FaultOK, ProcStep DEF TimeOut

\* What has been thrown since the claim is charged once.
LEMMA RecordFailureKeeps == ASSUME QInv, NEW w \in Worker, RecordFailure(w) PROVE QInv'
<1>1. PICK j \in Job : /\ at[w] = j /\ Exists(j)
                       /\ seen[w].revision = job[j].revision => job[j].attempts < throws[j]
  BY DEF QInv, ProcOK, RecordFailure, Proc
<1>2. /\ w \in Proc /\ lock[j] = None /\ Queued(j) /\ job[j].attempts < throws[j] /\ Return(w, "none")
      /\ UNCHANGED <<expired, lock, ran, throws, retries, faults>>
  BY <1>1 DEF RecordFailure, SameRevision, Free, Proc, history
<1>3. ProcTypes' /\ ProcOK(w)' /\ Only(w)
  BY <1>2, ReturnOK, ConstantsOK DEF QInv, Answer
<1>4. /\ job' \in [Job -> Row] /\ chunks' \in [Job -> SUBSET Nat]
      /\ waiting' \in [Job -> BOOLEAN]
      /\ \A i \in Job \ {j} : Same(i)
      /\ RowRight(j)' /\ Steady(j)
  <2>1. CASE expired[j] /\ PurgeAll({j}) /\ UNCHANGED waiting
    BY <1>1, <1>2, <2>1, PurgeAllOK, RowNow DEF DataTypes
  <2>2. CASE /\ ~expired[j] /\ job' = [job EXCEPT ![j] = Failed(job[j])]
             /\ waiting' = [waiting EXCEPT ![j] = TRUE] /\ UNCHANGED chunks
    <3>1. RowOK(job[j], chunks[j], expired[j], ran[j], throws[j])  BY RowNow
    <3>2. /\ RowOK(Failed(job[j]), chunks[j], expired[j], ran[j], throws[j])
          /\ Rises(job[j], Failed(job[j]))
      BY <1>2, <3>1, FailedOK DEF Queued
    <3>3. Failed(job[j]) \in Row  BY <3>2, RightTypes
    <3>4. /\ job' \in [Job -> Row] /\ chunks' \in [Job -> SUBSET Nat]
          /\ waiting' \in [Job -> BOOLEAN] /\ job'[j] = Failed(job[j])
          /\ \A i \in Job \ {j} : Same(i)
      BY <1>2, <2>2, <3>3, RowNow DEF DataTypes, Same
    <3> QED  BY <1>2, <2>2, <3>2, <3>4 DEF RowRight, Steady
  <2> QED  BY <1>1, <2>1, <2>2 DEF RecordFailure, Write
<1>5. DataTypes'  BY <1>2, <1>4, RowNow DEF DataTypes
<1>6. \A i \in Job : lock'[i] = None \/ (lock'[i] = lock[i] /\ lock[i] # w /\ job'[i] = job[i])
  <2> SUFFICES ASSUME NEW i \in Job, lock[i] # None
               PROVE  lock[i] # w /\ i # j
    BY <1>2, <1>4 DEF Same
  <2>1. pc[lock[i]] = "handle" /\ pc[w] = "record"  BY DEF QInv, LockOK, RecordFailure
  <2> QED  BY <1>2, <2>1
<1> QED  BY <1>2, <1>3, <1>4, <1>5, <1>6, StepKeeps DEF Types

LEMMA FailureOvertakenKeeps == ASSUME QInv, NEW w \in Worker, FailureOvertaken(w) PROVE QInv'
<1>1. /\ w \in Proc /\ pc[w] = "record" /\ Return(w, "none")
      /\ UNCHANGED <<job, chunks, expired, waiting, lock, ran, throws, retries, faults>>
  BY DEF FailureOvertaken, Proc, time, history
<1>2. ProcTypes' /\ ProcOK(w)' /\ Only(w)
  BY <1>1, ReturnOK, ConstantsOK DEF QInv, Answer
<1>3. faults' \in 0 .. MaxFaults  BY <1>1 DEF QInv, Types, DataTypes
<1> QED  BY <1>1, <1>2, <1>3, ProcStep

-----------------------------------------------------------------------------
(* Cleanup and readers *)

LEMMA StartDeleteKeeps ==
    ASSUME QInv, NEW c \in Cleaner, NEW j \in Job, StartDelete(c, j) PROVE QInv'
<1>1. /\ c \in Proc /\ pc[c] = "idle" /\ Exists(j)
      /\ pc' = [pc EXCEPT ![c] = "delete"] /\ at' = [at EXCEPT ![c] = j]
      /\ reply' = [reply EXCEPT ![c] = "none"]
      /\ UNCHANGED <<job, chunks, expired, waiting, lock, seen, total, next, ran, throws,
                     retries, faults>>
  BY DEF StartDelete, Goto, Proc, time, history
<1>2. ProcTypes' /\ Only(c)  BY <1>1 DEF QInv, Types, ProcTypes, Only, Answer
<1>3. pc'[c] = "delete" /\ at'[c] = j /\ reply'[c] = "none" /\ "none" \notin Job
  BY <1>1, ConstantsOK DEF QInv, Types, ProcTypes, Answer
<1>4. ProcOK(c)'  BY <1>1, <1>3 DEF ProcOK, Exists
<1>5. faults' \in 0 .. MaxFaults  BY <1>1 DEF QInv, Types, DataTypes
<1> QED  BY <1>1, <1>2, <1>4, <1>5, ProcStep

LEMMA DeleteBatchKeeps ==
    ASSUME QInv, NEW c \in Cleaner, DeleteBatch(c)
    PROVE  /\ QInv' /\ at[c] \in Job /\ Exists(at[c])
           /\ \A i \in Job \ {at[c]} : Same(i)
           /\ job'[at[c]] = Marked(job[at[c]], chunks[at[c]])
           /\ chunks'[at[c]] = Rest(chunks[at[c]])
<1>1. PICK j \in Job : at[c] = j /\ Exists(j)
  BY DEF QInv, ProcOK, DeleteBatch, Proc
<1> DEFINE y == Marked(job[j], chunks[j])
           d == Rest(chunks[j])
<1>2. /\ c \in Proc /\ lock[j] = None /\ ~Queued(j) /\ pc[c] = "delete"
      /\ job' = [job EXCEPT ![j] = y] /\ chunks' = [chunks EXCEPT ![j] = d]
      /\ IF Swept(chunks[j]) THEN Return(c, j) ELSE Stay
      /\ UNCHANGED <<expired, waiting, lock, ran, throws, retries, faults>>
  BY <1>1 DEF DeleteBatch, Free, Proc, Write, time, history
<1>3. /\ RowOK(y, d, expired[j], ran[j], throws[j]) /\ y.deleted
      /\ y = job[j] \/ Rises(job[j], y)
      /\ Swept(chunks[j]) => d = {}
      /\ chunks[j] = {} => d = {}
  <2>1. RowOK(job[j], chunks[j], expired[j], ran[j], throws[j])  BY RowNow
  <2>2. job[j].state \notin {"absent", "queued"}  BY <1>1, <1>2 DEF Exists, Queued
  <2> QED  BY <2>1, <2>2, MarkedOK, RestOK
<1>4. y \in Row /\ d \subseteq Nat  BY <1>3, RightTypes
<1> HIDE DEF y, d
<1>5. job'[j] = y /\ chunks'[j] = d /\ \A i \in Job \ {j} : Same(i)
  BY <1>2, RowNow DEF DataTypes, Same
<1>6. DataTypes'  BY <1>2, <1>4, RowNow DEF DataTypes
<1>7. ProcTypes' /\ ProcOK(c)' /\ Only(c)
  <2>1. CASE Swept(chunks[j])
    BY <1>2, <1>3, <1>5, <2>1, ReturnOK DEF QInv
  <2>2. CASE ~Swept(chunks[j])
    <3>1. Stay  BY <1>2, <2>2
    <3>2. ProcTypes' /\ Only(c)  BY <3>1 DEF QInv, Types, ProcTypes, Stay, Only
    <3>3. ProcOK(c)  BY <1>2 DEF QInv
    <3>4. y.state # "absent"  BY <1>1, <1>3 DEF Rises, Exists
    <3>5. reply[c] \in Job => job'[reply[c]].deleted /\ chunks'[reply[c]] = {}
      BY <1>3, <1>5, <3>3 DEF ProcOK, Same
    <3> QED  BY <1>1, <1>2, <1>5, <3>1, <3>2, <3>3, <3>4, <3>5 DEF ProcOK, Stay, Exists
  <2> QED  BY <2>1, <2>2
<1>8. RowRight(j)'  BY <1>2, <1>3, <1>5 DEF RowRight
<1>9. Steady(j)
  <2>1. throws[j] \in Nat  BY RowNow
  <2> QED  BY <1>2, <1>3, <1>5, <2>1 DEF Steady
<1>10. \A i \in Job : lock'[i] = None \/ (lock'[i] = lock[i] /\ lock[i] # c /\ job'[i] = job[i])
  <2> SUFFICES ASSUME NEW i \in Job, lock[i] # None
               PROVE  lock[i] # c /\ i # j
    BY <1>2, <1>5 DEF Same
  <2>1. pc[lock[i]] = "handle"  BY DEF QInv, LockOK
  <2> QED  BY <1>2, <2>1
<1>11. QInv'  BY <1>2, <1>5, <1>6, <1>7, <1>8, <1>9, <1>10, StepKeeps DEF Types
<1> QED  BY <1>1, <1>5, <1>11 DEF y, d

LEMMA DeleteRejectedKeeps == ASSUME QInv, NEW c \in Cleaner, DeleteRejected(c) PROVE QInv'
<1>1. /\ c \in Proc /\ pc[c] = "delete" /\ Return(c, "rejected")
      /\ UNCHANGED <<job, chunks, expired, waiting, lock, ran, throws, retries, faults>>
  BY DEF DeleteRejected, Proc, time, history
<1>2. ProcTypes' /\ ProcOK(c)' /\ Only(c)
  BY <1>1, ReturnOK, ConstantsOK DEF QInv, Answer
<1>3. faults' \in 0 .. MaxFaults  BY <1>1 DEF QInv, Types, DataTypes
<1> QED  BY <1>1, <1>2, <1>3, ProcStep

LEMMA StartReadKeeps ==
    ASSUME QInv, NEW r \in Reader, NEW j \in Job, StartRead(r, j) PROVE QInv'
<1>1. /\ r \in Proc /\ pc[r] = "idle" /\ job[j].state = "completed"
      /\ pc' = [pc EXCEPT ![r] = "read"] /\ at' = [at EXCEPT ![r] = j]
      /\ total' = [total EXCEPT ![r] = job[j].written]
      /\ reply' = [reply EXCEPT ![r] = "none"]
      /\ UNCHANGED <<job, chunks, expired, waiting, lock, seen, next, ran, throws,
                     retries, faults>>
  BY DEF StartRead, Readable, Goto, Proc, time, history
<1>2. job[j].written \in Nat  BY RowNow, RowTypes
<1>3. ProcTypes' /\ Only(r)  BY <1>1, <1>2 DEF QInv, Types, ProcTypes, Only, Answer
<1>4. pc'[r] = "read" /\ at'[r] = j /\ total'[r] = job[j].written
      /\ reply'[r] = "none" /\ "none" \notin Job
  BY <1>1, ConstantsOK DEF QInv, Types, ProcTypes, Answer
<1>5. ProcOK(r)'  BY <1>1, <1>4 DEF ProcOK
<1>6. faults' \in 0 .. MaxFaults  BY <1>1 DEF QInv, Types, DataTypes
<1> QED  BY <1>1, <1>3, <1>5, <1>6, ProcStep

LEMMA ReadChunkKeeps == ASSUME QInv, NEW r \in Reader, ReadChunk(r) PROVE QInv'
<1>1. /\ r \in Proc /\ pc[r] = "read" /\ next' = [next EXCEPT ![r] = @ + 1]
      /\ UNCHANGED <<job, chunks, expired, waiting, lock, pc, at, seen, total, reply, ran,
                     throws, retries, faults>>
  BY DEF ReadChunk, Proc, time, history
<1>2. ProcTypes' /\ Only(r) /\ faults' \in 0 .. MaxFaults
  BY <1>1 DEF QInv, Types, DataTypes, ProcTypes, Only
<1>3. ProcOK(r)  BY <1>1 DEF QInv
<1>4. ProcOK(r)'  BY <1>1, <1>3 DEF ProcOK
<1> QED  BY <1>1, <1>2, <1>4, ProcStep

LEMMA ReadOverKeeps ==
    ASSUME QInv, NEW r \in Reader, ReadFails(r) \/ ReadEnds(r) PROVE QInv'
<1>1. /\ r \in Proc /\ pc[r] = "read" /\ \E answer \in {"unavailable", "whole"} : Return(r, answer)
      /\ UNCHANGED <<job, chunks, expired, waiting, lock, ran, throws, retries, faults>>
  BY DEF ReadFails, ReadEnds, Proc, time, history
<1>2. ProcTypes' /\ ProcOK(r)' /\ Only(r)
  BY <1>1, ReturnOK, ConstantsOK DEF QInv, Answer
<1>3. faults' \in 0 .. MaxFaults  BY <1>1 DEF QInv, Types, DataTypes
<1> QED  BY <1>1, <1>2, <1>3, ProcStep

-----------------------------------------------------------------------------
(* The invariant holds *)

LEMMA InitOK == ASSUME Init PROVE QInv
<1>1. /\ NoRow \in Row /\ NoRow.state = "absent" /\ NoRow.pages = 0 /\ NoRow.written = 0
      /\ NoRow.attempts = 0 /\ NoRow.checkpoint = None /\ ~NoRow.deleted /\ ~NoRow.purged
      /\ MaxPages \in Nat /\ MaxFaults \in Nat /\ MaxRetries \in Nat
  BY ConstantsOK DEF NoRow, Row
<1>2. Types
  <2>1. DataTypes  BY <1>1 DEF Init, DataTypes
  <2>2. ProcTypes  BY <1>1 DEF Init, ProcTypes, Answer
  <2> QED  BY <2>1, <2>2 DEF Types
<1>3. Rows
  <2> SUFFICES ASSUME NEW j \in Job PROVE RowRight(j)
    BY DEF Rows
  <2>1. /\ job[j] = NoRow /\ chunks[j] = {} /\ expired[j] = FALSE /\ throws[j] = 0
        /\ ran[j] = [n \in 0 .. MaxPages |-> 0]
    BY DEF Init
  <2>2. Contiguous({}, NoRow.written, NoRow.deleted)
    <3>1. 0 \in 0 .. 0 /\ {} = 0 .. (0 - 1)  OBVIOUS
    <3> QED  BY <1>1, <3>1 DEF Contiguous
  <2>3. Once([n \in 0 .. MaxPages |-> 0], 0)  BY <1>1 DEF Once
  <2>4. RowOK(NoRow, {}, FALSE, [n \in 0 .. MaxPages |-> 0], 0)
    BY <1>1, <2>2, <2>3 DEF RowOK
  <2> QED  BY <2>1, <2>4 DEF RowRight
<1>4. \A p \in Proc : ProcOK(p)  BY ConstantsOK DEF Init, ProcOK, Answer
<1>5. \A j \in Job : LockOK(j)  BY DEF Init, LockOK
<1> QED  BY <1>2, <1>3, <1>4, <1>5 DEF QInv

LEMMA StutterKeeps == ASSUME QInv, UNCHANGED vars PROVE QInv'
<1>1. Stay /\ UNCHANGED <<job, chunks, expired, waiting, lock, ran, throws, retries, faults>>
  BY DEF vars, time, history, Stay
<1>2. DataTypes' /\ \A j \in Job : Same(j)  BY <1>1 DEF QInv, Types, DataTypes, Same
<1> QED  BY <1>1, <1>2, RowsStep

LEMMA NextKeeps == ASSUME QInv, [Next]_vars PROVE QInv'
<1>1. ASSUME NEW j \in Job,
             \/ Submit(j) \/ Cancel(j) \/ Retry(j) \/ Expire(j) \/ BackoffPasses(j)
             \/ \E c \in Cleaner : StartDelete(c, j)
             \/ \E r \in Reader : StartRead(r, j)
      PROVE  QInv'
  BY <1>1, SubmitKeeps, CancelKeeps, RetryKeeps, ExpireKeeps, BackoffPassesKeeps,
     StartDeleteKeeps, StartReadKeeps
<1>2. ASSUME NEW w \in Worker, RunNext(w) \/ RunPage(w) \/ AbortPage(w) \/ TimeOut(w)
      PROVE  QInv'
  BY <1>2, ClaimKeeps, ClaimExpiredKeeps, CommitPageKeeps, FailPageKeeps, RecordFailureKeeps,
     FailureOvertakenKeeps, AbortPageKeeps, TimeOutKeeps DEF RunNext, RunPage
<1>3. ASSUME NEW c \in Cleaner, Cleanup(c) PROVE QInv'
  BY <1>3, DeleteBatchKeeps, DeleteRejectedKeeps DEF Cleanup
<1>4. ASSUME NEW r \in Reader, Read(r) PROVE QInv'
  BY <1>4, ReadChunkKeeps, ReadOverKeeps DEF Read
<1> QED  BY <1>1, <1>2, <1>3, <1>4, CrashKeeps, PurgeExpiredKeeps, StutterKeeps DEF Next

\* The inductive invariant.
THEOREM QueueInvariant == Spec => []QInv
<1>1. Init => QInv  BY InitOK
<1>2. QInv /\ [Next]_vars => QInv'  BY NextKeeps
<1> QED  BY <1>1, <1>2, PTL DEF Spec

-----------------------------------------------------------------------------
(* The properties *)

\* A page's work takes effect once and in order.
THEOREM PagesOnce == Spec => []PagesRunOnce
<1>1. QInv => PagesRunOnce
  <2> SUFFICES ASSUME QInv PROVE PagesRunOnce
    OBVIOUS
  <2>1. \A j \in Job : /\ Once(ran[j], job[j].pages) /\ chunks[j] \subseteq 0 .. MaxPages
    <3> SUFFICES ASSUME NEW j \in Job
                 PROVE  Once(ran[j], job[j].pages) /\ chunks[j] \subseteq 0 .. MaxPages
      OBVIOUS
    <3>1. RowOK(job[j], chunks[j], expired[j], ran[j], throws[j])  BY RowNow
    <3>2. PICK a \in 0 .. job[j].written : chunks[j] = a .. (job[j].written - 1)
      BY <3>1 DEF RowOK, Contiguous
    <3>3. job[j].written \in Nat /\ job[j].pages \in Nat /\ MaxPages \in Nat
          /\ job[j].written <= job[j].pages /\ job[j].pages <= MaxPages
      BY <3>1, RowNow, RowTypes, ConstantsOK DEF RowOK
    <3> QED  BY <3>1, <3>2, <3>3 DEF RowOK
  <2>2. TypeOK  BY <2>1 DEF QInv, Types, DataTypes, ProcTypes, TypeOK
  <2>3. \A j \in Job : \A n \in 0 .. MaxPages : ran[j][n] = IF n < job[j].pages THEN 1 ELSE 0
    BY <2>1 DEF Once
  <2> QED  BY <2>2, <2>3 DEF PagesRunOnce
<1> QED  BY <1>1, QueueInvariant, PTL

\* The chunks of a job have no gap but the one that cleanup eats from the front.
THEOREM ChunksContiguous == Spec => []ChunksAreContiguous
<1>1. QInv => ChunksAreContiguous
  BY RowNow DEF ChunksAreContiguous, RowOK, Contiguous
<1> QED  BY <1>1, QueueInvariant, PTL

\* A failure is charged to the job that failed, as it is now.
THEOREM AttemptsReal == Spec => []AttemptsAreReal
<1>1. QInv => AttemptsAreReal
  BY RowNow DEF AttemptsAreReal, RowOK, Queued
<1> QED  BY <1>1, QueueInvariant, PTL

\* What is said to be cleaned up is, and stays so.
THEOREM CleanupStays == Spec => []CleanupHolds
<1>1. QInv => CleanupHolds
  <2> SUFFICES ASSUME QInv PROVE CleanupHolds
    OBVIOUS
  <2>1. \A j \in Job : job[j].purged =>
          /\ chunks[j] = {} /\ job[j].checkpoint = None /\ job[j].deleted
          /\ expired[j] /\ ~Queued(j)
    BY RowNow DEF RowOK, Queued
  <2>2. \A c \in Cleaner : reply[c] \in Job => chunks[reply[c]] = {}
    BY DEF QInv, ProcOK, Proc
  <2> QED  BY <2>1, <2>2 DEF CleanupHolds
<1> QED  BY <1>1, QueueInvariant, PTL

\* A reader reads a completed job, whose number of chunks stays what it took.
THEOREM ReadsWhole == Spec => []ReadsAreWhole
<1>1. QInv => ReadsAreWhole
  BY DEF QInv, ProcOK, ReadsAreWhole, Proc
<1> QED  BY <1>1, QueueInvariant, PTL

-----------------------------------------------------------------------------
(* What a step does to all the rows *)

\* A step changes no row, or it is one of these; and only a page adds to what ran, or to
\* the chunks.
LEMMA StepRows ==
    ASSUME QInv, [Next]_vars
    PROVE  \/ UNCHANGED <<job, chunks, ran>>
           \/ \E j \in Job : Submit(j) \/ Cancel(j) \/ Retry(j)
           \/ \E jobs \in SUBSET Job :
                 PurgeAll(jobs) /\ (\A j \in jobs : Exists(j)) /\ UNCHANGED ran
           \/ \E w \in Worker : \E done, chunk, change \in BOOLEAN : CommitPage(w, done, chunk, change)
           \/ \E j \in Job : /\ Queued(j) /\ job' = [job EXCEPT ![j] = Failed(job[j])]
                            /\ UNCHANGED <<chunks, ran>>
           \/ \E c \in Cleaner : DeleteBatch(c) /\ UNCHANGED ran
<1>1. ASSUME NEW w \in Worker, RecordFailure(w)
      PROVE  /\ at[w] \in Job /\ Queued(at[w]) /\ UNCHANGED ran
             /\ \/ PurgeAll({at[w]})
                \/ job' = [job EXCEPT ![at[w]] = Failed(job[at[w]])] /\ UNCHANGED chunks
  <2>1. at[w] \in Job  BY <1>1 DEF RecordFailure, QInv, ProcOK, Proc
  <2> QED  BY <1>1, <2>1 DEF RecordFailure, SameRevision, Write, history
<1>2. ASSUME NEW w \in Worker, NEW j \in Job, ClaimExpired(w, j)
      PROVE  PurgeAll({j}) /\ Exists(j) /\ UNCHANGED ran
  BY <1>2 DEF ClaimExpired, Claimable, Queued, Exists, history
<1>3. ASSUME PurgeExpired
      PROVE  \E jobs \in SUBSET Job :
                PurgeAll(jobs) /\ (\A j \in jobs : Exists(j)) /\ UNCHANGED ran
  BY <1>3 DEF PurgeExpired, Purgeable, history
<1>4. ASSUME NEW j \in Job, \/ Expire(j) \/ BackoffPasses(j)
                            \/ \E c \in Cleaner : StartDelete(c, j)
                            \/ \E r \in Reader : StartRead(r, j)
      PROVE  UNCHANGED <<job, chunks, ran>>
  BY <1>4 DEF Expire, BackoffPasses, StartDelete, StartRead, history
<1>5. ASSUME \/ UNCHANGED vars
             \/ \E w \in Worker : \/ \E j \in Job : Claim(w, j)
                                 \/ FailPage(w) \/ FailureOvertaken(w)
                                 \/ AbortPage(w) \/ TimeOut(w)
             \/ \E c \in Cleaner : DeleteRejected(c)
             \/ \E r \in Reader : Read(r)
             \/ \E p \in Proc : Crash(p)
      PROVE  UNCHANGED <<job, chunks, ran>>
  BY <1>5 DEF vars, Claim, FailPage, FailureOvertaken, AbortPage, TimeOut, DeleteRejected,
     Read, ReadChunk, ReadFails, ReadEnds, Crash, history
<1>6. ASSUME NEW c \in Cleaner, DeleteBatch(c) PROVE UNCHANGED ran
  BY <1>6 DEF DeleteBatch, history
<1>7. CASE Next
  <2>1. CASE \E j \in Job :
              \/ Submit(j) \/ Cancel(j) \/ Retry(j) \/ Expire(j) \/ BackoffPasses(j)
              \/ \E c \in Cleaner : StartDelete(c, j)
              \/ \E r \in Reader : StartRead(r, j)
    <3>1. PICK j \in Job :
            \/ Submit(j) \/ Cancel(j) \/ Retry(j) \/ Expire(j) \/ BackoffPasses(j)
            \/ \E c \in Cleaner : StartDelete(c, j)
            \/ \E r \in Reader : StartRead(r, j)
      BY <2>1
    <3>2. CASE Submit(j) \/ Cancel(j) \/ Retry(j)  BY <3>2
    <3>3. CASE \/ Expire(j) \/ BackoffPasses(j)
               \/ \E c \in Cleaner : StartDelete(c, j)
               \/ \E r \in Reader : StartRead(r, j)
      BY <1>4, <3>3
    <3> QED  BY <3>1, <3>2, <3>3
  <2>2. CASE \E w \in Worker : RunNext(w) \/ RunPage(w) \/ AbortPage(w) \/ TimeOut(w)
    <3>1. PICK w \in Worker : RunNext(w) \/ RunPage(w) \/ AbortPage(w) \/ TimeOut(w)
      BY <2>2
    <3>2. CASE RecordFailure(w)  BY <1>1, <3>2 DEF Queued, Exists
    <3>3. CASE \E j \in Job : ClaimExpired(w, j)
      <4>1. PICK j \in Job : ClaimExpired(w, j)  BY <3>3
      <4>2. PurgeAll({j}) /\ (\A i \in {j} : Exists(i)) /\ UNCHANGED ran /\ {j} \in SUBSET Job
        BY <1>2, <4>1
      <4> QED  BY <4>2
    <3>4. CASE \E done, chunk, change \in BOOLEAN : CommitPage(w, done, chunk, change)
      BY <3>4
    <3>5. CASE \/ \E j \in Job : Claim(w, j)
               \/ FailPage(w) \/ FailureOvertaken(w) \/ AbortPage(w) \/ TimeOut(w)
      BY <1>5, <3>5
    <3> QED  BY <3>1, <3>2, <3>3, <3>4, <3>5 DEF RunNext, RunPage
  <2>3. CASE \E c \in Cleaner : Cleanup(c)  BY <1>5, <1>6, <2>3 DEF Cleanup
  <2>4. CASE \/ \E r \in Reader : Read(r)
             \/ \E p \in Proc : Crash(p)
    BY <1>5, <2>4
  <2> QED  BY <1>3, <1>7, <2>1, <2>2, <2>3, <2>4 DEF Next
<1> QED  BY <1>5, <1>7

\* After its retention has ended a job gets no page and no chunk.
THEOREM NoLatePage == Spec => NoPageAfterExpiry
<1>1. ASSUME QInv, [Next]_vars, NEW j \in Job, expired[j]
      PROVE  ran'[j] = ran[j] /\ chunks'[j] \subseteq chunks[j]
  <2>1. CASE UNCHANGED <<job, chunks, ran>>  BY <2>1
  <2>2. CASE \E i \in Job : Submit(i) \/ Cancel(i) \/ Retry(i)
    BY <2>2 DEF Submit, Cancel, Retry, history
  <2>3. CASE \E jobs \in SUBSET Job : PurgeAll(jobs) /\ UNCHANGED ran
    BY <2>3 DEF PurgeAll, Rest
  <2>4. CASE \E w \in Worker : \E done, chunk, change \in BOOLEAN :
              CommitPage(w, done, chunk, change)
    BY <1>1, <2>4, CommitPageKeeps DEF Same
  <2>5. CASE UNCHANGED <<chunks, ran>>  BY <2>5
  <2>6. CASE \E c \in Cleaner : DeleteBatch(c) /\ UNCHANGED ran
    BY <1>1, <2>6, DeleteBatchKeeps DEF Same, Rest
  <2> QED  BY <1>1, <2>1, <2>2, <2>3, <2>4, <2>5, <2>6, StepRows
<1>2. QInv /\ [Next]_vars => [\A j \in Job : expired[j] =>
                                 ran'[j] = ran[j] /\ chunks'[j] \subseteq chunks[j]]_vars
  BY <1>1
<1> QED  BY <1>2, QueueInvariant, PTL DEF Spec, NoPageAfterExpiry

-----------------------------------------------------------------------------
(* Refinement *)

StatusOf(x) == IF x.deleted THEN "erased" ELSE x.state
OutputOf(x, c) == IF x.deleted THEN 0 ELSE Cardinality(c)

\* The step does not move job j's image, or only its status.
SameWork(j) ==
    /\ job'[j].pages = job[j].pages /\ job'[j].changed = job[j].changed
SameOutput(j) == OutputOf(job'[j], chunks'[j]) = OutputOf(job[j], chunks[j])
SameImage(j) == SameWork(j) /\ SameOutput(j) /\ StatusOf(job'[j]) = StatusOf(job[j])

LEMMA Stutters == ASSUME \A j \in Job : SameImage(j) PROVE UNCHANGED Lifecycle!vars
BY DEF SameImage, SameWork, SameOutput, StatusOf, OutputOf, Lifecycle!vars

LEMMA Moves ==
    ASSUME NEW j \in Job, \A i \in Job \ {j} : SameImage(i), SameWork(j), SameOutput(j),
           NEW from, NEW to, StatusOf(job[j]) = from, StatusOf(job'[j]) = to
    PROVE  /\ from = "absent" /\ to = "queued" => Lifecycle!Submit(j)
           /\ from = "queued" /\ to = "failed" => Lifecycle!Fail(j)
           /\ from \in {"queued", "failed"} /\ to = "cancelled" => Lifecycle!Cancel(j)
           /\ from \in {"failed", "cancelled"} /\ to = "queued" => Lifecycle!Resume(j)
<1>1. UNCHANGED <<[i \in Job |-> job[i].pages], [i \in Job |-> job[i].changed],
                  [i \in Job |-> OutputOf(job[i], chunks[i])]>>
  BY DEF SameImage, SameWork, SameOutput
<1>2. [i \in Job |-> StatusOf(job'[i])] = [[i \in Job |-> StatusOf(job[i])] EXCEPT ![j] = to]
  BY DEF SameImage
<1> QED  BY <1>1, <1>2 DEF Lifecycle!Submit, Lifecycle!Fail, Lifecycle!Cancel, Lifecycle!Resume,
             Lifecycle!Move, StatusOf, OutputOf

LEMMA Erases ==
    ASSUME NEW jobs \in SUBSET Job, \A i \in Job \ jobs : SameImage(i),
           \A j \in jobs : Exists(j) /\ SameWork(j) /\ job'[j].deleted
    PROVE  Lifecycle!Erase(jobs)
<1>1. UNCHANGED <<[i \in Job |-> job[i].pages], [i \in Job |-> job[i].changed]>>
  BY DEF SameImage, SameWork
<1>2. \A j \in jobs : StatusOf(job[j]) # "absent"  BY DEF StatusOf, Exists
<1>3. [i \in Job |-> StatusOf(job'[i])] =
         [i \in Job |-> IF i \in jobs THEN "erased" ELSE [h \in Job |-> StatusOf(job[h])][i]]
  BY DEF SameImage, StatusOf
<1>4. [i \in Job |-> OutputOf(job'[i], chunks'[i])] =
         [i \in Job |-> IF i \in jobs THEN 0 ELSE [h \in Job |-> OutputOf(job[h], chunks[h])][i]]
  BY DEF SameImage, SameOutput, OutputOf
<1> QED  BY <1>1, <1>2, <1>3, <1>4 DEF Lifecycle!Erase, StatusOf, OutputOf

LEMMA SubmitMaps == ASSUME QInv, NEW j \in Job, Submit(j) PROVE Lifecycle!Submit(j)
<1>1. RowOK(job[j], chunks[j], expired[j], ran[j], throws[j])  BY RowNow
<1>2. job[j] = NoRow  BY <1>1 DEF Submit, Exists, RowOK
<1>3. /\ job'[j] = [NoRow EXCEPT !.state = "queued"] /\ chunks' = chunks
      /\ \A i \in Job \ {j} : job'[i] = job[i]
  BY RowNow DEF Submit, Write, DataTypes
<1>4. SameWork(j) /\ SameOutput(j) /\ StatusOf(job[j]) = "absent" /\ StatusOf(job'[j]) = "queued"
  BY <1>2, <1>3 DEF SameWork, SameOutput, OutputOf, StatusOf, NoRow
<1>5. \A i \in Job \ {j} : SameImage(i)
  BY <1>3 DEF SameImage, SameWork, SameOutput
<1> QED  BY <1>4, <1>5, Moves

\* A job that is erased may be cancelled: that changes nothing for its user.
LEMMA CancelMaps ==
    ASSUME QInv, NEW j \in Job, Cancel(j)
    PROVE  Lifecycle!Cancel(j) \/ UNCHANGED Lifecycle!vars
<1>1. /\ job' = [job EXCEPT ![j] = Cancelled(job[j])] /\ chunks' = chunks
      /\ job[j] \in Row /\ job[j].state \notin {"absent", "completed", "cancelled"}
  BY RowNow DEF Cancel, Write, Exists
<1>2. /\ job'[j].pages = job[j].pages /\ job'[j].changed = job[j].changed
      /\ job'[j].deleted = job[j].deleted /\ job'[j].state = "cancelled"
      /\ \A i \in Job \ {j} : job'[i] = job[i]
  BY <1>1, RowNow DEF Cancelled, DataTypes, Row
<1>3. SameWork(j) /\ SameOutput(j)
  BY <1>1, <1>2 DEF SameWork, SameOutput, OutputOf
<1>4. \A i \in Job \ {j} : SameImage(i)
  BY <1>1, <1>2 DEF SameImage, SameWork, SameOutput
<1>5. CASE job[j].deleted
  <2>1. SameImage(j)  BY <1>2, <1>3, <1>5 DEF SameImage, StatusOf
  <2> QED  BY <1>4, <2>1, Stutters
<1>6. CASE ~job[j].deleted
  <2>1. StatusOf(job[j]) \in {"queued", "failed"} /\ StatusOf(job'[j]) = "cancelled"
    BY <1>1, <1>2, <1>6, RowTypes DEF StatusOf
  <2> QED  BY <1>3, <1>4, <2>1, Moves
<1> QED  BY <1>5, <1>6

LEMMA RetryMaps == ASSUME QInv, NEW j \in Job, Retry(j) PROVE Lifecycle!Resume(j)
<1>1. /\ job' = [job EXCEPT ![j] = Resumed(job[j])] /\ chunks' = chunks
      /\ job[j] \in Row /\ job[j].state \in {"failed", "cancelled"} /\ ~job[j].deleted
  BY RowNow DEF Retry, Write, Resumable
<1>2. /\ job'[j].pages = job[j].pages /\ job'[j].changed = job[j].changed
      /\ job'[j].deleted = job[j].deleted /\ job'[j].state = "queued"
      /\ \A i \in Job \ {j} : job'[i] = job[i]
  BY <1>1, RowNow DEF Resumed, DataTypes, Row
<1>3. /\ SameWork(j) /\ SameOutput(j)
      /\ StatusOf(job[j]) \in {"failed", "cancelled"} /\ StatusOf(job'[j]) = "queued"
  BY <1>1, <1>2 DEF SameWork, SameOutput, OutputOf, StatusOf
<1>4. \A i \in Job \ {j} : SameImage(i)
  BY <1>1, <1>2 DEF SameImage, SameWork, SameOutput
<1> QED  BY <1>3, <1>4, Moves

\* A failed page leaves the job queued, or is the last.
LEMMA FailedMaps ==
    ASSUME QInv, NEW j \in Job, Queued(j), job' = [job EXCEPT ![j] = Failed(job[j])],
           UNCHANGED chunks
    PROVE  Lifecycle!Fail(j) \/ UNCHANGED Lifecycle!vars
<1>1. RowOK(job[j], chunks[j], expired[j], ran[j], throws[j]) /\ job[j] \in Row  BY RowNow
<1>2. job[j].state = "queued" /\ ~job[j].deleted  BY <1>1 DEF Queued, RowOK
<1>3. /\ job'[j].pages = job[j].pages /\ job'[j].changed = job[j].changed
      /\ job'[j].deleted = job[j].deleted /\ job'[j].state \in {"queued", "failed"}
      /\ \A i \in Job \ {j} : job'[i] = job[i]
  BY <1>1, RowNow DEF Failed, DataTypes, Row
<1>4. /\ SameWork(j) /\ SameOutput(j)
      /\ StatusOf(job[j]) = "queued" /\ StatusOf(job'[j]) \in {"queued", "failed"}
  BY <1>2, <1>3 DEF SameWork, SameOutput, OutputOf, StatusOf
<1>5. \A i \in Job \ {j} : SameImage(i)
  BY <1>3 DEF SameImage, SameWork, SameOutput
<1>6. CASE StatusOf(job'[j]) = "queued"
  <2>1. SameImage(j)  BY <1>4, <1>6 DEF SameImage
  <2> QED  BY <1>5, <2>1, Stutters
<1>7. CASE StatusOf(job'[j]) = "failed"  BY <1>4, <1>5, <1>7, Moves
<1> QED  BY <1>4, <1>6, <1>7

LEMMA PurgeMaps ==
    ASSUME QInv, NEW jobs \in SUBSET Job, PurgeAll(jobs), \A j \in jobs : Exists(j)
    PROVE  Lifecycle!Erase(jobs)
<1>1. \A j \in Job : job[j] \in Row  BY RowNow
<1>2. \A j \in jobs : SameWork(j) /\ job'[j].deleted
  BY <1>1 DEF PurgeAll, Purged, Row, SameWork
<1>3. \A i \in Job \ jobs : SameImage(i)
  BY DEF PurgeAll, SameImage, SameWork, SameOutput
<1> QED  BY <1>2, <1>3, Erases

LEMMA DeleteBatchMaps ==
    ASSUME QInv, NEW c \in Cleaner, DeleteBatch(c)
    PROVE  \E jobs \in SUBSET Job : Lifecycle!Erase(jobs)
<1>1. PICK j \in Job :
        /\ at[c] = j /\ Exists(j) /\ \A i \in Job \ {j} : Same(i)
        /\ job'[j] = Marked(job[j], chunks[j])
  BY DeleteBatchKeeps
<1>2. job[j] \in Row  BY RowNow
<1>3. SameWork(j) /\ job'[j].deleted  BY <1>1, <1>2 DEF Marked, Discarded, Row, SameWork
<1>4. \A i \in Job \ {j} : SameImage(i)  BY <1>1 DEF Same, SameImage, SameWork, SameOutput
<1>5. PICK jobs \in SUBSET Job : jobs = {j}  OBVIOUS
<1>6. \A i \in jobs : Exists(i) /\ SameWork(i) /\ job'[i].deleted  BY <1>1, <1>3, <1>5
<1>7. Lifecycle!Erase(jobs)  BY <1>4, <1>5, <1>6, Erases
<1> QED  BY <1>7

\* A page is one whole: its work, at most one chunk, its changes, and perhaps the end.
LEMMA CommitPageMaps ==
    ASSUME QInv, NEW w \in Worker, NEW done \in BOOLEAN, NEW chunk \in BOOLEAN,
           NEW change \in BOOLEAN, CommitPage(w, done, chunk, change)
    PROVE  \E j \in Job : Lifecycle!Page(j)
<1>1. PICK j \in Job :
        /\ at[w] = j /\ Queued(j) /\ ~job[j].deleted
        /\ \A i \in Job \ {j} : Same(i)
        /\ job'[j] = Paged(job[j], job[j], done, chunk, change)
        /\ chunks[j] = 0 .. (job[j].written - 1)
        /\ chunks'[j] = chunks[j] \cup (IF chunk THEN {job[j].written} ELSE {})
  BY CommitPageKeeps
<1>2. job[j] \in Row /\ job[j].pages \in Nat /\ job[j].written \in Nat  BY RowNow, RowTypes
<1>3. /\ job'[j].pages = job[j].pages + 1 /\ ~job'[j].deleted
      /\ job'[j].state = IF done THEN "completed" ELSE "queued"
      /\ job'[j].changed = (job[j].changed \/ change)
  BY <1>1, <1>2 DEF Paged, Row
<1>4. Cardinality(chunks'[j]) = Cardinality(chunks[j]) + (IF chunk THEN 1 ELSE 0)
      /\ Cardinality(chunks[j]) \in Nat
  <2>1. IsFiniteSet(chunks[j]) /\ job[j].written \notin chunks[j]
    <3>1. chunks[j] = 0 .. (job[j].written - 1)  BY <1>1
    <3>2. 0 \in Int /\ job[j].written - 1 \in Int  BY <1>2
    <3>3. IsFiniteSet(0 .. (job[j].written - 1))  BY <3>2, FS_Interval
    <3>4. job[j].written \notin 0 .. (job[j].written - 1)  BY <1>2
    <3> QED  BY <3>1, <3>3, <3>4
  <2>2. Cardinality(chunks[j] \cup {job[j].written}) = Cardinality(chunks[j]) + 1
        /\ Cardinality(chunks[j]) \in Nat
    BY <2>1, FS_AddElement, FS_CardinalityType
  <2>3. CASE chunk
    <3>1. chunks'[j] = chunks[j] \cup {job[j].written}  BY <1>1, <2>3
    <3> QED  BY <2>2, <2>3, <3>1
  <2>4. CASE ~chunk
    <3>1. chunks'[j] = chunks[j]  BY <1>1, <2>4
    <3> QED  BY <2>2, <2>4, <3>1
  <2> QED  BY <2>3, <2>4
<1> DEFINE status == [i \in Job |-> StatusOf(job[i])]
           work == [i \in Job |-> job[i].pages]
           output == [i \in Job |-> OutputOf(job[i], chunks[i])]
           partial == [i \in Job |-> job[i].changed]
<1>5. \A i \in Job \ {j} : SameImage(i)  BY <1>1 DEF Same, SameImage, SameWork, SameOutput
<1>6. /\ status[j] = "queued"
      /\ [i \in Job |-> StatusOf(job'[i])] =
            [status EXCEPT ![j] = IF done THEN "completed" ELSE "queued"]
  BY <1>1, <1>3, <1>5 DEF StatusOf, SameImage, Queued
<1>7. [i \in Job |-> job'[i].pages] = [work EXCEPT ![j] = @ + 1]
  BY <1>3, <1>5 DEF SameImage, SameWork
<1>8. [i \in Job |-> OutputOf(job'[i], chunks'[i])] =
         [output EXCEPT ![j] = @ + (IF chunk THEN 1 ELSE 0)]
  BY <1>1, <1>3, <1>4, <1>5 DEF OutputOf, SameImage, SameOutput
<1>9. [i \in Job |-> job'[i].changed] = [partial EXCEPT ![j] = @ \/ change]
  BY <1>3, <1>5 DEF SameImage, SameWork
<1>10. Lifecycle!Page(j)
  BY <1>6, <1>7, <1>8, <1>9 DEF Lifecycle!Page, Lifecycle!Move, StatusOf, OutputOf
<1> QED  BY <1>10

\* The queue implements the life of a job.
THEOREM QueueImplementsLifecycle == Spec => ImplementsLifecycle
<1>1. Init => Lifecycle!Init
  <2>1. Cardinality({}) = 0  BY FS_EmptySet
  <2> QED  BY <2>1 DEF Init, Lifecycle!Init, NoRow
<1>2. ASSUME QInv, [Next]_vars PROVE [Lifecycle!Next]_(Lifecycle!vars)
  <2>1. CASE UNCHANGED <<job, chunks, ran>>
    <3>1. \A j \in Job : SameImage(j)  BY <2>1 DEF SameImage, SameWork, SameOutput
    <3> QED  BY <3>1, Stutters
  <2>2. CASE \E j \in Job : Submit(j) \/ Cancel(j) \/ Retry(j)
    BY <1>2, <2>2, SubmitMaps, CancelMaps, RetryMaps DEF Lifecycle!Next
  <2>3. CASE \E jobs \in SUBSET Job : PurgeAll(jobs) /\ \A j \in jobs : Exists(j)
    BY <1>2, <2>3, PurgeMaps DEF Lifecycle!Next
  <2>4. CASE \E w \in Worker : \E done, chunk, change \in BOOLEAN :
              CommitPage(w, done, chunk, change)
    BY <1>2, <2>4, CommitPageMaps DEF Lifecycle!Next
  <2>5. CASE \E j \in Job : /\ Queued(j) /\ job' = [job EXCEPT ![j] = Failed(job[j])]
                          /\ UNCHANGED <<chunks, ran>>
    BY <1>2, <2>5, FailedMaps DEF Lifecycle!Next
  <2>6. CASE \E c \in Cleaner : DeleteBatch(c)
    BY <1>2, <2>6, DeleteBatchMaps DEF Lifecycle!Next
  <2> QED  BY <1>2, <2>1, <2>2, <2>3, <2>4, <2>5, <2>6, StepRows
<1>3. QInv /\ [Next]_vars => [Lifecycle!Next]_(Lifecycle!vars)  BY <1>2
<1> QED  BY <1>1, <1>3, QueueInvariant, PTL DEF Spec, ImplementsLifecycle, Lifecycle!Spec
===============================================================================
