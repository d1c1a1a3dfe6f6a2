------------------------ MODULE DurableExecutionProofs ------------------------
(***************************************************************************)
(* Proofs about DurableExecution, for every set of processes, requests,     *)
(* keys and payloads and every number of faults.                            *)
(*                                                                         *)
(* The invariant Inv is inductive.  What a transaction writes is a function *)
(* of the row it read, so the part of Inv about one row (RowOK) is first    *)
(* shown to be kept by each of these functions; then each action is shown   *)
(* to write by one of them, under its guard, and to disturb no other        *)
(* process (lemma OthersOK).                                                *)
(*                                                                         *)
(* The refinement goes through the rows too.  A step of the program is of   *)
(* one of three kinds: it leaves rows and callbacks alone (Still), or it    *)
(* writes one row as the life of a request goes on (Moved, MovesOn), or it  *)
(* calls back with a note of one row (Said).  That what is said is true     *)
(* needs one fact more than Inv: the notes of a row are of a request that   *)
(* has been decided (NotesFollow).                                         *)
(***************************************************************************)
EXTENDS DurableExecution, TLAPS

\* How a row may change: it keeps its key, loses no notification and no delivery
\* mark, and once its request has come to an end that end stands.
Grows(x, y) ==
    /\ x.key # None => y.key = x.key
    /\ x.notes \subseteq y.notes
    /\ x.delivered \subseteq y.delivered
    /\ x.state \in Terminal => y.state \in Terminal
    /\ x.state = "completed" => y.state = "completed"
    /\ x.artifact = "discarded" => y.artifact = "discarded"
    /\ x.state = "failed" /\ x.phase = "pending" =>
          y.state = "failed" /\ y.phase = "pending" /\ y.effects = x.effects

-----------------------------------------------------------------------------
(* Rows *)

\* The notifications that the paths enqueue are ones that may be enqueued.
LEMMA NotesType ==
    /\ \A e \in Event : Both(e) \subseteq Note
    /\ \A k : ExecutedNotes(k) \subseteq Note /\ FailureNotes(k) \subseteq Note
BY DEF Both, On, Note, Event, Position, ExecutedNotes, FailureNotes, Initial

\* Events of a set of notifications that the paths enqueue.
LEMMA NotesEvents ==
    /\ \A e : \A n \in Both(e) : n[2] = e
    /\ \A k : \A n \in FailureNotes(k) : n[2] \in {"created", "processing", "failed"}
    /\ \A k : \A n \in ExecutedNotes(k) :
          n[2] \in {"created", "processing", "erasure_requested"}
BY DEF Both, On, ExecutedNotes, FailureNotes, Initial

LEMMA NoRowType == NoRow \in Row
BY DEF NoRow, Row

\* reserve writes a good row over a blank one.
LEMMA ReservedRowOK ==
    ASSUME NEW k \in Key, NEW y \in Payload \cup {None}, NEW s, NEW e
    PROVE  /\ ReservedRow(k, y) \in Row
           /\ ReservedRow(k, y).key = k
           /\ ReservedRow(k, y).state = "created"
           /\ Grows(NoRow, ReservedRow(k, y))
           /\ RowOK(ReservedRow(k, y), s, {}, e)
<1> DEFINE z == ReservedRow(k, y)
<1>1. /\ z.key = k /\ z.state = "created" /\ z.phase = "pending"
      /\ z.artifact = "none" /\ z.reason = "none" /\ z.notes = {}
      /\ z.recovery = "none" /\ z.artifactFailure = "none"
      /\ z.delivered = {} /\ z.effects = 0
  BY DEF ReservedRow, NoRow
<1>2. k # None
  BY ConstantsOK
<1>3. z \in Row
  BY NoRowType DEF ReservedRow, Row
<1>4. Grows(NoRow, z)
  BY <1>1 DEF Grows, NoRow, Terminal
<1>5. RowOK(z, s, {}, e)
  BY <1>1, <1>2 DEF RowOK
<1> QED BY <1>1, <1>3, <1>4, <1>5

\* execute's transaction, on a request that is not settled.
LEMMA ExecutedOK ==
    ASSUME NEW x \in Row, NEW s, NEW pub, NEW e,
           RowOK(x, s, pub, e), x.key # None, ~Settled(x)
    PROVE  /\ Executed(x) \in Row
           /\ Grows(x, Executed(x))
           /\ RowOK(Executed(x), s, pub, e)
<1> DEFINE y == Executed(x)
<1>1. x.notes \cup ExecutedNotes(x.key) \in SUBSET Note /\ x.effects + 1 \in Nat
  BY NotesType DEF Row
<1>2. /\ y.key = x.key /\ y.effects = x.effects + 1 /\ y.state = "processing"
      /\ y.phase = "data_committed" /\ y.artifact = "held"
      /\ y.reason = x.reason /\ y.delivered = x.delivered
      /\ y.recovery = "none" /\ y.artifactFailure = "none"
      /\ y.notes = x.notes \cup ExecutedNotes(x.key)
  BY DEF Executed, Row
<1>3. y \in Row
  BY <1>1, ZenonT(60) DEF Executed, Row
<1>4. x.phase = "pending" /\ x.state # "failed" /\ x.effects = 0
  BY DEF RowOK, Settled
<1>5. /\ x.state # "completed" /\ x.artifact # "discarded"
      /\ x.reason # "write_failed" /\ x.reason # "expired"
  BY <1>4 DEF RowOK
<1>6. \A n \in y.notes : n[2] # "completed" /\ n[2] # "expired"
  BY <1>2, <1>5, NotesEvents DEF RowOK
<1>7. RowOK(y, s, pub, e)
  BY <1>2, <1>4, <1>5, <1>6 DEF RowOK
<1>8. Grows(x, y)
  BY <1>2, <1>4, <1>5 DEF Grows, Terminal
<1> QED BY <1>3, <1>7, <1>8

\* execute's second transaction, on a request that is not settled.
LEMMA FailedOK ==
    ASSUME NEW x \in Row, NEW s, NEW pub, NEW e, NEW residual \in BOOLEAN,
           RowOK(x, s, pub, e), x.key # None, ~Settled(x)
    PROVE  /\ Failed(x, residual) \in Row
           /\ Grows(x, Failed(x, residual))
           /\ RowOK(Failed(x, residual), s, pub, e)
           /\ Failed(x, residual).state = "failed"
<1> DEFINE y == Failed(x, residual)
<1>1. x.notes \cup FailureNotes(x.key) \in SUBSET Note
  BY NotesType DEF Row
<1>2. /\ y.key = x.key /\ y.effects = x.effects /\ y.state = "failed"
      /\ y.phase = x.phase /\ y.artifact = IF residual THEN "held" ELSE x.artifact
      /\ y.reason = "execution" /\ y.delivered = x.delivered
      /\ y.recovery = "inspect_data" /\ y.artifactFailure = "none"
      /\ y.notes = x.notes \cup FailureNotes(x.key)
  BY DEF Failed, Row
<1>3. y \in Row
  BY <1>1, ZenonT(60) DEF Failed, Row
<1>4. x.phase = "pending" /\ x.state # "failed" /\ x.effects = 0
  BY DEF RowOK, Settled
<1>5. x.state # "completed" /\ x.artifact # "discarded"
  BY <1>4 DEF RowOK
<1>6. \A n \in y.notes :
         n[2] # "completed" /\ n[2] # "expired" /\ n[2] # "erasure_requested"
  BY <1>2, <1>4, <1>5, NotesEvents DEF RowOK
<1>7. RowOK(y, s, pub, e)
  BY <1>2, <1>4, <1>5, <1>6 DEF RowOK
<1>8. Grows(x, y)
  BY <1>2, <1>4, <1>5 DEF Grows, Terminal
<1> QED BY <1>2, <1>3, <1>7, <1>8

\* The expiry of held bytes.
LEMMA DiscardedOK ==
    ASSUME NEW x \in Row, NEW s, NEW pub, NEW e,
           RowOK(x, s, pub, e), x.key # None, Settled(x), Expirable(x), e
    PROVE  /\ Discarded(x) \in Row
           /\ Grows(x, Discarded(x))
           /\ RowOK(Discarded(x), s, pub, e)
           /\ Discarded(x).state = "failed"
<1> DEFINE y == Discarded(x)
<1>1. x.notes \cup Both("expired") \in SUBSET Note
  BY NotesType DEF Row, Event, Position
<1>2. /\ y.key = x.key /\ y.effects = x.effects /\ y.state = "failed"
      /\ y.phase = x.phase /\ y.artifact = "discarded"
      /\ y.reason = IF x.phase = "data_committed" THEN "expired" ELSE x.reason
      /\ y.recovery = "artifact_expired" /\ y.artifactFailure = "artifact_expired"
      /\ y.delivered = x.delivered /\ y.notes = x.notes \cup Both("expired")
  BY DEF Discarded, Row
<1>3. y \in Row
  <2>1. CASE x.phase = "data_committed"
    BY <1>1, <2>1, ZenonT(60) DEF Discarded, Row
  <2>2. CASE x.phase # "data_committed"
    BY <1>1, <2>2, ZenonT(60) DEF Discarded, Row
  <2> QED BY <2>1, <2>2
<1>4. x.artifact = "held" /\ x.phase \in {"pending", "data_committed"}
  BY DEF Expirable, Held, Row
<1>5. x.state # "completed"
  BY <1>4 DEF RowOK
<1>6. \A n \in y.notes : /\ n[2] # "completed"
                         /\ n[2] = "erasure_requested" => x.effects = 1
  BY <1>2, <1>5, NotesEvents DEF RowOK
<1>7. RowOK(y, s, pub, e)
  BY <1>2, <1>4, <1>5, <1>6 DEF RowOK, Settled
<1>8. Grows(x, y)
  BY <1>2, <1>4, <1>5 DEF Grows, Terminal
<1> QED BY <1>2, <1>3, <1>7, <1>8

\* An upload that succeeded, of bytes that were held.
LEMMA UploadedOK ==
    ASSUME NEW x \in Row, NEW s, NEW pub, NEW e,
           RowOK(x, s, pub, e), x.key # None, Settled(x), Held(x), s
    PROVE  /\ Uploaded(x) \in Row
           /\ Grows(x, Uploaded(x))
           /\ RowOK(Uploaded(x), s, pub, e)
           /\ Uploaded(x).state \in Terminal
<1> DEFINE y == Uploaded(x)
<1>1. x.artifact = "held" /\ x.state # "completed" /\ x.phase # "completed"
  BY DEF RowOK, Held
<1>2. CASE x.phase = "pending"
  <2>1. /\ y.key = x.key /\ y.effects = x.effects /\ y.state = x.state
        /\ y.phase = x.phase /\ y.artifact = "uploaded" /\ y.reason = x.reason
        /\ y.recovery = x.recovery /\ y.artifactFailure = "none"
        /\ y.delivered = x.delivered /\ y.notes = x.notes
    BY <1>2 DEF Uploaded, Row
  <2>2. y \in Row
    BY <1>2 DEF Uploaded, Row
  <2>3. x.state = "failed"
    BY <1>2 DEF Settled
  <2>4. RowOK(y, s, pub, e)
    BY <1>1, <1>2, <2>1 DEF RowOK, Held
  <2>5. Grows(x, y)
    BY <1>1, <2>1 DEF Grows
  <2> QED BY <2>1, <2>2, <2>3, <2>4, <2>5 DEF Terminal
<1>3. CASE x.phase # "pending"
  <2>1. x.notes \cup Both("completed") \in SUBSET Note
    BY NotesType DEF Row, Event, Position
  <2>2. /\ y.key = x.key /\ y.effects = x.effects /\ y.state = "completed"
        /\ y.phase = "completed" /\ y.artifact = "uploaded" /\ y.reason = "none"
        /\ y.recovery = "none" /\ y.artifactFailure = x.artifactFailure
        /\ y.delivered = x.delivered /\ y.notes = x.notes \cup Both("completed")
    BY <1>3 DEF Uploaded, Row
  <2>3. y \in Row
    BY <1>3, <2>1, ZenonT(60) DEF Uploaded, Row
  <2>4. \A n \in y.notes : /\ n[2] # "expired"
                           /\ n[2] = "erasure_requested" => x.effects = 1
    BY <1>1, <2>2, NotesEvents DEF RowOK
  <2>5. RowOK(y, s, pub, e)
    BY <1>1, <1>3, <2>2, <2>4 DEF RowOK
  <2>6. Grows(x, y)
    BY <1>1, <1>3, <2>2 DEF Grows, Terminal
  <2> QED BY <2>2, <2>3, <2>5, <2>6 DEF Terminal
<1> QED BY <1>2, <1>3

\* An upload that failed, of bytes that were held.
LEMMA NotUploadedOK ==
    ASSUME NEW x \in Row, NEW s, NEW pub, NEW e,
           RowOK(x, s, pub, e), x.key # None, Settled(x), Held(x)
    PROVE  /\ NotUploaded(x) \in Row
           /\ Grows(x, NotUploaded(x))
           /\ RowOK(NotUploaded(x), s, pub, e)
           /\ NotUploaded(x).state \in Terminal
<1> DEFINE y == NotUploaded(x)
<1>1. x.artifact = "held" /\ x.state # "completed" /\ x.phase # "completed"
  BY DEF RowOK, Held
<1>2. CASE x.phase = "pending"
  <2>1. /\ y.key = x.key /\ y.effects = x.effects /\ y.state = x.state /\ y.phase = x.phase
        /\ y.artifact = x.artifact /\ y.reason = x.reason /\ y.recovery = x.recovery
        /\ y.artifactFailure = "retry_artifact"
        /\ y.delivered = x.delivered /\ y.notes = x.notes
    BY <1>2 DEF NotUploaded, Row
  <2>2. y \in Row /\ x.state = "failed"
    BY <1>2 DEF NotUploaded, Row, Settled
  <2>3. RowOK(y, s, pub, e)
    BY <1>1, <1>2, <2>1 DEF RowOK, Held
  <2>4. Grows(x, y)
    BY <2>1 DEF Grows
  <2> QED BY <2>1, <2>2, <2>3, <2>4 DEF Terminal
<1>3. CASE x.phase # "pending"
  <2>1. x.notes \cup Both("failed") \in SUBSET Note
    BY NotesType DEF Row, Event, Position
  <2>2. /\ y.key = x.key /\ y.effects = x.effects /\ y.state = "failed"
        /\ y.phase = x.phase /\ y.artifact = x.artifact /\ y.reason = "write_failed"
        /\ y.recovery = "retry_artifact" /\ y.artifactFailure = x.artifactFailure
        /\ y.delivered = x.delivered /\ y.notes = x.notes \cup Both("failed")
    BY <1>3 DEF NotUploaded, Row
  <2>3. y \in Row
    BY <1>3, <2>1, ZenonT(60) DEF NotUploaded, Row
  <2>4. \A n \in y.notes : /\ n[2] # "expired" /\ n[2] # "completed"
                           /\ n[2] = "erasure_requested" => x.effects = 1
    BY <1>1, <2>2, NotesEvents DEF RowOK
  <2>5. x.phase = "data_committed"
    BY <1>1, <1>3 DEF Row
  <2>6. RowOK(y, s, pub, e)
    BY <1>1, <2>2, <2>4, <2>5 DEF RowOK, Held
  <2>7. Grows(x, y)
    BY <1>1, <1>3, <2>2 DEF Grows, Terminal
  <2> QED BY <2>2, <2>3, <2>6, <2>7 DEF Terminal
<1> QED BY <1>2, <1>3

\* Marking published notifications delivered.
LEMMA DeliveredOK ==
    ASSUME NEW x \in Row, NEW s, NEW pub, NEW e, NEW done \in SUBSET pub,
           RowOK(x, s, pub, e), x.key # None
    PROVE  /\ Delivered(x, done) \in Row
           /\ Grows(x, Delivered(x, done))
           /\ RowOK(Delivered(x, done), s, pub, e)
           /\ Delivered(x, done).state = x.state
<1> DEFINE y == Delivered(x, done)
<1>1. x.delivered \cup done \in SUBSET Note
  BY DEF RowOK, Row
<1>2. /\ y.key = x.key /\ y.effects = x.effects /\ y.state = x.state
      /\ y.phase = x.phase /\ y.artifact = x.artifact /\ y.reason = x.reason
      /\ y.recovery = x.recovery /\ y.artifactFailure = x.artifactFailure
      /\ y.delivered = x.delivered \cup done /\ y.notes = x.notes
  BY DEF Delivered, Row
<1>3. y \in Row
  BY <1>1 DEF Delivered, Row
<1>4. RowOK(y, s, pub, e)
  BY <1>2 DEF RowOK, Held
<1>5. Grows(x, y)
  BY <1>2 DEF Grows
<1> QED BY <1>2, <1>3, <1>4, <1>5

-----------------------------------------------------------------------------
(* What one step leaves alone *)

\* A step of p leaves the other processes where they are.
Others(p) ==
    \A q \in Proc \ {p} :
        /\ pc'[q] = pc[q] /\ req'[q] = req[q]
        /\ call'[q] = call[q] /\ reply'[q] = reply[q]
        /\ batch'[q] = batch[q] /\ pending'[q] = pending[q] /\ sent'[q] = sent[q]
        /\ \A r \in Req : lock'[r] = q <=> lock[r] = q

\* It writes only rows that no other process has locked; what is outside the
\* database only grows.
Shared(p) ==
    \A r \in Req :
        /\ row'[r] = row[r] \/ (Grows(row[r], row'[r]) /\ lock[r] \in {None, p})
        /\ stored[r] => stored'[r]
        /\ published[r] \subseteq published'[r]

LEMMA NoneIsNobody == None \notin Proc /\ None \notin Req /\ None \notin Key
BY ConstantsOK

\* The part of the invariant about the other processes survives such a step.
LEMMA OthersOK ==
    ASSUME Inv, NEW p, Others(p), Shared(p)
    PROVE  /\ \A q \in Proc \ {p} : ProcOK(q)'
           /\ \A r \in Req : lock'[r] \in Proc \ {p} => LockOK(r)'
<1>1. ASSUME NEW q \in Proc \ {p}
      PROVE  ProcOK(q)'
  <2> DEFINE r == req[q]
  <2>1. ProcOK(q) /\ q # None /\ q # p
    BY NoneIsNobody DEF Inv
  <2>2. /\ pc'[q] = pc[q] /\ req'[q] = r /\ call'[q] = call[q] /\ reply'[q] = reply[q]
        /\ batch'[q] = batch[q] /\ pending'[q] = pending[q] /\ sent'[q] = sent[q]
    BY DEF Others
  <2>3. ASSUME NEW s \in Req, Reserved(s)
        PROVE  Reserved(s)'
    BY <2>3 DEF Shared, Reserved, Grows
  <2>4. \A s \in batch[q] : s \in Req
    BY DEF Inv, TypeOK
  <2>5. CASE pc[q] \in {"idle", "reserve", "insert"}
    BY <2>1, <2>2, <2>3, <2>4, <2>5 DEF ProcOK
  <2>6. CASE pc[q] \notin {"idle", "reserve", "insert"}
    <3>1. r \in Req /\ Reserved(r)
      BY <2>1, <2>6 DEF ProcOK
    <3>11. row'[r].key # None
      BY <3>1 DEF Shared, Reserved, Grows
    <3>2. lock'[r] = q => row'[r] = row[r] /\ lock[r] = q
      BY <2>1, <3>1 DEF Others, Shared
    <3>3. stored[r] => stored'[r]
      BY <3>1 DEF Shared
    <3>4. published[r] \subseteq published'[r] /\ row[r].notes \subseteq row'[r].notes
      BY <3>1 DEF Shared, Grows
    <3>5. row[r].state \in Terminal => row'[r].state \in Terminal
      BY <3>1 DEF Shared, Grows
    <3>6. pc[q] \in {"put", "saveUploaded", "saveUploadFailed"} /\ lock'[r] = q =>
             Held(row'[r]) /\ Settled(row'[r])
      BY <2>1, <3>2 DEF ProcOK
    <3>7. pc[q] = "publish" =>
             pending[q] \subseteq row'[r].notes /\ sent[q] \subseteq published'[r]
      BY <2>1, <3>4 DEF ProcOK
    <3>8. pc[q] = "saveUploaded" => stored'[r]
      BY <2>1, <3>3 DEF ProcOK
    <3>9. pc[q] \in {"deliver", "publish"} => row'[r].state \in Terminal
      BY <2>1, <3>5 DEF ProcOK
    <3>12. pc[q] # "publish" => sent[q] = {}
      BY <2>1 DEF ProcOK
    <3>10. \A s \in batch[q] : Reserved(s)
      BY <2>1 DEF ProcOK
    <3>13. (\A s \in batch[q] : Reserved(s)') /\ reply[q] \notin {"created", "processing"}
      BY <2>1, <2>3, <2>4, <3>10 DEF ProcOK
    <3> QED BY <2>2, <2>6, <3>13, <3>1, <3>11, <3>6, <3>7, <3>8, <3>9, <3>10, <3>12 DEF ProcOK, Reserved
  <2> QED BY <2>5, <2>6
<1>2. ASSUME NEW r \in Req, lock'[r] \in Proc \ {p}
      PROVE  LockOK(r)'
  <2> DEFINE q == lock'[r]
  <2>1. q \in Proc \ {p} /\ lock[r] = q
    BY <1>2 DEF Others
  <2>2. LockOK(r) /\ q # None
    BY <2>1, NoneIsNobody DEF Inv
  <2> QED BY <2>1, <2>2 DEF LockOK, Others
<1> QED BY <1>1, <1>2

\* What is shown of every step: it keeps the invariant, and changes a row only as
\* Grows allows.
Preserves ==
    Inv' /\ \A r \in Req : row'[r] = row[r] \/ Grows(row[r], row'[r])

\* It is enough, then, to look at the process that moves.
LEMMA StepOK ==
    ASSUME Inv, NEW p, TypeOK', Others(p), Shared(p),
           OneRequestPerKey',
           \A r \in Req : RowOK(row[r], stored[r], published[r], expired[r])',
           p \in Proc => ProcOK(p)',
           \A r \in Req : p \in Proc /\ lock'[r] = p =>
                             pc'[p] \in InTransaction /\ req'[p] = r
    PROVE  Preserves
<1>1. \A q \in Proc : ProcOK(q)'
  BY OthersOK
<1>2. ASSUME NEW r \in Req
      PROVE  LockOK(r)'
  <2>1. lock'[r] \in Proc \cup {None}
    BY DEF TypeOK
  <2>2. CASE lock'[r] = None
    BY <2>2 DEF LockOK
  <2>3. CASE p \in Proc /\ lock'[r] = p
    BY <2>3 DEF LockOK
  <2>4. CASE lock'[r] \in Proc \ {p}
    BY <2>4, OthersOK
  <2> QED BY <2>1, <2>2, <2>3, <2>4
<1> QED BY <1>1, <1>2 DEF Inv, Preserves, Shared

\* A step that writes no row, and stores and publishes nothing.
LEMMA RowsUnchanged ==
    ASSUME Inv, UNCHANGED <<row, out>>, NEW p
    PROVE  /\ OneRequestPerKey' /\ Shared(p)
           /\ \A r \in Req : RowOK(row[r], stored[r], published[r], expired[r])'
BY DEF Inv, OneRequestPerKey, Reserved, Shared, out

\* A step that writes a good row for a stored request.
LEMMA RowWritten ==
    ASSUME Inv, NEW p, NEW r \in Req, NEW x \in Row,
           Write(r, x), UNCHANGED out, lock[r] \in {None, p},
           Reserved(r), Grows(row[r], x),
           RowOK(x, stored[r], published[r], expired[r])
    PROVE  /\ row' \in [Req -> Row] /\ row'[r] = x
           /\ OneRequestPerKey' /\ Shared(p)
           /\ \A q \in Req : RowOK(row[q], stored[q], published[q], expired[q])'
<1>1. row' \in [Req -> Row] /\ row'[r] = x /\ \A q \in Req \ {r} : row'[q] = row[q]
  BY DEF Write, Inv, TypeOK
<1>2. x.key = row[r].key
  BY DEF Grows, Reserved
<1>3. \A q \in Req : row'[q].key = row[q].key
  BY <1>1, <1>2
<1>4. OneRequestPerKey'
  BY <1>3 DEF Inv, OneRequestPerKey, Reserved
<1>5. Shared(p)
  BY <1>1 DEF Shared, out
<1>6. \A q \in Req : RowOK(row[q], stored[q], published[q], expired[q])'
  BY <1>1 DEF Inv, out
<1> QED BY <1>1, <1>4, <1>5, <1>6

-----------------------------------------------------------------------------
(* The ways a step of a process ends *)

Answers == {"none", "not_started", "conflict", "rejected", "unknown", "failed",
            "completed"}

LEMMA ProceedOK ==
    ASSUME TypeOK, NEW p \in Proc, NEW l \in Label, Proceed(p, l)
    PROVE  /\ pc' \in [Proc -> Label] /\ pc'[p] = l
           /\ UNCHANGED <<req, call, reply>>
           /\ \A q \in Proc \ {p} : pc'[q] = pc[q]
BY DEF TypeOK, Proceed, Goto

LEMMA AnswerOK ==
    ASSUME TypeOK, NEW p \in Proc, NEW a \in Answers, Answer(p, a)
    PROVE  /\ pc' \in [Proc -> Label] /\ pc'[p] = "idle"
           /\ req' \in [Proc -> Req \cup {None}]
           /\ call' \in [Proc -> (Key \cup {None}) \X (Payload \cup {None})]
           /\ reply' \in [Proc -> {"none", "not_started", "conflict", "rejected",
                             "unknown", "created", "processing", "failed", "completed"}]
           /\ reply'[p] = a
           /\ \A q \in Proc \ {p} :
                 /\ pc'[q] = pc[q] /\ req'[q] = req[q]
                 /\ call'[q] = call[q] /\ reply'[q] = reply[q]
<1>1. "idle" \in Label
  BY DEF Label
<1>2. <<None, None>> \in (Key \cup {None}) \X (Payload \cup {None})
  OBVIOUS
<1>3. a \in {"none", "not_started", "conflict", "rejected", "unknown", "created",
             "processing", "failed", "completed"}
  BY DEF Answers
<1> QED BY <1>1, <1>2, <1>3 DEF TypeOK, Answer, Goto

LEMMA FaultsOK ==
    ASSUME TypeOK, Fault \/ NoFault
    PROVE  faults' \in 0 .. MaxFaults
BY ConstantsOK DEF TypeOK, Fault, NoFault

LEMMA UnlockOK ==
    ASSUME TypeOK, NEW p \in Proc, Unlock(p)
    PROVE  /\ lock' \in [Req -> Proc \cup {None}]
           /\ \A r \in Req : lock'[r] # p
           /\ \A r \in Req : \A q \in Proc \ {p} : lock'[r] = q <=> lock[r] = q
BY NoneIsNobody DEF TypeOK, Unlock

\* Outside its transactions with external calls a process holds no lock.
LEMMA NotHolding ==
    ASSUME Inv, NEW p \in Proc, pc[p] \notin InTransaction
    PROVE  \A r \in Req : lock[r] # p
BY NoneIsNobody DEF Inv, LockOK

\* Past reserve, a process works on a stored request.
LEMMA Working ==
    ASSUME Inv, NEW p \in Proc, pc[p] \notin {"idle", "reserve", "insert"}
    PROVE  /\ req[p] \in Req /\ Reserved(req[p]) /\ row[req[p]] \in Row
           /\ row[req[p]].key # None
           /\ RowOK(row[req[p]], stored[req[p]], published[req[p]], expired[req[p]])
<1>1. req[p] \in Req /\ Reserved(req[p])
  BY DEF Inv, ProcOK
<1> QED BY <1>1 DEF Inv, TypeOK, Reserved

\* A transaction that only reads.
LEMMA ReadOnlyOK ==
    ASSUME Inv, NEW p \in Proc, pc[p] \notin {"idle", "reserve", "insert"} \cup InTransaction,
           NEW l \in {"complete", "recordFailure", "recordResidual", "deliver"},
           l = "deliver" => row[req[p]].state \in Terminal,
           ReadOnly(p, l)
    PROVE  Preserves
<1>1. l \in Label
  BY DEF Label
<1>2. TypeOK
  BY DEF Inv
<1>3. /\ pc' \in [Proc -> Label] /\ pc'[p] = l
      /\ UNCHANGED <<req, call, reply>>
      /\ \A q \in Proc \ {p} : pc'[q] = pc[q]
  BY <1>1, <1>2, ProceedOK DEF ReadOnly
<1>4. UNCHANGED <<row, out, lock, batch, pending, sent, faults>>
  BY DEF ReadOnly, tx
<1>5. TypeOK'
  BY <1>2, <1>3, <1>4 DEF TypeOK, out
<1>6. Others(p)
  BY <1>3, <1>4 DEF Others
<1>7. /\ OneRequestPerKey' /\ Shared(p)
      /\ \A r \in Req : RowOK(row[r], stored[r], published[r], expired[r])'
  BY <1>4, RowsUnchanged
<1>8. ProcOK(p)'
  <2>1. ProcOK(p) /\ req[p] \in Req /\ Reserved(req[p]) /\ pc[p] # "publish"
    BY Working DEF Inv, InTransaction
  <2> QED BY <2>1, <1>3, <1>4 DEF ProcOK, Reserved
<1>9. \A r \in Req : lock'[r] # p
  BY <1>4, NotHolding
<1> QED BY <1>5, <1>6, <1>7, <1>8, <1>9, StepOK

\* A step that answers and changes nothing else (but the fault count).
LEMMA AnswerInv ==
    ASSUME Inv, NEW p \in Proc, pc[p] \notin InTransaction,
           NEW a \in Answers, Answer(p, a), Fault \/ NoFault,
           UNCHANGED <<row, out, tx, lock>>
    PROVE  Preserves
<1>1. TypeOK
  BY DEF Inv
<1>2. /\ pc' \in [Proc -> Label] /\ pc'[p] = "idle"
      /\ req' \in [Proc -> Req \cup {None}]
      /\ call' \in [Proc -> (Key \cup {None}) \X (Payload \cup {None})]
      /\ reply' \in [Proc -> {"none", "not_started", "conflict", "rejected",
                       "unknown", "created", "processing", "failed", "completed"}]
      /\ reply'[p] = a
      /\ \A q \in Proc \ {p} :
            /\ pc'[q] = pc[q] /\ req'[q] = req[q]
            /\ call'[q] = call[q] /\ reply'[q] = reply[q]
  BY <1>1, AnswerOK
<1>3. faults' \in 0 .. MaxFaults
  BY <1>1, FaultsOK
<1>4. TypeOK'
  BY <1>1, <1>2, <1>3 DEF TypeOK, out, tx
<1>5. Others(p)
  BY <1>2 DEF Others, tx
<1>6. /\ OneRequestPerKey' /\ Shared(p)
      /\ \A r \in Req : RowOK(row[r], stored[r], published[r], expired[r])'
  BY RowsUnchanged
<1>7. ProcOK(p)'
  <2>1. (\A r \in batch[p] : Reserved(r)) /\ sent[p] = {}
    BY DEF Inv, ProcOK, InTransaction
  <2> QED BY <2>1, <1>2 DEF ProcOK, Reserved, tx, Answers
<1>8. \A r \in Req : lock'[r] # p
  BY NotHolding
<1> QED BY <1>4, <1>5, <1>6, <1>7, <1>8, StepOK

\* A transaction without external calls that writes x.
LEMMA CommitOK ==
    ASSUME Inv, NEW p \in Proc, pc[p] \notin {"idle", "reserve", "insert"} \cup InTransaction,
           Free(req[p]), NEW x \in Row, Grows(row[req[p]], x),
           RowOK(x, stored[req[p]], published[req[p]], expired[req[p]]),
           NEW l \in {"complete", "deliver"}, l = "deliver" => x.state \in Terminal,
           Commit(p, x, l)
    PROVE  Preserves
<1> DEFINE r == req[p]
<1>1. TypeOK /\ r \in Req /\ Reserved(r) /\ l \in Label /\ "unknown" \in Answers
  BY Working DEF Inv, Label, Answers
<1>2. UNCHANGED out /\ UNCHANGED tx /\ UNCHANGED lock
  BY DEF Commit
<1>3. CASE Write(r, x) /\ ((Proceed(p, l) /\ NoFault) \/ (Answer(p, "unknown") /\ Fault))
  <2>1. /\ row' \in [Req -> Row] /\ row'[r] = x
        /\ OneRequestPerKey' /\ Shared(p)
        /\ \A q \in Req : RowOK(row[q], stored[q], published[q], expired[q])'
    BY <1>1, <1>2, <1>3, RowWritten DEF Free
  <2>2. \A q \in Req : Reserved(q) => Reserved(q)'
    BY <2>1 DEF Shared, Grows, Reserved
  <2>3. \A q \in Req : lock'[q] # p
    BY <1>2, NotHolding
  <2>4. faults' \in 0 .. MaxFaults
    BY <1>1, <1>3, FaultsOK
  <2>5. (\A q \in batch[p] : q \in Req /\ Reserved(q)') /\ sent[p] = {}
    BY <2>2 DEF Inv, TypeOK, ProcOK, InTransaction
  <2>6. CASE Proceed(p, l)
    <3>1. /\ pc' \in [Proc -> Label] /\ pc'[p] = l
          /\ UNCHANGED <<req, call, reply>>
          /\ \A q \in Proc \ {p} : pc'[q] = pc[q]
      BY <1>1, <2>6, ProceedOK
    <3>2. TypeOK'
      BY <1>1, <1>2, <2>1, <2>4, <3>1 DEF TypeOK, out, tx
    <3>3. Others(p)
      BY <1>2, <3>1 DEF Others, tx
    <3>4. ProcOK(p)'
      <4>1. ProcOK(p)
        BY DEF Inv
      <4> QED BY <1>1, <1>2, <2>1, <2>2, <2>5, <3>1, <4>1 DEF ProcOK, tx
    <3> QED BY <2>1, <2>3, <3>2, <3>3, <3>4, StepOK
  <2>7. CASE Answer(p, "unknown")
    <3>1. /\ pc' \in [Proc -> Label] /\ pc'[p] = "idle"
          /\ req' \in [Proc -> Req \cup {None}]
          /\ call' \in [Proc -> (Key \cup {None}) \X (Payload \cup {None})]
          /\ reply' \in [Proc -> {"none", "not_started", "conflict", "rejected",
                           "unknown", "created", "processing", "failed", "completed"}]
          /\ reply'[p] = "unknown"
          /\ \A q \in Proc \ {p} :
                /\ pc'[q] = pc[q] /\ req'[q] = req[q]
                /\ call'[q] = call[q] /\ reply'[q] = reply[q]
      BY <1>1, <2>7, AnswerOK
    <3>2. TypeOK'
      BY <1>1, <1>2, <2>1, <2>4, <3>1 DEF TypeOK, out, tx
    <3>3. Others(p)
      BY <1>2, <3>1 DEF Others, tx
    <3>4. ProcOK(p)'
      BY <1>2, <2>5, <3>1 DEF ProcOK, tx
    <3> QED BY <2>1, <2>3, <3>2, <3>3, <3>4, StepOK
  <2> QED BY <1>3, <2>6, <2>7
<1>4. Write(r, x) /\ ((Proceed(p, l) /\ NoFault) \/ (Answer(p, "unknown") /\ Fault))
  BY DEF Commit
<1> QED BY <1>3, <1>4

\* The end of a transaction with external calls: its lock and working copy go.
LEMMA ReleaseOK ==
    ASSUME TypeOK, NEW p \in Proc, Release(p)
    PROVE  /\ lock' \in [Req -> Proc \cup {None}]
           /\ \A r \in Req : lock'[r] # p
           /\ \A r \in Req : \A q \in Proc \ {p} : lock'[r] = q <=> lock[r] = q
           /\ pending' \in [Proc -> SUBSET Note] /\ sent' \in [Proc -> SUBSET Note]
           /\ sent'[p] = {}
           /\ \A q \in Proc \ {p} : pending'[q] = pending[q] /\ sent'[q] = sent[q]
           /\ UNCHANGED out
BY UnlockOK DEF Release, TypeOK

\* A step of p that releases and answers, keeping, or losing, its batch.
LEMMA ReleaseAnswerOK ==
    ASSUME Inv, NEW p \in Proc, NEW a \in Answers, Answer(p, a), Release(p),
           Fault \/ NoFault,
           batch' = batch \/ batch' = [batch EXCEPT ![p] = {}],
           row' \in [Req -> Row], OneRequestPerKey', Shared(p),
           \A r \in Req : RowOK(row[r], stored[r], published[r], expired[r])'
    PROVE  Preserves
<1>1. TypeOK
  BY DEF Inv
<1>2. /\ pc' \in [Proc -> Label] /\ pc'[p] = "idle"
      /\ req' \in [Proc -> Req \cup {None}]
      /\ call' \in [Proc -> (Key \cup {None}) \X (Payload \cup {None})]
      /\ reply' \in [Proc -> {"none", "not_started", "conflict", "rejected",
                       "unknown", "created", "processing", "failed", "completed"}]
      /\ reply'[p] = a
      /\ \A q \in Proc \ {p} :
            /\ pc'[q] = pc[q] /\ req'[q] = req[q]
            /\ call'[q] = call[q] /\ reply'[q] = reply[q]
  BY <1>1, AnswerOK
<1>3. faults' \in 0 .. MaxFaults
  BY <1>1, FaultsOK
<1>4. /\ lock' \in [Req -> Proc \cup {None}]
      /\ \A r \in Req : lock'[r] # p
      /\ \A r \in Req : \A q \in Proc \ {p} : lock'[r] = q <=> lock[r] = q
      /\ pending' \in [Proc -> SUBSET Note] /\ sent' \in [Proc -> SUBSET Note]
      /\ sent'[p] = {}
      /\ \A q \in Proc \ {p} : pending'[q] = pending[q] /\ sent'[q] = sent[q]
      /\ UNCHANGED out
  BY <1>1, ReleaseOK
<1>5. /\ batch' \in [Proc -> SUBSET Req] /\ batch'[p] \subseteq batch[p]
      /\ \A q \in Proc \ {p} : batch'[q] = batch[q]
  BY <1>1 DEF TypeOK
<1>6. TypeOK'
  BY <1>1, <1>2, <1>3, <1>4, <1>5 DEF TypeOK, out
<1>7. Others(p)
  BY <1>2, <1>4, <1>5 DEF Others
<1>8. ProcOK(p)'
  <2>1. \A r \in batch[p] : r \in Req /\ Reserved(r)
    BY <1>1 DEF Inv, ProcOK, TypeOK
  <2>2. \A r \in batch'[p] : Reserved(r)'
    BY <2>1, <1>5 DEF Shared, Grows, Reserved
  <2> QED BY <2>2, <1>2, <1>4 DEF ProcOK, Answers
<1> QED BY <1>4, <1>6, <1>7, <1>8, StepOK

\* A step of p that releases and goes on at l.
LEMMA ReleaseProceedOK ==
    ASSUME Inv, NEW p \in Proc, pc[p] \notin {"idle", "reserve", "insert"},
           NEW l \in {"complete", "deliver"}, Proceed(p, l), Release(p),
           Fault \/ NoFault, UNCHANGED batch,
           l = "deliver" => row'[req[p]].state \in Terminal,
           row' \in [Req -> Row], OneRequestPerKey', Shared(p),
           \A r \in Req : RowOK(row[r], stored[r], published[r], expired[r])'
    PROVE  Preserves
<1>1. TypeOK /\ l \in Label /\ req[p] \in Req /\ Reserved(req[p])
  BY Working DEF Inv, Label
<1>2. /\ pc' \in [Proc -> Label] /\ pc'[p] = l
      /\ UNCHANGED <<req, call, reply>>
      /\ \A q \in Proc \ {p} : pc'[q] = pc[q]
  BY <1>1, ProceedOK
<1>3. faults' \in 0 .. MaxFaults
  BY <1>1, FaultsOK
<1>4. /\ lock' \in [Req -> Proc \cup {None}]
      /\ \A r \in Req : lock'[r] # p
      /\ \A r \in Req : \A q \in Proc \ {p} : lock'[r] = q <=> lock[r] = q
      /\ pending' \in [Proc -> SUBSET Note] /\ sent' \in [Proc -> SUBSET Note]
      /\ sent'[p] = {}
      /\ \A q \in Proc \ {p} : pending'[q] = pending[q] /\ sent'[q] = sent[q]
      /\ UNCHANGED out
  BY <1>1, ReleaseOK
<1>5. TypeOK'
  BY <1>1, <1>2, <1>3, <1>4 DEF TypeOK, out
<1>6. Others(p)
  BY <1>2, <1>4 DEF Others
<1>7. ProcOK(p)'
  <2>1. \A r \in Req : Reserved(r) => Reserved(r)'
    BY DEF Shared, Grows, Reserved
  <2>2. \A r \in batch[p] : r \in Req /\ Reserved(r)
    BY <1>1 DEF Inv, ProcOK, TypeOK
  <2>3. reply[p] \notin {"created", "processing"}
    BY DEF Inv, ProcOK
  <2> QED BY <1>1, <1>2, <1>4, <2>1, <2>2, <2>3 DEF ProcOK
<1> QED BY <1>4, <1>5, <1>6, <1>7, StepOK

\* The commit of a transaction with external calls that writes x.
LEMMA CommitHeldOK ==
    ASSUME Inv, NEW p \in Proc, pc[p] \in InTransaction, NEW x \in Row,
           lock[req[p]] = p =>
              /\ Grows(row[req[p]], x)
              /\ RowOK(x, stored[req[p]], published[req[p]], expired[req[p]])
              /\ x.state \in Terminal,
           \/ CommitHeld(p, x, Proceed(p, "deliver"))
           \/ row[req[p]].state \in Terminal /\ CommitHeld(p, x, AnswerStored(p))
    PROVE  Preserves
<1> DEFINE r == req[p]
<1>1. r \in Req /\ Reserved(r) /\ pc[p] \notin {"idle", "reserve", "insert"}
  BY Working DEF InTransaction
<1>2. Release(p) /\ UNCHANGED batch /\ UNCHANGED out /\ (Fault \/ NoFault)
  BY DEF CommitHeld, Release
<1>3. "unknown" \in Answers
  BY DEF Answers
<1>4. CASE UNCHANGED row /\ Answer(p, "unknown")
  <2>1. /\ OneRequestPerKey' /\ Shared(p) /\ row' \in [Req -> Row]
        /\ \A q \in Req : RowOK(row[q], stored[q], published[q], expired[q])'
    BY <1>2, <1>4, RowsUnchanged DEF Inv, TypeOK
  <2> QED BY <1>2, <1>3, <1>4, <2>1, ReleaseAnswerOK
<1>5. CASE /\ lock[r] = p /\ Write(r, x)
           /\ \/ Proceed(p, "deliver") \/ Answer(p, "unknown")
              \/ row[r].state \in Terminal /\ AnswerStored(p)
  <2>1. /\ row' \in [Req -> Row] /\ row'[r] = x
        /\ OneRequestPerKey' /\ Shared(p)
        /\ \A q \in Req : RowOK(row[q], stored[q], published[q], expired[q])'
    BY <1>1, <1>2, <1>5, RowWritten
  <2>2. CASE Proceed(p, "deliver")
    BY <1>1, <1>2, <1>5, <2>1, <2>2, ReleaseProceedOK
  <2>3. CASE Answer(p, "unknown")
    BY <1>2, <1>3, <2>1, <2>3, ReleaseAnswerOK
  <2>4. CASE row[r].state \in Terminal /\ AnswerStored(p)
    <3>1. row[r].state \in Answers /\ Answer(p, row[r].state)
      BY <2>4 DEF AnswerStored, Answers, Terminal
    <3> QED BY <1>2, <2>1, <3>1, ReleaseAnswerOK
  <2> QED BY <1>5, <2>2, <2>3, <2>4
<1>6. \/ UNCHANGED row /\ Answer(p, "unknown")
      \/ /\ lock[r] = p /\ Write(r, x)
         /\ \/ Proceed(p, "deliver") \/ Answer(p, "unknown")
            \/ row[r].state \in Terminal /\ AnswerStored(p)
  BY DEF CommitHeld
<1> QED BY <1>4, <1>5, <1>6

\* A process takes the lock of its row.
LEMMA HoldOK ==
    ASSUME Inv, NEW p \in Proc, pc[p] \notin {"idle", "reserve", "insert"} \cup InTransaction,
           Free(req[p]), NEW l \in {"put", "publish"}, Hold(p, l),
           l = "put" => Held(row[req[p]]) /\ Settled(row[req[p]]) /\ UNCHANGED pending,
           l = "publish" =>
              /\ row[req[p]].state \in Terminal
              /\ pending' = [pending EXCEPT ![p] = Undelivered(row[req[p]])]
    PROVE  Preserves
<1> DEFINE r == req[p]
<1>1. TypeOK /\ l \in Label /\ l \in InTransaction /\ p # None
  BY NoneIsNobody DEF Inv, Label, InTransaction
<1>2. r \in Req /\ Reserved(r) /\ row[r] \in Row
  BY Working
<1>3. /\ pc' \in [Proc -> Label] /\ pc'[p] = l
      /\ UNCHANGED <<req, call, reply>>
      /\ \A q \in Proc \ {p} : pc'[q] = pc[q]
  BY <1>1, ProceedOK DEF Hold
<1>4. UNCHANGED <<row, out, batch, sent, faults>>
  BY DEF Hold
<1>5. /\ lock' \in [Req -> Proc \cup {None}]
      /\ \A s \in Req : lock'[s] = p => s = r
      /\ \A s \in Req : \A q \in Proc \ {p} : lock'[s] = q <=> lock[s] = q
  BY <1>1, <1>2, NotHolding, NoneIsNobody DEF Hold, TypeOK, Free
<1>6. Undelivered(row[r]) \in SUBSET Note /\ Undelivered(row[r]) \subseteq row[r].notes
  BY <1>2 DEF Undelivered, Row
<1>7. /\ pending' \in [Proc -> SUBSET Note]
      /\ \A q \in Proc \ {p} : pending'[q] = pending[q]
      /\ l = "publish" => pending'[p] \subseteq row[r].notes
  BY <1>1, <1>6 DEF TypeOK
<1>8. TypeOK'
  BY <1>1, <1>3, <1>4, <1>5, <1>7 DEF TypeOK, out
<1>9. Others(p)
  BY <1>3, <1>4, <1>5, <1>7 DEF Others
<1>10. /\ OneRequestPerKey' /\ Shared(p)
       /\ \A s \in Req : RowOK(row[s], stored[s], published[s], expired[s])'
  BY <1>4, RowsUnchanged
<1>11. ProcOK(p)'
  <2>1. /\ \A s \in batch[p] : Reserved(s)
        /\ reply[p] \notin {"created", "processing"} /\ sent[p] = {}
    BY DEF Inv, ProcOK, InTransaction
  <2>2. CASE l = "put"
    BY <1>2, <1>3, <1>4, <2>1, <2>2 DEF ProcOK, Reserved
  <2>3. CASE l = "publish"
    BY <1>2, <1>3, <1>4, <1>7, <2>1, <2>3 DEF ProcOK, Reserved
  <2> QED BY <2>2, <2>3
<1> QED BY <1>1, <1>3, <1>5, <1>8, <1>9, <1>10, <1>11, StepOK

\* A step of p outside or within reserve; it may start on a stored request.
LEMMA EnterOK ==
    ASSUME Inv, NEW p \in Proc, pc[p] \in {"idle", "reserve", "insert"},
           NEW l \in {"idle", "reserve", "insert", "execute", "complete"}, Goto(p, l),
           req' \in [Proc -> Req \cup {None}],
           \A q \in Proc \ {p} : req'[q] = req[q],
           l \in {"execute", "complete"} => req'[p] \in Req /\ row'[req'[p]].key # None,
           call' \in [Proc -> (Key \cup {None}) \X (Payload \cup {None})],
           \A q \in Proc \ {p} : call'[q] = call[q],
           l \in {"reserve", "insert"} => call'[p][1] # None,
           reply' = reply \/ reply' = [reply EXCEPT ![p] = "none"],
           batch' \in [Proc -> SUBSET Req],
           \A q \in Proc \ {p} : batch'[q] = batch[q],
           \A r \in batch'[p] : Reserved(r)',
           UNCHANGED <<out, lock, pending, sent, faults>>,
           row' \in [Req -> Row], OneRequestPerKey', Shared(p),
           \A r \in Req : RowOK(row[r], stored[r], published[r], expired[r])'
    PROVE  Preserves
<1>1. TypeOK /\ l \in Label /\ ProcOK(p)
  BY DEF Inv, Label
<1>2. pc' \in [Proc -> Label] /\ pc'[p] = l /\ \A q \in Proc \ {p} : pc'[q] = pc[q]
  BY <1>1 DEF TypeOK, Goto
<1>3. /\ reply' \in [Proc -> {"none", "not_started", "conflict", "rejected", "unknown",
                        "created", "processing", "failed", "completed"}]
      /\ reply'[p] \notin {"created", "processing"}
      /\ \A q \in Proc \ {p} : reply'[q] = reply[q]
  <2>1. reply \in [Proc -> {"none", "not_started", "conflict", "rejected", "unknown",
                            "created", "processing", "failed", "completed"}]
    BY <1>1 DEF TypeOK
  <2>2. reply[p] \notin {"created", "processing"}  BY <1>1 DEF ProcOK
  <2>3. CASE reply' = reply  BY <2>1, <2>2, <2>3
  <2>4. CASE reply' = [reply EXCEPT ![p] = "none"]  BY <2>1, <2>4
  <2> QED  BY <2>3, <2>4
<1>4. TypeOK'
  BY <1>1, <1>2, <1>3 DEF TypeOK, out
<1>5. Others(p)
  BY <1>2, <1>3 DEF Others
<1>6. sent'[p] = {}
  BY <1>1 DEF ProcOK
<1>7. ProcOK(p)'
  <2>1. CASE l \in {"idle", "reserve", "insert"}
    BY <1>2, <1>3, <1>6, <2>1 DEF ProcOK
  <2>2. CASE l \in {"execute", "complete"}
    BY <1>2, <1>3, <1>6, <2>2 DEF ProcOK, Reserved
  <2> QED BY <2>1, <2>2
<1>8. \A r \in Req : lock'[r] # p
  BY NotHolding DEF InTransaction
<1> QED BY <1>4, <1>5, <1>7, <1>8, StepOK

\* The unique index admits a row only under a new key, and only over a blank row.
LEMMA InsertOK ==
    ASSUME Inv, NEW p \in Proc, NEW r \in Req, Insert(p, r), MayInsert(p), UNCHANGED out
    PROVE  /\ row' \in [Req -> Row] /\ Reserved(r)'
           /\ OneRequestPerKey' /\ Shared(p)
           /\ \A q \in Req : RowOK(row[q], stored[q], published[q], expired[q])'
<1> DEFINE k == call[p][1]
           y == call[p][2]
           x == ReservedRow(k, y)
<1>1. TypeOK /\ k \in Key \cup {None} /\ y \in Payload \cup {None}
  BY DEF Inv, TypeOK
<1>2. row[r] = NoRow /\ row[r].key = None /\ published[r] = {}
  <2>1. row[r].key = None /\ RowOK(row[r], stored[r], published[r], expired[r])
    BY DEF Inv, Insert, Reserved
  <2>2. row[r] = NoRow /\ published[r] \subseteq row[r].notes
    BY <2>1 DEF RowOK
  <2> QED BY <2>1, <2>2 DEF NoRow
<1>3. k \in Key /\ \A q \in Req : row[q].key # k
  BY <1>1, <1>2 DEF MayInsert, Prior
<1>4. /\ x \in Row /\ x.key = k /\ Grows(NoRow, x)
      /\ RowOK(x, stored[r], published[r], expired[r])
  BY <1>1, <1>2, <1>3, ReservedRowOK
<1>5. row' \in [Req -> Row] /\ row'[r] = x /\ \A q \in Req \ {r} : row'[q] = row[q]
  BY <1>1, <1>4 DEF Insert, Write, TypeOK
<1>6. lock[r] = None
  <2>1. CASE lock[r] # None
    <3>1. lock[r] \in Proc /\ pc[lock[r]] \in InTransaction /\ req[lock[r]] = r
      BY <1>1, <2>1 DEF Inv, TypeOK, LockOK
    <3>2. Reserved(r)
      BY <3>1 DEF Inv, ProcOK, InTransaction
    <3> QED BY <3>2 DEF Insert
  <2> QED BY <2>1
<1>7. Reserved(r)'
  BY <1>3, <1>4, <1>5, NoneIsNobody DEF Reserved
<1>8. OneRequestPerKey'
  BY <1>2, <1>3, <1>4, <1>5 DEF Inv, OneRequestPerKey, Reserved
<1>9. Shared(p)
  BY <1>2, <1>4, <1>5, <1>6 DEF Shared, out
<1>10. \A q \in Req : RowOK(row[q], stored[q], published[q], expired[q])'
  BY <1>4, <1>5 DEF Inv, out
<1> QED BY <1>5, <1>7, <1>8, <1>9, <1>10

-----------------------------------------------------------------------------
(* Inv is inductive: one lemma per group of actions *)

LEMMA InitInv == Init => Inv
<1> SUFFICES ASSUME Init PROVE Inv
  OBVIOUS
<1>1. "idle" \in Label /\ 0 \in 0 .. MaxFaults
  BY ConstantsOK DEF Label
<1>2. TypeOK
  BY <1>1, NoRowType DEF Init, TypeOK
<1>3. \A r \in Req : ~Reserved(r)
  BY DEF Init, Reserved, NoRow
<1>4. ASSUME NEW r \in Req
      PROVE  RowOK(row[r], stored[r], published[r], expired[r]) /\ LockOK(r)
  BY DEF Init, RowOK, NoRow, LockOK, Held
<1>5. \A p \in Proc : ProcOK(p)
  BY DEF Init, ProcOK
<1> QED BY <1>2, <1>3, <1>4, <1>5 DEF Inv, OneRequestPerKey

\* CallExecute, CallRetry and the two steps of the expiry worker.
LEMMA CallsInv ==
    ASSUME Inv, NEW p \in Proc,
           \/ \E k \in Key, y \in Payload : CallExecute(p, k, y)
           \/ \E r \in Req : CallRetry(p, r)
           \/ ExpiryWorker(p)
    PROVE  Preserves
<1>1. TypeOK
  BY DEF Inv
<1>2. \A r \in batch[p] : r \in Req /\ Reserved(r)
  BY <1>1 DEF Inv, TypeOK, ProcOK
<1>3. ASSUME NEW l, Begin(p, l)
      PROVE  /\ pc[p] = "idle" /\ Goto(p, l)
             /\ reply' = [reply EXCEPT ![p] = "none"]
             /\ UNCHANGED <<out, lock, pending, sent, faults>> /\ UNCHANGED row
             /\ row' \in [Req -> Row] /\ OneRequestPerKey' /\ Shared(p)
             /\ \A r \in Req : RowOK(row[r], stored[r], published[r], expired[r])'
  BY <1>1, <1>3, RowsUnchanged DEF Begin, TypeOK
<1>4. ASSUME NEW k \in Key, NEW y \in Payload, CallExecute(p, k, y)
      PROVE  Preserves
  <2>1. Begin(p, "reserve") /\ UNCHANGED <<req, batch>>
    BY <1>4 DEF CallExecute
  <2>2. <<k, y>> \in (Key \cup {None}) \X (Payload \cup {None})
    OBVIOUS
  <2>3. /\ call' \in [Proc -> (Key \cup {None}) \X (Payload \cup {None})]
        /\ call'[p][1] # None /\ \A q \in Proc \ {p} : call'[q] = call[q]
    BY <1>1, <1>4, <2>2, NoneIsNobody DEF CallExecute, TypeOK
  <2> QED BY <1>1, <1>2, <1>3, <2>1, <2>3, EnterOK DEF TypeOK, Reserved
<1>5. ASSUME NEW r \in Req, CallRetry(p, r)
      PROVE  Preserves
  <2>1. /\ Begin(p, "complete") /\ UNCHANGED <<call, batch>> /\ Reserved(r)
        /\ req' = [req EXCEPT ![p] = r]
    BY <1>5 DEF CallRetry
  <2>2. req' \in [Proc -> Req \cup {None}] /\ req'[p] = r
    BY <1>1, <2>1 DEF TypeOK
  <2> QED BY <1>1, <1>2, <1>3, <2>1, <2>2, EnterOK DEF TypeOK, Reserved
<1>6. ASSUME ListExpired(p)
      PROVE  Preserves
  <2>1. /\ Begin(p, "idle") /\ UNCHANGED <<req, call>>
    BY <1>6 DEF ListExpired
  <2>2. PICK rows \in SUBSET {r \in Req : Listable(row[r]) /\ expired[r]} :
           batch' = [batch EXCEPT ![p] = rows]
    BY <1>6 DEF ListExpired
  <2>3. \A r \in rows : Reserved(r)
    BY DEF Listable, Held, Inv, RowOK, Reserved, NoRow
  <2>4. batch' \in [Proc -> SUBSET Req] /\ batch'[p] = rows
    BY <1>1, <2>2 DEF TypeOK
  <2> QED BY <1>1, <1>3, <2>1, <2>2, <2>3, <2>4, EnterOK DEF TypeOK, Reserved
<1>7. ASSUME NEW r \in Req, ExpireNext(p, r)
      PROVE  Preserves
  <2>1. /\ Begin(p, "complete") /\ UNCHANGED call /\ r \in batch[p] /\ Reserved(r)
        /\ req' = [req EXCEPT ![p] = r] /\ batch' = [batch EXCEPT ![p] = @ \ {r}]
    BY <1>2, <1>7 DEF ExpireNext
  <2>2. /\ req' \in [Proc -> Req \cup {None}] /\ req'[p] = r
        /\ batch' \in [Proc -> SUBSET Req] /\ batch'[p] \subseteq batch[p]
    BY <1>1, <2>1 DEF TypeOK
  <2> QED BY <1>1, <1>2, <1>3, <2>1, <2>2, EnterOK DEF TypeOK, Reserved
<1> QED BY <1>4, <1>5, <1>6, <1>7 DEF ExpiryWorker

\* PrismaExecutionStore.reserve.
LEMMA ReserveInv ==
    ASSUME Inv, NEW p \in Proc,
           ReserveRead(p) \/ ReserveInsert(p) \/ ReserveConflict(p) \/ ReserveFails(p)
    PROVE  Preserves
<1>1. TypeOK /\ pc[p] \in {"reserve", "insert"}
  BY DEF Inv, ReserveRead, ReserveInsert, ReserveConflict, ReserveFails
<1>2. \A r \in batch[p] : r \in Req /\ Reserved(r)
  BY <1>1 DEF Inv, TypeOK, ProcOK
<1>3. "conflict" \in Answers /\ "not_started" \in Answers
  BY DEF Answers
<1>4. pc[p] \notin InTransaction
  BY <1>1 DEF InTransaction
<1>5. ASSUME UNCHANGED <<row, out, tx, lock, faults>>, NEW r \in Req,
             r \in Prior(call[p][1]), Existing(p, r)
      PROVE  Preserves
  <2>1. CASE Answer(p, "conflict")
    BY <1>3, <1>4, <1>5, <2>1, AnswerInv DEF NoFault
  <2>2. CASE req' = [req EXCEPT ![p] = r] /\ Goto(p, "execute") /\ UNCHANGED <<call, reply>>
    <3>1. /\ row' \in [Req -> Row] /\ OneRequestPerKey' /\ Shared(p)
          /\ \A q \in Req : RowOK(row[q], stored[q], published[q], expired[q])'
      BY <1>1, <1>5, RowsUnchanged DEF TypeOK
    <3>2. req' \in [Proc -> Req \cup {None}] /\ req'[p] = r
      BY <1>1, <2>2 DEF TypeOK
    <3>3. call[p][1] # None
      BY <1>1 DEF Inv, ProcOK
    <3>4. Reserved(r)
      BY <1>5, <3>3 DEF Prior, Reserved
    <3> QED BY <1>1, <1>2, <1>5, <2>2, <3>1, <3>2, <3>4, EnterOK DEF TypeOK, Reserved, tx
  <2> QED BY <1>5, <2>1, <2>2 DEF Existing
<1>6. CASE ReserveRead(p)
  <2>1. CASE Proceed(p, "insert")
    <3>1. /\ row' \in [Req -> Row] /\ OneRequestPerKey' /\ Shared(p)
          /\ \A q \in Req : RowOK(row[q], stored[q], published[q], expired[q])'
      BY <1>1, <1>6, RowsUnchanged DEF TypeOK, ReserveRead
    <3>2. call[p][1] # None
      BY <1>1 DEF Inv, ProcOK
    <3> QED BY <1>1, <1>2, <1>6, <2>1, <3>1, <3>2, EnterOK
            DEF TypeOK, Reserved, tx, Proceed, ReserveRead
  <2> QED BY <1>5, <1>6, <2>1 DEF ReserveRead, Prior
<1>7. CASE ReserveConflict(p)
  BY <1>5, <1>7 DEF ReserveConflict, Prior
<1>8. CASE ReserveInsert(p)
  <2>1. PICK r \in Req : Insert(p, r) /\ req' = [req EXCEPT ![p] = r]
    BY <1>8 DEF ReserveInsert
  <2>2. /\ row' \in [Req -> Row] /\ Reserved(r)' /\ OneRequestPerKey' /\ Shared(p)
        /\ \A q \in Req : RowOK(row[q], stored[q], published[q], expired[q])'
    BY <1>8, <2>1, InsertOK DEF ReserveInsert
  <2>3. req' \in [Proc -> Req \cup {None}] /\ req'[p] = r
    BY <1>1, <2>1 DEF TypeOK
  <2>4. \A q \in batch[p] : Reserved(q)'
    BY <1>2, <2>2 DEF Shared, Grows, Reserved
  <2> QED BY <1>1, <1>8, <2>1, <2>2, <2>3, <2>4, EnterOK
          DEF TypeOK, Reserved, tx, ReserveInsert
<1>9. CASE ReserveFails(p)
  <2>1. CASE UNCHANGED row
    BY <1>3, <1>4, <1>9, <2>1, AnswerInv DEF ReserveFails
  <2>2. CASE MayInsert(p) /\ \E r \in Req : Insert(p, r)
    <3>1. /\ row' \in [Req -> Row] /\ OneRequestPerKey' /\ Shared(p)
          /\ \A q \in Req : RowOK(row[q], stored[q], published[q], expired[q])'
      BY <1>9, <2>2, InsertOK DEF ReserveFails
    <3>2. /\ Goto(p, "idle") /\ reply' = [reply EXCEPT ![p] = "not_started"]
          /\ UNCHANGED <<out, lock, batch, pending, sent>> /\ Fault
          /\ Answer(p, "not_started")
      BY <1>9 DEF ReserveFails, Answer, tx
    <3>3. /\ pc' \in [Proc -> Label] /\ pc'[p] = "idle"
          /\ req' \in [Proc -> Req \cup {None}]
          /\ call' \in [Proc -> (Key \cup {None}) \X (Payload \cup {None})]
          /\ reply' \in [Proc -> {"none", "not_started", "conflict", "rejected",
                           "unknown", "created", "processing", "failed", "completed"}]
          /\ reply'[p] = "not_started"
          /\ \A q \in Proc \ {p} :
                /\ pc'[q] = pc[q] /\ req'[q] = req[q]
                /\ call'[q] = call[q] /\ reply'[q] = reply[q]
      BY <1>1, <1>3, <3>2, AnswerOK
    <3>4. faults' \in 0 .. MaxFaults
      BY <1>1, <3>2, FaultsOK
    <3>5. TypeOK'
      BY <1>1, <3>1, <3>2, <3>3, <3>4 DEF TypeOK, out
    <3>6. Others(p)
      BY <3>2, <3>3 DEF Others
    <3>7. ProcOK(p)'
      <4>1. (\A q \in batch[p] : Reserved(q)') /\ sent[p] = {}
        BY <1>1, <1>2, <3>1 DEF Shared, Grows, Reserved, Inv, ProcOK
      <4> QED BY <3>2, <3>3, <4>1 DEF ProcOK
    <3>8. \A q \in Req : lock'[q] # p
      BY <1>4, <3>2, NotHolding
    <3> QED BY <3>1, <3>5, <3>6, <3>7, <3>8, StepOK
  <2> QED BY <1>9, <2>1, <2>2 DEF ReserveFails
<1> QED BY <1>6, <1>7, <1>8, <1>9

\* DurableCoordinator.execute.
LEMMA ExecuteInv ==
    ASSUME Inv, NEW p \in Proc,
           \/ ExecuteSettled(p) \/ ExecuteCommits(p) \/ ExecuteThrows(p)
           \/ RecordFailure(p) \/ FailureOvertaken(p)
    PROVE  Preserves
<1> DEFINE x == row[req[p]]
<1>1. /\ pc[p] \in {"execute", "recordFailure", "recordResidual"} /\ Free(req[p])
      /\ pc[p] \notin {"idle", "reserve", "insert"} \cup InTransaction
  BY DEF ExecuteSettled, ExecuteCommits, ExecuteThrows, RecordFailure,
         FailureOvertaken, At, InTransaction
<1>2. /\ x \in Row /\ x.key # None
      /\ RowOK(x, stored[req[p]], published[req[p]], expired[req[p]])
  BY <1>1, Working
<1>3. CASE ExecuteSettled(p) \/ FailureOvertaken(p)
  BY <1>1, <1>3, ReadOnlyOK DEF ExecuteSettled, FailureOvertaken
<1>4. CASE ExecuteThrows(p)
  BY <1>1, <1>4, ReadOnlyOK DEF ExecuteThrows
<1>5. CASE ExecuteCommits(p)
  <2>1. ~Settled(x) /\ Commit(p, Executed(x), "complete")
    BY <1>5 DEF ExecuteCommits
  <2>2. /\ Executed(x) \in Row /\ Grows(x, Executed(x))
        /\ RowOK(Executed(x), stored[req[p]], published[req[p]], expired[req[p]])
    BY <1>2, <2>1, ExecutedOK
  <2> QED BY <1>1, <2>1, <2>2, CommitOK
<1>6. CASE RecordFailure(p)
  <2> DEFINE residual == pc[p] = "recordResidual"
  <2>1. ~Settled(x) /\ Commit(p, Failed(x, residual), "complete") /\ residual \in BOOLEAN
    BY <1>6 DEF RecordFailure
  <2>2. /\ Failed(x, residual) \in Row /\ Grows(x, Failed(x, residual))
        /\ RowOK(Failed(x, residual), stored[req[p]], published[req[p]], expired[req[p]])
    BY <1>2, <2>1, FailedOK
  <2> HIDE DEF residual
  <2> QED BY <1>1, <2>1, <2>2, CommitOK
<1> QED BY <1>3, <1>4, <1>5, <1>6

\* The artifact transaction, up to its external call.
LEMMA CompleteInv ==
    ASSUME Inv, NEW p \in Proc,
           \/ CompleteRejected(p) \/ NothingToUpload(p) \/ ExpireArtifact(p)
           \/ StartUpload(p)
    PROVE  Preserves
<1> DEFINE x == row[req[p]]
<1>1. /\ pc[p] = "complete" /\ Free(req[p])
      /\ pc[p] \notin {"idle", "reserve", "insert"} \cup InTransaction
  BY DEF CompleteRejected, NothingToUpload, ExpireArtifact, StartUpload, At,
         InTransaction
<1>2. /\ x \in Row /\ x.key # None /\ req[p] \in Req
      /\ RowOK(x, stored[req[p]], published[req[p]], expired[req[p]])
  BY <1>1, Working
<1>3. CASE CompleteRejected(p)
  <2>1. "rejected" \in Answers
    BY DEF Answers
  <2> QED BY <1>1, <1>3, <2>1, AnswerInv DEF CompleteRejected, NoFault
<1>4. CASE NothingToUpload(p)
  <2>1. ReadOnly(p, "deliver") /\ ~NotCompletable(x) /\ ~Held(x)
    BY <1>4 DEF NothingToUpload
  <2>2. Settled(x) /\ (x.phase = "data_committed" => x.artifact = "discarded")
    BY <2>1 DEF NotCompletable, Held
  <2>3. x.state \in Terminal
    BY <1>2, <2>2 DEF RowOK, Settled, Row, Terminal
  <2> QED BY <1>1, <2>1, <2>3, ReadOnlyOK
<1>5. CASE ExpireArtifact(p)
  <2>1. /\ Settled(x) /\ Expirable(x) /\ expired[req[p]]
        /\ Commit(p, Discarded(x), "deliver")
    BY <1>5 DEF ExpireArtifact
  <2>2. /\ Discarded(x) \in Row /\ Grows(x, Discarded(x))
        /\ RowOK(Discarded(x), stored[req[p]], published[req[p]], expired[req[p]])
        /\ Discarded(x).state \in Terminal
    BY <1>2, <2>1, DiscardedOK DEF Terminal
  <2> QED BY <1>1, <2>1, <2>2, CommitOK
<1>6. CASE StartUpload(p)
  <2>1. Settled(x) /\ Held(x) /\ Hold(p, "put") /\ UNCHANGED pending
    BY <1>6 DEF StartUpload
  <2> QED BY <1>1, <2>1, HoldOK
<1> QED BY <1>3, <1>4, <1>5, <1>6

\* A step inside a transaction with external calls that keeps its lock, writes no
\* row, and is taken at l next.
LEMMA WithinOK ==
    ASSUME Inv, NEW p \in Proc, pc[p] \in InTransaction,
           NEW l \in InTransaction, pc' = [pc EXCEPT ![p] = l],
           UNCHANGED <<row, expired, lock, req, call, batch, reply>>,
           stored' \in [Req -> BOOLEAN], \A r \in Req : stored[r] => stored'[r],
           published' \in [Req -> SUBSET Note],
           \A r \in Req : published[r] \subseteq published'[r]
                          /\ published'[r] \subseteq row[r].notes,
           pending' \in [Proc -> SUBSET Note], sent' \in [Proc -> SUBSET Note],
           \A q \in Proc \ {p} : pending'[q] = pending[q] /\ sent'[q] = sent[q],
           Fault \/ NoFault, ProcOK(p)'
    PROVE  Preserves
<1>1. TypeOK /\ l \in Label
  BY DEF Inv, Label
<1>2. pc' \in [Proc -> Label] /\ pc'[p] = l /\ \A q \in Proc \ {p} : pc'[q] = pc[q]
  BY <1>1 DEF TypeOK
<1>3. faults' \in 0 .. MaxFaults
  BY <1>1, FaultsOK
<1>4. TypeOK'
  BY <1>1, <1>2, <1>3 DEF TypeOK
<1>5. Others(p)
  BY <1>2 DEF Others
<1>6. Shared(p)
  BY DEF Shared
<1>7. OneRequestPerKey'
  BY DEF Inv, OneRequestPerKey, Reserved
<1>8. ASSUME NEW r \in Req
      PROVE  RowOK(row[r], stored[r], published[r], expired[r])'
  <2>1. RowOK(row[r], stored[r], published[r], expired[r])
    BY DEF Inv
  <2>2. /\ row'[r] = row[r] /\ expired'[r] = expired[r] /\ (stored[r] => stored'[r])
        /\ published[r] \subseteq published'[r] /\ published'[r] \subseteq row[r].notes
    OBVIOUS
  <2> QED BY <2>1, <2>2 DEF RowOK
<1>9. \A r \in Req : lock'[r] = p => pc'[p] \in InTransaction /\ req'[p] = r
  BY <1>2, NoneIsNobody DEF Inv, LockOK
<1> QED BY <1>4, <1>5, <1>6, <1>7, <1>8, <1>9, StepOK

\* artifactStorage.put.
LEMMA PutInv ==
    ASSUME Inv, NEW p \in Proc, PutSucceeds(p) \/ PutThrows(p)
    PROVE  Preserves
<1> DEFINE r == req[p]
<1>1. TypeOK /\ ProcOK(p) /\ pc[p] = "put" /\ r \in Req /\ Reserved(r)
  BY DEF Inv, ProcOK, PutSucceeds, PutThrows
<1>2. PICK l \in {"saveUploaded", "saveUploadFailed"} :
         /\ Proceed(p, l) /\ (l = "saveUploaded" => Store(r))
         /\ UNCHANGED stored \/ Store(r)
         /\ Fault \/ NoFault
         /\ UNCHANGED <<row, published, expired, tx, lock>>
  <2>1. CASE PutSucceeds(p)
    BY <2>1 DEF PutSucceeds, NoFault
  <2>2. CASE PutThrows(p)
    BY <2>2 DEF PutThrows, AfterPutThrows
  <2> QED BY <2>1, <2>2
<1>3. /\ pc[p] \in InTransaction /\ l \in InTransaction /\ pc' = [pc EXCEPT ![p] = l]
      /\ UNCHANGED <<req, call, reply>> /\ pc'[p] = l
  BY <1>1, <1>2 DEF InTransaction, Proceed, Goto, TypeOK
<1>4. /\ UNCHANGED <<row, expired, lock, batch, pending, sent>> /\ UNCHANGED published
  BY <1>2 DEF tx
<1>5. /\ stored' \in [Req -> BOOLEAN] /\ \A s \in Req : stored[s] => stored'[s]
      /\ l = "saveUploaded" => stored'[r]
  BY <1>1, <1>2 DEF Store, TypeOK
<1>6. \A s \in Req : published[s] \subseteq row[s].notes
  BY DEF Inv, RowOK
<1>7. ProcOK(p)'
  BY <1>1, <1>2, <1>3, <1>4, <1>5 DEF ProcOK, Reserved
<1>8. /\ published' \in [Req -> SUBSET Note] /\ pending' \in [Proc -> SUBSET Note]
      /\ sent' \in [Proc -> SUBSET Note]
  BY <1>1, <1>4 DEF TypeOK
<1> QED BY <1>2, <1>3, <1>4, <1>5, <1>6, <1>7, <1>8, WithinOK

\* The commit after put.
LEMMA SaveInv ==
    ASSUME Inv, NEW p \in Proc, SaveUploaded(p) \/ SaveUploadFailed(p)
    PROVE  Preserves
<1> DEFINE x == row[req[p]]
<1>1. /\ pc[p] \in {"saveUploaded", "saveUploadFailed"} /\ pc[p] \in InTransaction
      /\ pc[p] \notin {"idle", "reserve", "insert"}
  BY DEF SaveUploaded, SaveUploadFailed, InTransaction
<1>2. /\ x \in Row /\ x.key # None
      /\ RowOK(x, stored[req[p]], published[req[p]], expired[req[p]])
  BY <1>1, Working
<1>3. lock[req[p]] = p => Held(x) /\ Settled(x)
  BY <1>1 DEF Inv, ProcOK
<1>4. CASE SaveUploaded(p)
  <2>1. stored[req[p]] /\ CommitHeld(p, Uploaded(x), Proceed(p, "deliver"))
    BY <1>4 DEF Inv, ProcOK, SaveUploaded
  <2>2. lock[req[p]] = p =>
          /\ Grows(x, Uploaded(x))
          /\ RowOK(Uploaded(x), stored[req[p]], published[req[p]], expired[req[p]])
          /\ Uploaded(x).state \in Terminal
    BY <1>2, <1>3, <2>1, UploadedOK
  <2>3. Uploaded(x) \in Row
    <3>1. x.notes \cup Both("completed") \in SUBSET Note
      BY <1>2, NotesType DEF Row, Event, Position
    <3> QED BY <1>2, <3>1, ZenonT(60) DEF Uploaded, Row
  <2> QED BY <1>1, <2>1, <2>2, <2>3, CommitHeldOK
<1>5. CASE SaveUploadFailed(p)
  <2>1. CommitHeld(p, NotUploaded(x), Proceed(p, "deliver"))
    BY <1>5 DEF SaveUploadFailed
  <2>2. lock[req[p]] = p =>
          /\ Grows(x, NotUploaded(x))
          /\ RowOK(NotUploaded(x), stored[req[p]], published[req[p]], expired[req[p]])
          /\ NotUploaded(x).state \in Terminal
    BY <1>2, <1>3, NotUploadedOK
  <2>3. NotUploaded(x) \in Row
    <3>1. x.notes \cup Both("failed") \in SUBSET Note
      BY <1>2, NotesType DEF Row, Event, Position
    <3> QED BY <1>2, <3>1, ZenonT(60) DEF NotUploaded, Row
  <2> QED BY <1>1, <2>1, <2>2, <2>3, CommitHeldOK
<1> QED BY <1>4, <1>5

\* What the outbox's variables are.
LEMMA OutboxTyped ==
    ASSUME Inv
    PROVE  /\ pending \in [Proc -> SUBSET Note]
           /\ sent \in [Proc -> SUBSET Note]
           /\ published \in [Req -> SUBSET Note]
BY DEF Inv, TypeOK

\* The delivery transaction.
LEMMA DeliverInv ==
    ASSUME Inv, NEW p \in Proc,
           NothingToDeliver(p) \/ StartDelivery(p) \/ Publish(p) \/ SaveDelivered(p)
    PROVE  Preserves
<1> DEFINE r == req[p]
<1>1. /\ TypeOK /\ ProcOK(p) /\ pc[p] \in {"deliver", "publish"}
      /\ pc[p] \notin {"idle", "reserve", "insert"} /\ row[r].state \in Terminal
  BY DEF Inv, ProcOK, NothingToDeliver, StartDelivery, Publish, SaveDelivered, At
<1>2. /\ row[r] \in Row /\ row[r].key # None /\ r \in Req /\ Reserved(r)
      /\ RowOK(row[r], stored[r], published[r], expired[r])
  BY <1>1, Working
<1>3. CASE NothingToDeliver(p)
  <2>1. /\ pc[p] \notin InTransaction /\ Answer(p, row[r].state)
        /\ row[r].state \in Answers
        /\ UNCHANGED <<row, out, tx, lock, faults>>
    BY <1>1, <1>3 DEF NothingToDeliver, At, InTransaction, AnswerStored, Terminal, Answers
  <2> QED BY <2>1, AnswerInv DEF NoFault
<1>4. CASE StartDelivery(p)
  <2>1. /\ pc[p] \notin {"idle", "reserve", "insert"} \cup InTransaction /\ Free(r)
        /\ pending' = [pending EXCEPT ![p] = Undelivered(row[r])]
        /\ Hold(p, "publish")
    BY <1>4 DEF StartDelivery, At, InTransaction
  <2> QED BY <1>1, <2>1, HoldOK
<1>5. CASE Publish(p)
  <2>1. PICK n \in pending[p] :
           /\ pending' = [pending EXCEPT ![p] = @ \ {n}]
           /\ \/ /\ published' = [published EXCEPT ![r] = @ \cup {n}]
                 /\ sent' = [sent EXCEPT ![p] = @ \cup {n}]
                 /\ NoFault
              \/ /\ \/ UNCHANGED published
                    \/ published' = [published EXCEPT ![r] = @ \cup {n}]
                 /\ UNCHANGED sent
                 /\ Fault
    BY <1>5 DEF Publish
  <2>2. /\ pc[p] = "publish" /\ pc[p] \in InTransaction
        /\ UNCHANGED <<row, stored, expired, lock, pc, req, call, batch, reply>>
    BY <1>5 DEF Publish, InTransaction
  <2>3. /\ pending[p] \in SUBSET Note /\ pending[p] \subseteq row[r].notes
        /\ sent[p] \in SUBSET Note /\ sent[p] \subseteq published[r]
        /\ published[r] \in SUBSET Note
    BY <1>1, <1>2, <2>2 DEF TypeOK, ProcOK
  <2>4. n \in Note /\ n \in row[r].notes
    BY <2>3
  <2>5. /\ pending' \in [Proc -> SUBSET Note] /\ pending'[p] \subseteq row[r].notes
        /\ \A q \in Proc \ {p} : pending'[q] = pending[q]
    BY <2>1, <2>3, OutboxTyped
  <2>6. published[r] \cup {n} \in SUBSET Note /\ sent[p] \cup {n} \in SUBSET Note
    BY <2>3, <2>4
  <2>7. /\ sent' \in [Proc -> SUBSET Note] /\ \A q \in Proc \ {p} : sent'[q] = sent[q]
        /\ sent'[p] = sent[p] \/ sent'[p] = sent[p] \cup {n}
    BY <2>1, <2>6, OutboxTyped
  <2>8. /\ published' \in [Req -> SUBSET Note]
        /\ \A s \in Req \ {r} : published'[s] = published[s]
        /\ published'[r] = published[r] \/ published'[r] = published[r] \cup {n}
    BY <1>2, <2>1, <2>6, OutboxTyped
  <2>9. sent'[p] \subseteq published'[r]
    <3>1. CASE /\ published' = [published EXCEPT ![r] = @ \cup {n}]
               /\ sent' = [sent EXCEPT ![p] = @ \cup {n}]
      BY <1>1, <1>2, <2>3, <3>1 DEF TypeOK
    <3>2. CASE UNCHANGED sent
      BY <2>3, <2>8, <3>2
    <3> QED BY <2>1, <3>1, <3>2
  <2>10. \A s \in Req : published[s] \subseteq row[s].notes
    BY DEF Inv, RowOK
  <2>11. \A s \in Req : published[s] \subseteq published'[s]
                        /\ published'[s] \subseteq row[s].notes
    BY <1>2, <2>4, <2>8, <2>10
  <2>12. ProcOK(p)'
    BY <1>1, <1>2, <2>2, <2>5, <2>9 DEF ProcOK, Reserved
  <2>13. pc' = [pc EXCEPT ![p] = "publish"] /\ (Fault \/ NoFault)
    BY <1>1, <2>1, <2>2 DEF TypeOK
  <2>14. "publish" \in InTransaction /\ stored' \in [Req -> BOOLEAN]
         /\ (\A s \in Req : stored[s] => stored'[s])
    BY <1>1, <2>2 DEF TypeOK
  <2> QED BY <2>2, <2>5, <2>7, <2>8, <2>11, <2>12, <2>13, <2>14, WithinOK
<1>6. CASE SaveDelivered(p)
  <2> DEFINE x == Delivered(row[r], sent[p])
  <2>1. /\ pc[p] = "publish" /\ pc[p] \in InTransaction
        /\ CommitHeld(p, x, AnswerStored(p))
    BY <1>6 DEF SaveDelivered, InTransaction
  <2>2. sent[p] \in SUBSET published[r]
    BY <1>1, <2>1 DEF ProcOK
  <2>3. /\ x \in Row /\ Grows(row[r], x) /\ x.state = row[r].state
        /\ RowOK(x, stored[r], published[r], expired[r])
    <3> DEFINE y == row[r]
               s == stored[r]
               pub == published[r]
               e == expired[r]
               done == sent[p]
    <3>1. y \in Row /\ y.key # None /\ RowOK(y, s, pub, e) /\ done \in SUBSET pub
      BY <1>2, <2>2
    <3> HIDE DEF y, s, pub, e, done
    <3>2. /\ Delivered(y, done) \in Row /\ Grows(y, Delivered(y, done))
          /\ Delivered(y, done).state = y.state
          /\ RowOK(Delivered(y, done), s, pub, e)
      BY <3>1, DeliveredOK
    <3> QED BY <3>2 DEF y, s, pub, e, done
  <2> HIDE DEF x
  <2> QED BY <1>1, <2>1, <2>3, CommitHeldOK
<1> QED BY <1>3, <1>4, <1>5, <1>6

\* Rerun, TimeOut, TransactionFails and Crash.
LEMMA FaultsInv ==
    ASSUME Inv, NEW p \in Proc, Rerun(p) \/ TimeOut(p) \/ TransactionFails(p) \/ Crash(p)
    PROVE  Preserves
<1>1. TypeOK /\ ProcOK(p)
  BY DEF Inv
<1>2. UNCHANGED row /\ UNCHANGED out /\ Fault
  BY DEF Rerun, TimeOut, TransactionFails, Crash, Release
<1>3. /\ row' \in [Req -> Row] /\ OneRequestPerKey' /\ Shared(p)
      /\ \A r \in Req : RowOK(row[r], stored[r], published[r], expired[r])'
  BY <1>1, <1>2, RowsUnchanged DEF TypeOK
<1>4. CASE Rerun(p)
  <2>1. pc[p] \in InTransaction /\ pc[p] \notin {"idle", "reserve", "insert"}
    BY <1>4 DEF Rerun, InTransaction
  <2>2. CASE pc[p] = "publish"
    <3>1. Proceed(p, "deliver") /\ Release(p) /\ UNCHANGED batch
      BY <1>4, <2>2 DEF Rerun
    <3>2. row'[req[p]].state \in Terminal
      BY <1>1, <1>2, <2>2 DEF ProcOK
    <3> QED BY <1>2, <1>3, <2>1, <3>1, <3>2, ReleaseProceedOK
  <2>3. CASE pc[p] # "publish"
    <3>1. Proceed(p, "complete") /\ Release(p) /\ UNCHANGED batch
      BY <1>4, <2>3 DEF Rerun
    <3> QED BY <1>2, <1>3, <2>1, <3>1, ReleaseProceedOK
  <2> QED BY <2>2, <2>3
<1>5. CASE TimeOut(p)
  <2>1. Unlock(p) /\ UNCHANGED <<row, out, pc, req, call, tx, reply>>
    BY <1>5 DEF TimeOut
  <2>2. /\ lock' \in [Req -> Proc \cup {None}]
        /\ \A r \in Req : lock'[r] # p
        /\ \A r \in Req : \A q \in Proc \ {p} : lock'[r] = q <=> lock[r] = q
    BY <1>1, <2>1, UnlockOK
  <2>3. faults' \in 0 .. MaxFaults
    BY <1>1, <1>2, FaultsOK
  <2>4. TypeOK'
    BY <1>1, <2>1, <2>2, <2>3 DEF TypeOK, out, tx
  <2>5. Others(p)
    BY <2>1, <2>2 DEF Others, tx
  <2>6. ProcOK(p)'
    <3>1. CASE pc[p] \in {"idle", "reserve", "insert"}
      BY <1>5, <3>1 DEF TimeOut, InTransaction
    <3>2. CASE pc[p] \notin {"idle", "reserve", "insert"}
      <4>1. req[p] \in Req
        BY <1>1, <3>2 DEF ProcOK
      <4> QED BY <1>1, <2>1, <2>2, <3>2, <4>1 DEF ProcOK, Reserved, out, tx
    <3> QED BY <3>1, <3>2
  <2> QED BY <1>3, <2>2, <2>4, <2>5, <2>6, StepOK
<1>6. CASE Crash(p)
  <2>1. /\ Answer(p, "none") /\ Release(p) /\ batch' = [batch EXCEPT ![p] = {}]
        /\ "none" \in Answers
    BY <1>6 DEF Crash, Answers
  <2> QED BY <1>2, <1>3, <2>1, ReleaseAnswerOK
<1>7. CASE TransactionFails(p)
  <2>1. /\ pc[p] \notin InTransaction /\ "unknown" \in Answers /\ Answer(p, "unknown")
        /\ UNCHANGED <<row, out, tx, lock>>
    BY <1>7 DEF TransactionFails, InTransaction, Answers
  <2> QED BY <1>2, <2>1, AnswerInv
<1> QED BY <1>4, <1>5, <1>6, <1>7

\* Time passes.
LEMMA TtlInv ==
    ASSUME Inv, NEW r \in Req, TtlPasses(r)
    PROVE  Preserves
<1>1. TypeOK /\ None \notin Proc
  BY NoneIsNobody DEF Inv
<1>2. /\ UNCHANGED <<row, stored, published, lock, pc, req, call, tx, reply, faults>>
      /\ expired' = [expired EXCEPT ![r] = TRUE]
  BY DEF TtlPasses
<1>3. TypeOK'
  BY <1>1, <1>2 DEF TypeOK, tx
<1>4. Others(None) /\ Shared(None)
  BY <1>2 DEF Others, Shared, tx
<1>5. OneRequestPerKey'
  BY <1>2 DEF Inv, OneRequestPerKey, Reserved
<1>6. ASSUME NEW q \in Req
      PROVE  RowOK(row[q], stored[q], published[q], expired[q])'
  <2>1. RowOK(row[q], stored[q], published[q], expired[q])
    BY DEF Inv
  <2>2. /\ row'[q] = row[q] /\ stored'[q] = stored[q] /\ published'[q] = published[q]
        /\ (expired[q] => expired'[q])
    BY <1>1, <1>2 DEF TypeOK
  <2> QED BY <2>1, <2>2 DEF RowOK
<1> QED BY <1>1, <1>3, <1>4, <1>5, <1>6, StepOK

\* A stuttering step.
LEMMA StutterInv == Inv /\ UNCHANGED vars => Preserves
<1> SUFFICES ASSUME Inv, UNCHANGED vars PROVE Preserves
  OBVIOUS
<1>1. UNCHANGED <<row, stored, published, expired, lock, pc, req, call, batch, pending,
                  sent, reply, faults>>
  BY DEF vars, out, tx
<1>2. TypeOK' /\ OneRequestPerKey'
  BY <1>1 DEF Inv, TypeOK, OneRequestPerKey, Reserved
<1>3. \A r \in Req : RowOK(row[r], stored[r], published[r], expired[r])' /\ LockOK(r)'
  BY <1>1 DEF Inv, LockOK
<1>4. \A p \in Proc : ProcOK(p)'
  BY <1>1 DEF Inv, ProcOK, Reserved
<1> QED BY <1>1, <1>2, <1>3, <1>4 DEF Inv, Preserves

\* The induction step: an action at a time.
LEMMA NextInv == Inv /\ [Next]_vars => Preserves
<1> SUFFICES ASSUME Inv, [Next]_vars PROVE Preserves
  OBVIOUS
<1>1. ASSUME NEW p \in Proc, Step(p)
      PROVE  Preserves
  BY <1>1, ReserveInv, ExecuteInv, CompleteInv, PutInv, SaveInv, DeliverInv DEF Step
<1>2. ASSUME NEW p \in Proc, ~Step(p),
             \/ ExpiryWorker(p)
             \/ Rerun(p) \/ TimeOut(p) \/ TransactionFails(p) \/ Crash(p)
             \/ \E k \in Key, y \in Payload : CallExecute(p, k, y)
             \/ \E r \in Req : CallRetry(p, r)
      PROVE  Preserves
  BY <1>2, CallsInv, FaultsInv
<1>3. CASE UNCHANGED vars
  BY <1>3, StutterInv
<1> QED BY <1>1, <1>2, <1>3, TtlInv DEF Next

-----------------------------------------------------------------------------
(* Theorems *)

\* Inv holds in every reachable state: the induction itself.
THEOREM Invariance == Spec => []Inv
<1>1. Init => Inv
  BY InitInv
<1>2. Inv /\ [Next]_vars => Inv'
  BY NextInv DEF Preserves
<1> QED BY <1>1, <1>2, PTL DEF Spec

\* Every variable keeps its type: whatever is written to an execution row by the
\* coordinator is a row, and calls answer with an error or a stored state.
THEOREM TypeCorrect == Spec => []TypeOK
<1>1. Inv => TypeOK
  BY DEF Inv
<1> QED BY <1>1, Invariance, PTL

\* However many callers race in reserve, with whatever payloads, a key has one
\* request.
THEOREM OneRequestPerKeyAlways == Spec => []OneRequestPerKey
<1>1. Inv => OneRequestPerKey
  BY DEF Inv
<1> QED BY <1>1, Invariance, PTL

\* Entity work takes effect with the record, once, for any number of processes
\* that execute, retry, crash, or do not learn the outcome of their commit.
THEOREM DataCommitsWithRecordAlways == Spec => []DataCommitsWithRecord
<1>1. Inv => DataCommitsWithRecord
  BY DEF Inv, RowOK, DataCommitsWithRecord
<1> QED BY <1>1, Invariance, PTL

\* A completed request has its artifact in the store, although the upload precedes
\* the commit that records it and may be repeated, or fail after taking effect.
THEOREM CompletedIsStoredAlways == Spec => []CompletedIsStored
<1>1. Inv => CompletedIsStored
  BY DEF Inv, RowOK, CompletedIsStored
<1> QED BY <1>1, Invariance, PTL

\* Committed work never loses its evidence before the retry payload's TTL.
THEOREM EvidenceIsKeptAlways == Spec => []EvidenceIsKept
<1>1. Inv => EvidenceIsKept
  BY DEF Inv, RowOK, EvidenceIsKept
<1> QED BY <1>1, Invariance, PTL

\* The reason of a failure and the recovery that is advised can be followed, after
\* any number of retries: a retry has its bytes, what expired is gone, and data is
\* to be inspected only where none was committed.
THEOREM AdviceHoldsAlways == Spec => []AdviceHolds
<1>1. Inv => AdviceHolds
  BY DEF Inv, RowOK, AdviceHolds
<1> QED BY <1>1, Invariance, PTL

\* What callbacks have taken was committed first; what is marked delivered was
\* taken.
THEOREM OutboxIsDurableAlways == Spec => []OutboxIsDurable
<1>1. Inv => OutboxIsDurable
  BY DEF Inv, RowOK, OutboxIsDurable
<1> QED BY <1>1, Invariance, PTL

\* No callback has announced what is not so.
THEOREM AnnouncementsAreTrueAlways == Spec => []AnnouncementsAreTrue
<1>1. ASSUME Inv
      PROVE  AnnouncementsAreTrue
  <2>1. \A r \in Req : RowOK(row[r], stored[r], published[r], expired[r])
    BY <1>1 DEF Inv
  <2> QED BY <2>1 DEF RowOK, AnnouncementsAreTrue
<1> QED BY <1>1, Invariance, PTL

\* No call returns a request that is still under way.
THEOREM AnswersAreTerminalAlways == Spec => []AnswersAreTerminal
<1>1. Inv => AnswersAreTerminal
  BY DEF Inv, ProcOK, AnswersAreTerminal
<1> QED BY <1>1, Invariance, PTL

\* A request whose execution failed is never executed again, by any caller or
\* worker, under any interleaving of the two transactions of execute.
THEOREM FailureIsFinal == Spec => FailedIsFinal
<1> DEFINE A == \A r \in Req :
                   row[r].state = "failed" /\ row[r].phase = "pending" =>
                       /\ row'[r].effects = row[r].effects
                       /\ row'[r].phase = "pending" /\ row'[r].state = "failed"
<1>1. Inv /\ [Next]_vars => [A]_vars
  <2> SUFFICES ASSUME Inv, [Next]_vars PROVE A
    OBVIOUS
  <2>1. \A r \in Req : row'[r] = row[r] \/ Grows(row[r], row'[r])
    BY NextInv DEF Preserves
  <2> QED BY <2>1 DEF Grows
<1> QED BY <1>1, Invariance, PTL DEF Spec, FailedIsFinal

\* Nothing undoes a completion, an erasure of expired bytes, a notification intent
\* or a delivery mark.
THEOREM OutcomesStand == Spec => OutcomesAreFinal
<1> DEFINE A == \A r \in Req :
                   /\ row[r].state = "completed" => row'[r].state = "completed"
                   /\ row[r].artifact = "discarded" => row'[r].artifact = "discarded"
                   /\ row[r].notes \subseteq row'[r].notes
                   /\ row[r].delivered \subseteq row'[r].delivered
<1>1. Inv /\ [Next]_vars => [A]_vars
  <2> SUFFICES ASSUME Inv, [Next]_vars PROVE A
    OBVIOUS
  <2>1. \A r \in Req : row'[r] = row[r] \/ Grows(row[r], row'[r])
    BY NextInv DEF Preserves
  <2> QED BY <2>1 DEF Grows
<1> QED BY <1>1, Invariance, PTL DEF Spec, OutcomesAreFinal
-----------------------------------------------------------------------------
(* Refinement *)

\* The request has been executed, or refused for good.
Decided(x) == Life(x) \notin {"absent", "accepted"}

\* A row moves on at most one edge of the life of a request, its entity work takes effect
\* on the one that executes, and intents are added when the request is decided.
MovesOn(x, y) ==
    /\ y.effects = x.effects + (IF Life(x) = "accepted" /\ Life(y) = "executed" THEN 1 ELSE 0)
    /\ \/ Life(y) = Life(x)
       \/ Life(x) = "absent" /\ Life(y) = "accepted"
       \/ Life(x) = "accepted" /\ Life(y) \in {"refused", "executed"}
       \/ Life(x) = "executed" /\ Life(y) \in {"completed", "lost"}
    /\ y.notes = x.notes \/ Decided(y)

\* Nothing is intended to be announced before the request is decided.
NotesFollow == \A r \in Req : row[r].notes # {} => Decided(row[r])

\* What a step does to rows and announcements: nothing, a move of one row, or one
\* announcement that was intended.
Still == UNCHANGED <<row, published>>
Moved ==
    /\ \E r \in Req : \E y \in Row : row' = [row EXCEPT ![r] = y] /\ MovesOn(row[r], y)
    /\ UNCHANGED published
Said ==
    /\ \E r \in Req : \E n \in row[r].notes \cap Note :
        published' = [published EXCEPT ![r] = @ \cup {n}]
    /\ UNCHANGED row

LEMMA ReservedMoves ==
    ASSUME NEW k \in Key, NEW y \in Payload \cup {None}
    PROVE  MovesOn(NoRow, ReservedRow(k, y))
<1> DEFINE z == ReservedRow(k, y)
<1>1. z.key = k /\ z.state = "created" /\ z.phase = "pending" /\ z.notes = {} /\ z.effects = 0
  BY DEF ReservedRow, NoRow
<1>2. Life(z) = "accepted"  BY <1>1, NoneIsNobody DEF Life
<1>3. Life(NoRow) = "absent" /\ NoRow.effects = 0 /\ NoRow.notes = {}  BY DEF Life, NoRow
<1> QED BY <1>1, <1>2, <1>3 DEF MovesOn

LEMMA ExecutedMoves ==
    ASSUME NEW x \in Row, x.key # None, ~Settled(x)
    PROVE  MovesOn(x, Executed(x))
<1> DEFINE y == Executed(x)
<1>1. /\ y.key = x.key /\ y.effects = x.effects + 1 /\ y.phase = "data_committed"
      /\ y.artifact = "held"
  BY DEF Executed, Row
<1>2. Life(x) = "accepted" /\ Life(y) = "executed"  BY <1>1 DEF Life, Settled
<1> QED BY <1>1, <1>2 DEF MovesOn, Decided

LEMMA FailedMoves ==
    ASSUME NEW x \in Row, x.key # None, ~Settled(x), NEW residual \in BOOLEAN
    PROVE  MovesOn(x, Failed(x, residual))
<1> DEFINE y == Failed(x, residual)
<1>1. y.key = x.key /\ y.effects = x.effects /\ y.phase = x.phase /\ y.state = "failed"
  BY DEF Failed, Row
<1>2. Life(x) = "accepted" /\ Life(y) = "refused"  BY <1>1 DEF Life, Settled
<1>3. x.effects \in Nat  BY DEF Row
<1> QED BY <1>1, <1>2, <1>3 DEF MovesOn, Decided

LEMMA DiscardedMoves ==
    ASSUME NEW x \in Row, x.key # None, Settled(x), Expirable(x)
    PROVE  MovesOn(x, Discarded(x))
<1> DEFINE y == Discarded(x)
<1>1. /\ y.key = x.key /\ y.effects = x.effects /\ y.phase = x.phase /\ y.state = "failed"
      /\ y.artifact = "discarded"
  BY DEF Discarded, Row
<1>2. x.effects \in Nat /\ x.phase \in {"pending", "data_committed"} /\ x.artifact = "held"
  BY DEF Row, Expirable, Held
<1>3. \/ Life(x) = "refused" /\ Life(y) = "refused"
      \/ Life(x) = "executed" /\ Life(y) = "lost"
  BY <1>1, <1>2 DEF Life, Settled
<1> QED BY <1>1, <1>2, <1>3 DEF MovesOn, Decided

LEMMA UploadedMoves ==
    ASSUME NEW x \in Row, x.key # None, Settled(x), Held(x)
    PROVE  MovesOn(x, Uploaded(x))
<1> DEFINE y == Uploaded(x)
<1>1. x.effects \in Nat /\ x.phase \in {"pending", "data_committed", "completed"}
  BY DEF Row
<1>2. CASE x.phase = "pending"
  <2>1. y.key = x.key /\ y.effects = x.effects /\ y.phase = x.phase /\ y.state = x.state
    BY <1>2 DEF Uploaded, Row
  <2>2. Life(x) = "refused" /\ Life(y) = "refused"  BY <1>2, <2>1 DEF Life, Settled
  <2> QED BY <1>1, <2>1, <2>2 DEF MovesOn, Decided
<1>3. CASE x.phase # "pending"
  <2>1. y.key = x.key /\ y.effects = x.effects /\ y.phase = "completed"
    BY <1>3 DEF Uploaded, Row
  <2>2. Life(x) \in {"executed", "completed"} /\ Life(y) = "completed"
    BY <1>1, <1>3, <2>1 DEF Life, Held
  <2> QED BY <1>1, <2>1, <2>2 DEF MovesOn, Decided
<1> QED BY <1>2, <1>3

LEMMA NotUploadedMoves ==
    ASSUME NEW x \in Row, x.key # None, Settled(x), Held(x)
    PROVE  MovesOn(x, NotUploaded(x))
<1> DEFINE y == NotUploaded(x)
<1>1. x.effects \in Nat  BY DEF Row
<1>2. /\ y.key = x.key /\ y.effects = x.effects /\ y.phase = x.phase /\ y.artifact = x.artifact
      /\ y.state = x.state \/ x.phase # "pending" \/ y.state = "failed"
  BY DEF NotUploaded, Row
<1>3. Life(y) = Life(x) /\ Life(x) \notin {"absent", "accepted"}
  BY <1>2 DEF Life, Settled
<1> QED BY <1>1, <1>2, <1>3 DEF MovesOn, Decided

LEMMA DeliveredMoves ==
    ASSUME NEW x \in Row, NEW done
    PROVE  MovesOn(x, Delivered(x, done))
<1> DEFINE y == Delivered(x, done)
<1>1. x.effects \in Nat  BY DEF Row
<1>2. /\ y.key = x.key /\ y.effects = x.effects /\ y.phase = x.phase /\ y.artifact = x.artifact
      /\ y.state = x.state /\ y.notes = x.notes
  BY DEF Delivered, Row
<1>3. Life(y) = Life(x)  BY <1>2 DEF Life
<1> QED BY <1>1, <1>2, <1>3 DEF MovesOn

\* What the commit of a transaction with external calls may do.
LEMMA CommitHeldMoves ==
    ASSUME Inv, NEW p \in Proc, pc[p] \in InTransaction, NEW x \in Row, NEW Then,
           CommitHeld(p, x, Then), lock[req[p]] = p => MovesOn(row[req[p]], x)
    PROVE  Still \/ Moved
<1>1. pc[p] \notin {"idle", "reserve", "insert"}  BY DEF InTransaction
<1>2. req[p] \in Req  BY <1>1, Working
<1>3. UNCHANGED published  BY DEF CommitHeld, Release, out
<1>4. CASE UNCHANGED row  BY <1>3, <1>4 DEF Still
<1>5. CASE lock[req[p]] = p /\ Write(req[p], x)
  BY <1>2, <1>3, <1>5 DEF Moved, Write
<1> QED BY <1>4, <1>5 DEF CommitHeld

\* reserve inserts over a blank row.
LEMMA InsertMoves ==
    ASSUME Inv, NEW p \in Proc, pc[p] = "insert", NEW r \in Req, Insert(p, r),
           UNCHANGED published
    PROVE  Moved
<1>1. call[p][1] \in Key /\ call[p][2] \in Payload \cup {None}
  <2>1. call[p] \in (Key \cup {None}) \X (Payload \cup {None})  BY DEF Inv, TypeOK
  <2>2. call[p][1] # None  BY DEF Inv, ProcOK
  <2> QED BY <2>1, <2>2
<1>2. row[r] = NoRow
  <2>1. RowOK(row[r], stored[r], published[r], expired[r])  BY DEF Inv
  <2> QED BY <2>1 DEF RowOK, Insert, Reserved
<1> DEFINE x == ReservedRow(call[p][1], call[p][2])
<1>3. x \in Row  BY <1>1, ReservedRowOK
<1>4. MovesOn(row[r], x)  BY <1>1, <1>2, ReservedMoves
<1>5. row' = [row EXCEPT ![r] = x]  BY DEF Insert, Write
<1> HIDE DEF x
<1> QED BY <1>3, <1>4, <1>5 DEF Moved

LEMMA ReserveMoves ==
    ASSUME Inv, NEW p \in Proc,
           ReserveRead(p) \/ ReserveInsert(p) \/ ReserveConflict(p) \/ ReserveFails(p)
    PROVE  Still \/ Moved
<1>1. CASE ReserveRead(p) \/ ReserveConflict(p)
  BY <1>1 DEF ReserveRead, ReserveConflict, Still, out
<1>2. CASE ReserveInsert(p)
  <2>1. pc[p] = "insert" /\ UNCHANGED published  BY <1>2 DEF ReserveInsert, out
  <2>2. PICK r \in Req : Insert(p, r)  BY <1>2 DEF ReserveInsert
  <2> QED BY <2>1, <2>2, InsertMoves
<1>3. CASE ReserveFails(p)
  <2>1. UNCHANGED published  BY <1>3 DEF ReserveFails, out
  <2>2. CASE UNCHANGED row  BY <2>1, <2>2 DEF Still
  <2>3. CASE pc[p] = "insert" /\ \E r \in Req : Insert(p, r)  BY <2>1, <2>3, InsertMoves
  <2> QED BY <1>3, <2>2, <2>3 DEF ReserveFails
<1> QED BY <1>1, <1>2, <1>3

LEMMA ExecuteMoves ==
    ASSUME Inv, NEW p \in Proc,
           \/ ExecuteSettled(p) \/ ExecuteCommits(p) \/ ExecuteThrows(p)
           \/ RecordFailure(p) \/ FailureOvertaken(p)
    PROVE  Still \/ Moved
<1> DEFINE x == row[req[p]]
<1>1. CASE ExecuteSettled(p) \/ ExecuteThrows(p) \/ FailureOvertaken(p)
  BY <1>1 DEF ExecuteSettled, ExecuteThrows, FailureOvertaken, ReadOnly, Still, out
<1>2. CASE ExecuteCommits(p)
  <2>1. /\ pc[p] \notin {"idle", "reserve", "insert"} /\ ~Settled(x)
        /\ Write(req[p], Executed(x)) /\ UNCHANGED published
    BY <1>2 DEF ExecuteCommits, At, Commit, out
  <2>2. /\ req[p] \in Req /\ x \in Row /\ x.key # None
        /\ RowOK(x, stored[req[p]], published[req[p]], expired[req[p]])
    BY <2>1, Working
  <2>3. Executed(x) \in Row  BY <2>1, <2>2, ExecutedOK
  <2>4. MovesOn(x, Executed(x))  BY <2>1, <2>2, ExecutedMoves
  <2> QED BY <2>1, <2>2, <2>3, <2>4 DEF Moved, Write
<1>3. CASE RecordFailure(p)
  <2> DEFINE residual == pc[p] = "recordResidual"
  <2>1. /\ pc[p] \notin {"idle", "reserve", "insert"} /\ ~Settled(x)
        /\ Write(req[p], Failed(x, residual)) /\ UNCHANGED published
    BY <1>3 DEF RecordFailure, At, Commit, out
  <2>2. /\ req[p] \in Req /\ x \in Row /\ x.key # None /\ residual \in BOOLEAN
        /\ RowOK(x, stored[req[p]], published[req[p]], expired[req[p]])
    BY <2>1, Working
  <2> HIDE DEF residual
  <2>3. Failed(x, residual) \in Row  BY <2>1, <2>2, FailedOK
  <2>4. MovesOn(x, Failed(x, residual))  BY <2>1, <2>2, FailedMoves
  <2> QED BY <2>1, <2>2, <2>3, <2>4 DEF Moved, Write
<1> QED BY <1>1, <1>2, <1>3

LEMMA CompleteMoves ==
    ASSUME Inv, NEW p \in Proc,
           \/ CompleteRejected(p) \/ NothingToUpload(p) \/ ExpireArtifact(p)
           \/ StartUpload(p) \/ PutSucceeds(p) \/ PutThrows(p)
           \/ SaveUploaded(p) \/ SaveUploadFailed(p)
    PROVE  Still \/ Moved
<1> DEFINE x == row[req[p]]
<1>1. CASE CompleteRejected(p) \/ NothingToUpload(p) \/ StartUpload(p)
  BY <1>1 DEF CompleteRejected, NothingToUpload, StartUpload, ReadOnly, Hold, Still, out
<1>2. CASE PutSucceeds(p) \/ PutThrows(p)
  BY <1>2 DEF PutSucceeds, PutThrows, Still
<1>3. CASE ExpireArtifact(p)
  <2>1. /\ pc[p] \notin {"idle", "reserve", "insert"} /\ Settled(x) /\ Expirable(x)
        /\ Write(req[p], Discarded(x)) /\ UNCHANGED published
    BY <1>3 DEF ExpireArtifact, At, Commit, out
  <2>2. req[p] \in Req /\ x \in Row /\ x.key # None  BY <2>1, Working
  <2>3. Discarded(x) \in Row
    <3>1. x.notes \cup Both("expired") \in SUBSET Note
      BY <2>2, NotesType DEF Row, Event, Position
    <3>2. CASE x.phase = "data_committed"
      BY <2>2, <3>1, <3>2, ZenonT(60) DEF Discarded, Row
    <3>3. CASE x.phase # "data_committed"
      BY <2>2, <3>1, <3>3, ZenonT(60) DEF Discarded, Row
    <3> QED BY <3>2, <3>3
  <2>4. MovesOn(x, Discarded(x))  BY <2>1, <2>2, DiscardedMoves
  <2> QED BY <2>1, <2>2, <2>3, <2>4 DEF Moved, Write
<1>4. CASE SaveUploaded(p) \/ SaveUploadFailed(p)
  <2>1. /\ pc[p] \in {"put", "saveUploaded", "saveUploadFailed"} /\ pc[p] \in InTransaction
        /\ pc[p] \notin {"idle", "reserve", "insert"}
    BY <1>4 DEF SaveUploaded, SaveUploadFailed, InTransaction
  <2>2. req[p] \in Req /\ x \in Row /\ x.key # None  BY <2>1, Working
  <2>3. lock[req[p]] = p => Held(x) /\ Settled(x)  BY <2>1 DEF Inv, ProcOK
  <2>4. \A e \in Event : x.notes \cup Both(e) \in SUBSET Note  BY <2>2, NotesType DEF Row
  <2>5. CASE SaveUploaded(p)
    <3>1. CommitHeld(p, Uploaded(x), Proceed(p, "deliver"))  BY <2>5 DEF SaveUploaded
    <3>2. Uploaded(x) \in Row  BY <2>2, <2>4, ZenonT(60) DEF Uploaded, Row, Event, Position
    <3>3. lock[req[p]] = p => MovesOn(x, Uploaded(x))  BY <2>2, <2>3, UploadedMoves
    <3> QED BY <2>1, <3>1, <3>2, <3>3, CommitHeldMoves
  <2>6. CASE SaveUploadFailed(p)
    <3>1. CommitHeld(p, NotUploaded(x), Proceed(p, "deliver"))  BY <2>6 DEF SaveUploadFailed
    <3>2. NotUploaded(x) \in Row  BY <2>2, <2>4, ZenonT(60) DEF NotUploaded, Row, Event, Position
    <3>3. lock[req[p]] = p => MovesOn(x, NotUploaded(x))  BY <2>2, <2>3, NotUploadedMoves
    <3> QED BY <2>1, <3>1, <3>2, <3>3, CommitHeldMoves
  <2> QED BY <1>4, <2>5, <2>6
<1> QED BY <1>1, <1>2, <1>3, <1>4

LEMMA DeliverMoves ==
    ASSUME Inv, NEW p \in Proc,
           NothingToDeliver(p) \/ StartDelivery(p) \/ Publish(p) \/ SaveDelivered(p)
    PROVE  Still \/ Moved \/ Said
<1>1. CASE NothingToDeliver(p) \/ StartDelivery(p)
  BY <1>1 DEF NothingToDeliver, StartDelivery, Hold, Still, out
<1>2. CASE Publish(p)
  <2>1. PICK n \in pending[p] :
           UNCHANGED published \/ published' = [published EXCEPT ![req[p]] = @ \cup {n}]
    BY <1>2 DEF Publish
  <2>2. pc[p] = "publish" /\ pc[p] \notin {"idle", "reserve", "insert"} /\ UNCHANGED row
    BY <1>2 DEF Publish
  <2>3. req[p] \in Req /\ row[req[p]] \in Row  BY <2>2, Working
  <2>4. n \in row[req[p]].notes  BY <2>1, <2>2 DEF Inv, ProcOK
  <2>5. n \in Note  BY <2>3, <2>4 DEF Row
  <2> QED BY <2>1, <2>2, <2>3, <2>4, <2>5 DEF Still, Said
<1>3. CASE SaveDelivered(p)
  <2>1. /\ pc[p] = "publish" /\ pc[p] \in InTransaction
        /\ pc[p] \notin {"idle", "reserve", "insert"}
        /\ CommitHeld(p, Delivered(row[req[p]], sent[p]), AnswerStored(p))
    BY <1>3 DEF SaveDelivered, InTransaction
  <2>2. row[req[p]] \in Row /\ sent[p] \in SUBSET Note  BY <2>1, Working DEF Inv, TypeOK
  <2>3. Delivered(row[req[p]], sent[p]) \in Row
    <3>1. row[req[p]].delivered \cup sent[p] \in SUBSET Note  BY <2>2 DEF Row
    <3> QED BY <2>2, <3>1 DEF Delivered, Row
  <2>4. MovesOn(row[req[p]], Delivered(row[req[p]], sent[p]))  BY <2>2, DeliveredMoves
  <2> QED BY <2>1, <2>3, <2>4, CommitHeldMoves
<1> QED BY <1>1, <1>2, <1>3

\* Every step is of one of the three kinds.
LEMMA StepMoves == ASSUME Inv, [Next]_vars PROVE Still \/ Moved \/ Said
<1>1. ASSUME NEW p \in Proc, Step(p) PROVE Still \/ Moved \/ Said
  BY <1>1, ReserveMoves, ExecuteMoves, CompleteMoves, DeliverMoves DEF Step
<1>2. ASSUME NEW p \in Proc, ExpiryWorker(p) PROVE Still
  BY <1>2 DEF ExpiryWorker, ListExpired, ExpireNext, Begin, Still, out
<1>3. ASSUME NEW p \in Proc, Rerun(p) \/ TimeOut(p) \/ TransactionFails(p) \/ Crash(p)
      PROVE  Still
  BY <1>3 DEF Rerun, TimeOut, TransactionFails, Crash, Release, Still, out
<1>4. ASSUME NEW p \in Proc,
             \/ \E k \in Key, y \in Payload : CallExecute(p, k, y)
             \/ \E r \in Req : CallRetry(p, r)
      PROVE  Still
  BY <1>4 DEF CallExecute, CallRetry, Begin, Still, out
<1>5. ASSUME NEW r \in Req, TtlPasses(r) PROVE Still  BY <1>5 DEF TtlPasses, Still
<1>6. CASE UNCHANGED vars  BY <1>6 DEF vars, out, Still
<1> QED BY <1>1, <1>2, <1>3, <1>4, <1>5, <1>6 DEF Next

\* Decisions stand, and so do the intents that follow them.
LEMMA NotesStillFollow == ASSUME Inv, NotesFollow, [Next]_vars PROVE NotesFollow'
<1>1. CASE Still \/ Said  BY <1>1 DEF Still, Said, NotesFollow
<1>2. CASE Moved
  <2>1. PICK r \in Req, y \in Row : row' = [row EXCEPT ![r] = y] /\ MovesOn(row[r], y)
    BY <1>2 DEF Moved
  <2>2. row'[r] = y /\ \A q \in Req \ {r} : row'[q] = row[q]
    BY <2>1 DEF Inv, TypeOK
  <2>3. y.notes # {} => Decided(y)
    BY <2>1 DEF MovesOn, NotesFollow, Decided
  <2> QED BY <2>2, <2>3 DEF NotesFollow
<1> QED BY <1>1, <1>2, StepMoves

-----------------------------------------------------------------------------
(* ... of the abstract steps *)

\* What is intended of a request is true of it in the abstract life, too.
LEMMA IntentsAreTrue ==
    ASSUME Inv, NotesFollow, NEW r \in Req, NEW n \in row[r].notes
    PROVE  Life(row[r]) \in Lifecycle!Truth(n[2])
<1> DEFINE x == row[r]
<1>1. x \in Row /\ RowOK(x, stored[r], published[r], expired[r])  BY DEF Inv, TypeOK
<1>2. Decided(x)  BY DEF NotesFollow
<1>3. Life(x) \in {"refused", "executed", "completed", "lost"}
  BY <1>2 DEF Decided, Life
<1>4. CASE n[2] = "erasure_requested"
  <2>1. x.effects = 1  BY <1>1, <1>4 DEF RowOK
  <2>2. x.phase # "pending"  BY <1>1, <2>1 DEF RowOK
  <2>3. Life(x) # "refused"  BY <2>2 DEF Life
  <2> QED BY <1>3, <1>4, <2>3 DEF Lifecycle!Truth
<1>5. CASE n[2] = "completed"
  <2>1. x.state = "completed"  BY <1>1, <1>5 DEF RowOK
  <2>2. x.phase = "completed"  BY <1>1, <2>1 DEF RowOK
  <2>3. Life(x) = "completed"  BY <1>2, <2>2 DEF Life, Decided
  <2> QED BY <1>5, <2>3 DEF Lifecycle!Truth
<1>6. CASE n[2] = "expired"
  <2>1. x.artifact = "discarded"  BY <1>1, <1>6 DEF RowOK
  <2>2. x.phase # "completed"  BY <1>1, <2>1 DEF RowOK
  <2>3. Life(x) \in {"refused", "lost"}  BY <1>2, <2>1, <2>2 DEF Life, Decided
  <2> QED BY <1>6, <2>3 DEF Lifecycle!Truth
<1>7. CASE n[2] \notin {"erasure_requested", "completed", "expired"}
  BY <1>3, <1>7 DEF Lifecycle!Truth, Lifecycle!Status
<1> QED BY <1>4, <1>5, <1>6, <1>7

LEMMA MovedMaps == ASSUME Inv, Moved PROVE [Lifecycle!Next]_(Lifecycle!vars)
<1>1. PICK r \in Req, y \in Row : row' = [row EXCEPT ![r] = y] /\ MovesOn(row[r], y)
  BY DEF Moved
<1>2. row'[r] = y /\ \A q \in Req \ {r} : row'[q] = row[q]
  BY <1>1 DEF Inv, TypeOK
<1>3. row[r].effects \in Nat  BY DEF Inv, TypeOK, Row
<1> DEFINE status == [q \in Req |-> Life(row[q])]
           times == [q \in Req |-> row[q].effects]
<1>4. [q \in Req |-> {n[2] : n \in published'[q]}] = [q \in Req |-> {n[2] : n \in published[q]}]
  BY DEF Moved
<1>5. [q \in Req |-> Life(row'[q])] = [status EXCEPT ![r] = Life(y)]
  BY <1>2
<1>6. status[r] = Life(row[r])  OBVIOUS
<1>7. CASE Life(row[r]) = "accepted" /\ Life(y) = "executed"
  <2>1. [q \in Req |-> row'[q].effects] = [times EXCEPT ![r] = @ + 1]
    <3>1. y.effects = row[r].effects + 1  BY <1>1, <1>7 DEF MovesOn
    <3>2. row'[r].effects = times[r] + 1  BY <1>2, <3>1
    <3> QED BY <1>2, <3>2
  <2>2. Lifecycle!Execute(r)
    BY <1>4, <1>5, <1>6, <1>7, <2>1 DEF Lifecycle!Execute, Lifecycle!Move
  <2> QED BY <2>2 DEF Lifecycle!Next
<1>8. CASE ~(Life(row[r]) = "accepted" /\ Life(y) = "executed")
  <2>1. [q \in Req |-> row'[q].effects] = times
    BY <1>1, <1>2, <1>3, <1>8 DEF MovesOn
  <2>2. CASE Life(y) = Life(row[r])
    <3>1. [q \in Req |-> Life(row'[q])] = status  BY <1>2, <2>2
    <3> QED BY <1>4, <2>1, <3>1 DEF Lifecycle!vars
  <2>3. CASE Life(row[r]) = "absent" /\ Life(y) = "accepted"
    <3>1. Lifecycle!Accept(r)
      BY <1>4, <1>5, <1>6, <2>1, <2>3 DEF Lifecycle!Accept, Lifecycle!Move
    <3> QED BY <3>1 DEF Lifecycle!Next
  <2>4. CASE Life(row[r]) = "accepted" /\ Life(y) = "refused"
    <3>1. Lifecycle!Refuse(r)
      BY <1>4, <1>5, <1>6, <2>1, <2>4 DEF Lifecycle!Refuse, Lifecycle!Move
    <3> QED BY <3>1 DEF Lifecycle!Next
  <2>5. CASE Life(row[r]) = "executed" /\ Life(y) = "completed"
    <3>1. Lifecycle!Complete(r)
      BY <1>4, <1>5, <1>6, <2>1, <2>5 DEF Lifecycle!Complete, Lifecycle!Move
    <3> QED BY <3>1 DEF Lifecycle!Next
  <2>6. CASE Life(row[r]) = "executed" /\ Life(y) = "lost"
    <3>1. Lifecycle!Lose(r)
      BY <1>4, <1>5, <1>6, <2>1, <2>6 DEF Lifecycle!Lose, Lifecycle!Move
    <3> QED BY <3>1 DEF Lifecycle!Next
  <2> QED BY <1>1, <1>8, <2>2, <2>3, <2>4, <2>5, <2>6 DEF MovesOn
<1> QED BY <1>7, <1>8

LEMMA SaidMaps == ASSUME Inv, NotesFollow, Said PROVE Lifecycle!Next
<1>0. PICK r \in Req : \E n \in row[r].notes \cap Note :
         published' = [published EXCEPT ![r] = @ \cup {n}]
  BY DEF Said
<1>1. PICK n \in row[r].notes \cap Note : published' = [published EXCEPT ![r] = @ \cup {n}]
  BY <1>0
<1>2. published'[r] = published[r] \cup {n} /\ \A q \in Req \ {r} : published'[q] = published[q]
  BY <1>1 DEF Inv, TypeOK
<1> DEFINE heard == [q \in Req |-> {m[2] : m \in published[q]}]
<1>3. {m[2] : m \in published'[r]} = {m[2] : m \in published[r]} \cup {n[2]}  BY <1>2
<1>4. [q \in Req |-> {m[2] : m \in published'[q]}] = [heard EXCEPT ![r] = @ \cup {n[2]}]
  BY <1>2, <1>3
<1>5. n[2] \in Lifecycle!Event  BY DEF Note, Event, Position, Lifecycle!Event
<1>6. Life(row[r]) \in Lifecycle!Truth(n[2])  BY IntentsAreTrue
<1>7. UNCHANGED row  BY DEF Said
<1>8. Lifecycle!Announce(r, n[2])  BY <1>4, <1>6, <1>7 DEF Lifecycle!Announce
<1> QED BY <1>5, <1>8 DEF Lifecycle!Next

\* Durable execution implements the life of a request, whatever callers race, whatever
\* transactions time out, run again or do not answer.
THEOREM DurableImplementsLifecycle == Spec => ImplementsLifecycle
<1>1. Init => Lifecycle!Init
  BY DEF Init, Lifecycle!Init, NoRow, Life
<1>2. Init => NotesFollow  BY DEF Init, NotesFollow, NoRow
<1>3. Inv /\ NotesFollow /\ [Next]_vars => NotesFollow'  BY NotesStillFollow
<1>4. Inv /\ NotesFollow /\ [Next]_vars => [Lifecycle!Next]_(Lifecycle!vars)
  <2> SUFFICES ASSUME Inv, NotesFollow, [Next]_vars
               PROVE  [Lifecycle!Next]_(Lifecycle!vars)
    OBVIOUS
  <2>1. CASE Still  BY <2>1 DEF Still, Lifecycle!vars
  <2>2. CASE Moved  BY <2>2, MovedMaps
  <2>3. CASE Said  BY <2>3, SaidMaps
  <2> QED BY <2>1, <2>2, <2>3, StepMoves
<1> QED BY <1>1, <1>2, <1>3, <1>4, Invariance, PTL DEF Spec, ImplementsLifecycle, Lifecycle!Spec
===============================================================================
