-------------------------- MODULE ImmediateExecution --------------------------
(***************************************************************************)
(* A request without a durable store: DataSubjectService.execute            *)
(* (src/src/data-subject.service.ts) on a RequestStorage.                   *)
(*                                                                         *)
(* One call goes through its steps in order, and each step is a call of     *)
(* something that the host supplies.  Such a call succeeds, fails without   *)
(* an effect, or fails although it took effect; the process may die between *)
(* any two.  No transaction spans two steps, so what the row says is all    *)
(* that is known of a request that stopped halfway.                         *)
(***************************************************************************)
EXTENDS Naturals

CONSTANTS
    Caller,  \* calls under way at the same time
    Req,     \* what the host's idFactory returns, more than once perhaps
    None     \* no request, no advice

Channel == {"outbox", "audit"}
Stage == {"request_created", "processing", "data_execution", "artifact_write",
          "completion_persistence"}
Outcome == {"not_started", "unknown", "completed"}
Recovery == {"retry_request", "inspect_data", "retry_artifact", "reconcile_request"}

ASSUME NoneIsNew == None \notin Req \cup Outcome \cup Recovery

VARIABLES
    row,       \* the stored requests
    work,      \* the entity work of a request: none, partial or all of it
    stored,    \* its artifact is in the artifact store
    heard,     \* the notifications that took effect
    pc, req,   \* the step a call is at, for which request
    type,      \* erase or export
    stage, outcome, artifact, result, lost,  \* locals of execute
    did,       \* history: the entity work of the call
    reply      \* how the last call ended

locals == <<req, type, did, stage, outcome, artifact, result, lost>>
vars   == <<row, work, stored, heard, pc, locals, reply>>

Row == [state: {"none", "created", "processing", "completed", "failed"},
        outcome: Outcome \cup {None},           \* stats.lifecycle
        recovery: Recovery \cup {None},
        artifact: {"none", "hash", "url"},      \* artifactHash, artifactUrl
        lost: SUBSET Channel]                   \* notificationFailures

NoRow == [state |-> "none", outcome |-> None, recovery |-> None, artifact |-> "none",
          lost |-> {}]

-----------------------------------------------------------------------------
(* Control *)

Goto(p, label) == pc' = [pc EXCEPT ![p] = label]
Set(f, p, value) == [f EXCEPT ![p] = value]

\* The call ends: returned, a stored request, or thrown, an error.
End(p, how, what) ==
    /\ Goto(p, "idle")
    /\ reply' = Set(reply, p, [req |-> req[p], how |-> how, what |-> what])

\* DataSubjectPersistenceError with what is known of the data.
PersistenceError(p, known) == End(p, "thrown", known)

\* A call whose success has an effect and goes on, and whose failure, with the effect
\* or without, goes to the catch block.
Try(p, Effect, Nothing, label) ==
    \/ Effect /\ Goto(p, label)
    \/ (Effect \/ Nothing) /\ Goto(p, "fail")

\* The same where the failure is answered with a DataSubjectPersistenceError.
TryOrThrow(p, Effect, Nothing, label) ==
    \/ Effect /\ Goto(p, label) /\ UNCHANGED reply
    \/ (Effect \/ Nothing) /\ PersistenceError(p, outcome[p])

Update(p, x) == row' = [row EXCEPT ![req[p]] = x]
Publish(p, channel, event) ==
    heard' = [heard EXCEPT ![req[p]] = @ \cup {<<channel, event>>}]

At(p, label) == pc[p] = label

-----------------------------------------------------------------------------
Init ==
    /\ row = [r \in Req |-> NoRow]
    /\ work = [r \in Req |-> "none"]
    /\ stored = [r \in Req |-> FALSE]
    /\ heard = [r \in Req |-> {}]
    /\ pc = [p \in Caller |-> "idle"]
    /\ req = [p \in Caller |-> None]
    /\ type = [p \in Caller |-> "erase"]
    /\ did = [p \in Caller |-> "none"]
    /\ stage = [p \in Caller |-> "request_created"]
    /\ outcome = [p \in Caller |-> "not_started"]
    /\ artifact = [p \in Caller |-> "none"]
    /\ result = [p \in Caller |-> "failed"]
    /\ lost = [p \in Caller |-> {}]
    /\ reply = [p \in Caller |-> [req |-> None, how |-> "none", what |-> None]]

\* execute up to createRequest; a preview that is not valid is refused before.
Call(p, t, r) ==
    /\ At(p, "idle") /\ Goto(p, "insert")
    /\ req' = Set(req, p, r) /\ type' = Set(type, p, t)
    /\ did' = Set(did, p, "none")
    /\ stage' = Set(stage, p, "request_created")
    /\ outcome' = Set(outcome, p, "not_started")
    /\ artifact' = Set(artifact, p, "none")
    /\ result' = Set(result, p, "failed")
    /\ lost' = Set(lost, p, {})
    /\ reply' = Set(reply, p, [req |-> None, how |-> "none", what |-> None])
    /\ UNCHANGED <<row, work, stored, heard>>

Insertable(p) == row[req[p]].state = "none"

Insert(p) ==
    /\ At(p, "insert")
    /\ \/ /\ Insertable(p)
          /\ TryOrThrow(p, Update(p, [NoRow EXCEPT !.state = "created"]),
                        UNCHANGED row, "announce_outbox")
       \/ /\ ~Insertable(p)
          /\ \E what \in {"conflict", "not_started"} : End(p, "thrown", what)
          /\ UNCHANGED row
    /\ UNCHANGED <<work, stored, heard, locals>>

\* request_created, to the outbox and then to the audit log.
AnnounceCreated(p, channel, label) ==
    /\ At(p, IF channel = "outbox" THEN "announce_outbox" ELSE "announce_audit")
    /\ Try(p, Publish(p, channel, "created"), UNCHANGED heard, label)
    /\ UNCHANGED <<row, work, stored, locals, reply>>

MarkProcessing(p) ==
    /\ At(p, "processing")
    /\ stage' = Set(stage, p, "processing")
    /\ Try(p, Update(p, [row[req[p]] EXCEPT !.state = "processing",
                                            !.outcome = "not_started"]),
           UNCHANGED row, "announce_processing")
    /\ UNCHANGED <<work, stored, heard, req, type, did, outcome, artifact, result, lost, reply>>

AnnounceProcessing(p) ==
    /\ At(p, "announce_processing")
    /\ Try(p, Publish(p, "audit", "processing"), UNCHANGED heard, "doubt")
    /\ UNCHANGED <<row, work, stored, locals, reply>>

\* Mutant: the row is only told when the data work is done.
UnknownLate(x) == x

Unknown(x) == [x EXCEPT !.outcome = "unknown"]

\* 'Persist uncertainty before any data work'.
MarkUnknown(p) ==
    /\ At(p, "doubt")
    /\ \/ /\ Update(p, Unknown(row[req[p]])) /\ Goto(p, "work")
          /\ outcome' = Set(outcome, p, "unknown")
          /\ stage' = Set(stage, p, "data_execution")
       \/ /\ Update(p, Unknown(row[req[p]])) \/ UNCHANGED row
          /\ Goto(p, "fail")
          /\ UNCHANGED <<outcome, stage>>
    /\ UNCHANGED <<work, stored, heard, req, type, did, artifact, result, lost, reply>>

\* EraseRunner.run or ExportRunner.prepare.  An erasure announces itself when it has
\* found what to erase.  With runInTransaction a failure leaves none of its writes, or
\* all of them if the commit did not answer; without, it leaves any part of them.
Work(p) ==
    /\ At(p, "work")
    /\ \/ /\ work' = [work EXCEPT ![req[p]] = "all"]
          /\ outcome' = Set(outcome, p, "completed")
          /\ IF type[p] = "erase"
             THEN /\ Publish(p, "outbox", "erasure_requested")
                  /\ Goto(p, "evidence")
                  /\ stage' = Set(stage, p, "artifact_write")
             ELSE /\ UNCHANGED heard
                  /\ Goto(p, "save")
                  /\ stage' = Set(stage, p, "completion_persistence")
       \/ /\ Goto(p, "fail")
          /\ IF type[p] = "erase"
             THEN \/ UNCHANGED <<work, heard>>
                  \/ /\ Publish(p, "outbox", "erasure_requested")
                     /\ \E part \in {"none", "partial", "all"} :
                            work' = [work EXCEPT ![req[p]] = part]
             ELSE UNCHANGED <<work, heard>>
          /\ UNCHANGED <<outcome, stage>>
    /\ did' = Set(did, p, work'[req[p]])
    /\ UNCHANGED <<row, stored, req, type, artifact, result, lost, reply>>

BuildEvidence(p) ==
    /\ At(p, "evidence")
    /\ \/ Goto(p, "save") /\ stage' = Set(stage, p, "completion_persistence")
       \/ Goto(p, "fail") /\ UNCHANGED stage
    /\ UNCHANGED <<row, work, stored, heard, req, type, did, outcome, artifact, result, lost,
                   reply>>

SaveStats(p) ==
    /\ At(p, "save")
    /\ \/ /\ Update(p, [row[req[p]] EXCEPT !.outcome = outcome[p]]) /\ Goto(p, "put")
          /\ stage' = Set(stage, p, "artifact_write")
          /\ artifact' = Set(artifact, p, "hash")
       \/ /\ \/ Update(p, [row[req[p]] EXCEPT !.outcome = outcome[p]])
             \/ UNCHANGED row
          /\ Goto(p, "fail")
          /\ UNCHANGED <<stage, artifact>>
    /\ UNCHANGED <<work, stored, heard, req, type, did, outcome, result, lost, reply>>

PutArtifact(p) ==
    /\ At(p, "put")
    /\ \/ /\ stored' = [stored EXCEPT ![req[p]] = TRUE] /\ Goto(p, "complete")
          /\ stage' = Set(stage, p, "completion_persistence")
          /\ artifact' = Set(artifact, p, "url")
       \/ /\ stored' = [stored EXCEPT ![req[p]] = TRUE] \/ UNCHANGED stored
          /\ Goto(p, "fail")
          /\ UNCHANGED <<stage, artifact>>
    /\ UNCHANGED <<row, work, heard, req, type, did, outcome, result, lost, reply>>

Complete(p) ==
    /\ At(p, "complete")
    /\ LET Completed == Update(p, [row[req[p]] EXCEPT
                !.state = "completed", !.outcome = outcome[p], !.artifact = artifact[p]])
       IN  \/ Completed /\ Goto(p, "notify_outbox") /\ result' = Set(result, p, "completed")
           \/ (Completed \/ UNCHANGED row) /\ Goto(p, "fail") /\ UNCHANGED result
    /\ UNCHANGED <<work, stored, heard, req, type, did, stage, outcome, artifact, lost, reply>>

-----------------------------------------------------------------------------
(* The catch block and what follows it *)

RecoveryFor(st, out) ==
    IF st = "artifact_write" THEN "retry_artifact"
    ELSE IF st = "completion_persistence" THEN "reconcile_request"
    ELSE IF out = "not_started" THEN "retry_request" ELSE "inspect_data"

FailedRow(x, st, out, art) ==
    [x EXCEPT !.state = "failed", !.outcome = out, !.recovery = RecoveryFor(st, out),
              !.artifact = art]

RecordFailure(p) ==
    /\ At(p, "fail")
    /\ result' = Set(result, p, "failed")
    /\ TryOrThrow(p, Update(p, FailedRow(row[req[p]], stage[p], outcome[p], artifact[p])),
                  UNCHANGED row, "notify_outbox")
    /\ UNCHANGED <<work, stored, heard, req, type, did, stage, outcome, artifact, lost>>

\* Mutant: a refused notification is forgotten.
LostForgotten(p, channel) == lost[p]

Lost(p, channel) == lost[p] \cup {channel}

\* request_completed or request_failed; a failure is remembered.
Notify(p, channel, label) ==
    /\ At(p, IF channel = "outbox" THEN "notify_outbox" ELSE "notify_audit")
    /\ Goto(p, label)
    /\ \/ Publish(p, channel, result[p]) /\ UNCHANGED lost
       \/ /\ Publish(p, channel, result[p]) \/ UNCHANGED heard
          /\ lost' = Set(lost, p, Lost(p, channel))
    /\ UNCHANGED <<row, work, stored, req, type, did, stage, outcome, artifact, result, reply>>

SaveLost(p) ==
    /\ At(p, "save_lost")
    /\ \/ lost[p] = {} /\ Goto(p, "load") /\ UNCHANGED <<row, reply>>
       \/ /\ lost[p] # {}
          /\ TryOrThrow(p, Update(p, [row[req[p]] EXCEPT !.lost = lost[p]]),
                        UNCHANGED row, "load")
    /\ UNCHANGED <<work, stored, heard, locals>>

Load(p) ==
    /\ At(p, "load")
    /\ \/ End(p, "returned", row[req[p]].state)
       \/ PersistenceError(p, outcome[p])
    /\ UNCHANGED <<row, work, stored, heard, locals>>

Crash(p) ==
    /\ ~At(p, "idle") /\ Goto(p, "idle")
    /\ UNCHANGED <<row, work, stored, heard, locals, reply>>

-----------------------------------------------------------------------------
Step(p) ==
    \/ Insert(p)
    \/ AnnounceCreated(p, "outbox", "announce_audit")
    \/ AnnounceCreated(p, "audit", "processing")
    \/ MarkProcessing(p) \/ AnnounceProcessing(p) \/ MarkUnknown(p)
    \/ Work(p) \/ BuildEvidence(p) \/ SaveStats(p) \/ PutArtifact(p) \/ Complete(p)
    \/ RecordFailure(p)
    \/ Notify(p, "outbox", "notify_audit") \/ Notify(p, "audit", "save_lost")
    \/ SaveLost(p) \/ Load(p)

Next ==
    \E p \in Caller :
        \/ \E t \in {"erase", "export"}, r \in Req : Call(p, t, r)
        \/ Step(p) \/ Crash(p)

Spec == Init /\ [][Next]_vars

-----------------------------------------------------------------------------
(* Properties *)

Label == {"idle", "insert", "announce_outbox", "announce_audit", "processing",
          "announce_processing", "doubt", "work", "evidence", "save", "put", "complete",
          "fail", "notify_outbox", "notify_audit", "save_lost", "load"}

\* Types.
TypeOK ==
    /\ row \in [Req -> Row]
    /\ work \in [Req -> {"none", "partial", "all"}]
    /\ stored \in [Req -> BOOLEAN]
    /\ heard \in [Req -> SUBSET (Channel \X {"created", "processing", "erasure_requested",
                                             "completed", "failed"})]
    /\ pc \in [Caller -> Label]
    /\ req \in [Caller -> Req \cup {None}]
    /\ type \in [Caller -> {"erase", "export"}]
    /\ did \in [Caller -> {"none", "partial", "all"}]
    /\ stage \in [Caller -> Stage] /\ outcome \in [Caller -> Outcome]
    /\ artifact \in [Caller -> {"none", "hash", "url"}]
    /\ result \in [Caller -> {"completed", "failed"}]
    /\ lost \in [Caller -> SUBSET Channel]
    /\ reply \in [Caller -> [req: Req \cup {None}, how: {"none", "returned", "thrown"},
                    what: Outcome \cup {"failed", "conflict", None}]]

\* What an outcome claims of the entity work.
Claim(out, done) ==
    /\ out \in {None, "not_started"} => done = "none"
    /\ out = "completed" => done = "all"

\* Neither the stored request, nor the error that a caller gets when the storage fails,
\* claims that the data work has not begun when some of it may have happened, or that
\* it is done when it is not: not while the call runs, nor when it stopped anywhere,
\* whatever the storage did with the updates.  So the advice to try again is only given
\* where the data is untouched, and to mend the artifact or the row only where the work
\* is done; and a completed request has done its work, and its artifact is in the store
\* where the row says, which no row says of an artifact that is not.
OutcomesAreTrue ==
    /\ \A r \in Req :
        /\ Claim(row[r].outcome, work[r])
        /\ row[r].recovery = "retry_request" => work[r] = "none"
        /\ row[r].recovery \in {"retry_artifact", "reconcile_request"} => work[r] = "all"
        /\ row[r].state = "completed" => row[r].artifact = "url" /\ row[r].outcome = "completed"
        /\ row[r].artifact = "url" => stored[r]
    /\ \A p \in Caller :
        reply[p].how = "thrown" /\ reply[p].what \in Outcome => Claim(reply[p].what, did[p])

\* Types; and what was announced of the end of a request is what is stored, and stays so.
\* A caller that has its request back has it in that state, and each notification of it
\* that was not accepted is recorded in it.
AnnouncementsAreTrue ==
    /\ TypeOK
    /\ \A r \in Req : \A channel \in Channel : \A end \in {"completed", "failed"} :
        <<channel, end>> \in heard[r] => row[r].state = end
    /\ \A p \in Caller :
        reply[p].how = "returned" =>
            LET r == reply[p].req
            IN  /\ row[r].state = reply[p].what
                /\ row[r].state \in {"completed", "failed"}
                /\ \A channel \in Channel :
                    <<channel, row[r].state>> \in heard[r] \/ channel \in row[r].lost
===============================================================================
