------------------------ MODULE ImmediateExecutionProofs ------------------------
(***************************************************************************)
(* What is proved of the immediate execution, for any calls and requests.   *)
(*                                                                         *)
(* No lock protects a request, and the host's ids may collide: what keeps   *)
(* calls apart is that createRequest refuses an id that it has stored.  So  *)
(* the inductive invariant IInv says that a request belongs to at most one  *)
(* call (Alone), what a call knows of its own request at each step          *)
(* (CallOK), what is true of every request, owned or abandoned (RequestOK), *)
(* and what the answer of a call still says after others went on (ReplyOK). *)
(***************************************************************************)
EXTENDS ImmediateExecution, TLAPS

-----------------------------------------------------------------------------
(* The invariant *)

Early  == {"announce_outbox", "announce_audit", "processing", "announce_processing", "doubt"}
Late   == {"evidence", "save", "put", "complete"}
Ending == {"notify_outbox", "notify_audit", "save_lost", "load"}

\* The call has inserted the row of request r, and is not over.
Owns(p, r) == pc[p] \notin {"idle", "insert"} /\ req[p] = r

Alone == \A p, q \in Caller : \A r \in Req : Owns(p, r) /\ Owns(q, r) => p = q

Untold(r) ==
    \A channel \in Channel : \A end \in {"completed", "failed"} : <<channel, end>> \notin heard[r]

RequestOK(r) ==
    /\ row[r].state = "none" =>
        row[r] = NoRow /\ work[r] = "none" /\ stored[r] = FALSE /\ heard[r] = {}
    /\ Claim(row[r].outcome, work[r])
    /\ row[r].recovery = "retry_request" => work[r] = "none"
    /\ row[r].recovery \in {"retry_artifact", "reconcile_request"} => work[r] = "all"
    /\ row[r].state = "completed" => row[r].artifact = "url" /\ row[r].outcome = "completed"
    /\ row[r].artifact = "url" => stored[r]
    /\ \A channel \in Channel : \A end \in {"completed", "failed"} :
        <<channel, end>> \in heard[r] => row[r].state = end

\* A call that owns its request: its locals say of the work what is true, the row is not
\* ahead of them, and the end is announced after it is stored.
OwnerOK(p) ==
    /\ row[req[p]].state # "none"
    /\ did[p] = work[req[p]] /\ Claim(outcome[p], work[req[p]])
    /\ stage[p] \in {"artifact_write", "completion_persistence"} => outcome[p] = "completed"
    /\ artifact[p] = "url" => stored[req[p]]
    /\ pc[p] \in Early =>
        /\ outcome[p] = "not_started" /\ stage[p] \in {"request_created", "processing"}
        /\ row[req[p]].outcome \in {None, "not_started"}
    /\ pc[p] = "work" =>
        outcome[p] = "unknown" /\ work[req[p]] = "none" /\ row[req[p]].outcome = "unknown"
    /\ pc[p] \in Late => outcome[p] = "completed"
    /\ pc[p] = "complete" => artifact[p] = "url"
    /\ pc[p] \in Early \cup {"work"} \cup Late =>
        row[req[p]].state \in {"created", "processing"} /\ row[req[p]].recovery = None
    /\ pc[p] \notin {"notify_audit", "save_lost", "load"} => Untold(req[p])
    /\ pc[p] \in Ending => row[req[p]].state = result[p]
    /\ pc[p] \in {"notify_audit", "save_lost"} =>
        <<"outbox", result[p]>> \in heard[req[p]] \/ "outbox" \in lost[p]
    /\ pc[p] = "save_lost" => <<"audit", result[p]>> \in heard[req[p]] \/ "audit" \in lost[p]
    /\ pc[p] = "load" =>
        \A channel \in Channel :
            <<channel, result[p]>> \in heard[req[p]] \/ channel \in row[req[p]].lost

CallOK(p) ==
    /\ pc[p] # "idle" => req[p] \in Req /\ reply[p].how = "none"
    /\ pc[p] = "insert" => /\ did[p] = "none" /\ outcome[p] = "not_started"
                           /\ stage[p] = "request_created" /\ artifact[p] = "none"
    /\ pc[p] \notin {"idle", "insert"} => OwnerOK(p)

\* A request that was returned belongs to no call any more, and stays as it is.
Returned(p, r) ==
    /\ r \in Req /\ \A q \in Caller : ~Owns(q, r)
    /\ row[r].state = reply[p].what /\ row[r].state \in {"completed", "failed"}
    /\ \A channel \in Channel :
        <<channel, row[r].state>> \in heard[r] \/ channel \in row[r].lost

ReplyOK(p) ==
    /\ reply[p].how = "returned" => Returned(p, reply[p].req)
    /\ reply[p].how = "thrown" /\ reply[p].what \in Outcome => Claim(reply[p].what, did[p])

IInv ==
    /\ TypeOK /\ Alone
    /\ \A r \in Req : RequestOK(r)
    /\ \A p \in Caller : CallOK(p) /\ ReplyOK(p)

-----------------------------------------------------------------------------
(* Steps *)

Others(p) ==
    \A q \in Caller \ {p} :
        /\ pc'[q] = pc[q] /\ req'[q] = req[q] /\ type'[q] = type[q] /\ stage'[q] = stage[q]
        /\ outcome'[q] = outcome[q] /\ artifact'[q] = artifact[q] /\ result'[q] = result[q]
        /\ lost'[q] = lost[q] /\ did'[q] = did[q] /\ reply'[q] = reply[q]

Same(r) ==
    row'[r] = row[r] /\ work'[r] = work[r] /\ stored'[r] = stored[r] /\ heard'[r] = heard[r]

\* A call only touches a request of its own, or one that nobody has stored.
LEMMA StepKeeps ==
    ASSUME IInv, NEW p \in Caller, TypeOK', Others(p),
           \A r \in Req : Same(r) \/ (RequestOK(r)' /\ (Owns(p, r) \/ row[r].state = "none")),
           \A r \in Req : Owns(p, r)' => Owns(p, r) \/ row[r].state = "none",
           CallOK(p)', ReplyOK(p)'
    PROVE  IInv'
<1>1. TypeOK /\ Alone /\ (\A r \in Req : RequestOK(r)) /\ \A q \in Caller : CallOK(q) /\ ReplyOK(q)
  BY DEF IInv
<1>2. \A r \in Req : RequestOK(r)'
  <2> SUFFICES ASSUME NEW r \in Req, Same(r) PROVE RequestOK(r)'
    OBVIOUS
  <2>1. RequestOK(r)  BY <1>1
  <2> QED  BY <2>1 DEF RequestOK, Same
<1>3. ASSUME NEW q \in Caller, NEW r \in Req, Owns(q, r) PROVE row[r].state # "none"
  BY <1>1, <1>3 DEF CallOK, OwnerOK, Owns
<1>4. Alone'
  <2> SUFFICES ASSUME NEW q \in Caller, NEW s \in Caller, NEW r \in Req, Owns(q, r)', Owns(s, r)'
               PROVE  q = s
    BY DEF Alone
  <2>1. \A u \in Caller \ {p} : Owns(u, r)' = Owns(u, r)  BY DEF Others, Owns
  <2> QED  BY <1>1, <1>3, <2>1 DEF Alone
<1>5. ASSUME NEW q \in Caller \ {p} PROVE CallOK(q)'
  <2>1. CallOK(q)  BY <1>1
  <2>2. CASE pc[q] \in {"idle", "insert"}  BY <2>1, <2>2 DEF CallOK, Others
  <2>3. CASE pc[q] \notin {"idle", "insert"}
    <3>1. PICK r \in Req : req[q] = r  BY <2>1, <2>3 DEF CallOK
    <3>2. Same(r)  BY <1>1, <1>3, <2>3, <3>1 DEF Owns, Alone
    <3>3. OwnerOK(q)  BY <2>1, <2>3 DEF CallOK
    <3>4. /\ pc'[q] = pc[q] /\ req'[q] = r /\ stage'[q] = stage[q] /\ outcome'[q] = outcome[q]
          /\ artifact'[q] = artifact[q] /\ result'[q] = result[q] /\ lost'[q] = lost[q]
          /\ did'[q] = did[q]
      BY <3>1 DEF Others
    <3>5. Untold(r)' <=> Untold(r)  BY <3>2 DEF Untold, Same
    <3>6. OwnerOK(q)'  BY <3>1, <3>2, <3>3, <3>4, <3>5 DEF OwnerOK, Same
    <3> QED  BY <2>1, <2>3, <3>6 DEF CallOK, Others
  <2> QED  BY <2>2, <2>3
<1>6. ASSUME NEW q \in Caller \ {p} PROVE ReplyOK(q)'
  <2>1. ReplyOK(q)  BY <1>1
  <2>2. ASSUME reply[q].how = "returned" PROVE Returned(q, reply[q].req)'
    <3>1. PICK r \in Req : reply[q].req = r  BY <2>1, <2>2 DEF ReplyOK, Returned
    <3>2. Returned(q, r)  BY <2>1, <2>2, <3>1 DEF ReplyOK
    <3>3. Same(r)  BY <3>2 DEF Returned
    <3>4. \A s \in Caller : ~Owns(s, r)'
      <4>1. ~Owns(p, r)'  BY <3>2 DEF Returned
      <4>2. \A s \in Caller \ {p} : Owns(s, r)' = Owns(s, r)  BY DEF Others, Owns
      <4> QED  BY <3>2, <4>1, <4>2 DEF Returned
    <3> QED  BY <3>1, <3>2, <3>3, <3>4 DEF Returned, Same, Others
  <2> QED  BY <2>1, <2>2 DEF ReplyOK, Others
<1> QED  BY <1>2, <1>4, <1>5, <1>6 DEF IInv

\* What a step of a call that owns its request has to show.
LEMMA OwnerStep ==
    ASSUME IInv, NEW p \in Caller, NEW r \in Req, Owns(p, r), TypeOK', Others(p),
           \A i \in Req \ {r} : Same(i), req'[p] = r, RequestOK(r)', CallOK(p)',
           reply'[p].how = "none" \/ ReplyOK(p)'
    PROVE  IInv'
<1>1. \A i \in Req : Same(i) \/ (RequestOK(i)' /\ Owns(p, i))  OBVIOUS
<1>2. \A i \in Req : Owns(p, i)' => Owns(p, i)  BY DEF Owns
<1>3. ReplyOK(p)'  BY DEF ReplyOK
<1> QED  BY <1>1, <1>2, <1>3, StepKeeps

-----------------------------------------------------------------------------
(* The call and its row *)

\* The types that a single step disturbs, each by itself.
LEMMA RowTyped == IInv => row \in [Req -> Row]  BY DEF IInv, TypeOK
LEMMA PcTyped == IInv => pc \in [Caller -> Label]  BY DEF IInv, TypeOK
LEMMA StageTyped == IInv => stage \in [Caller -> Stage]  BY DEF IInv, TypeOK
LEMMA OutcomeTyped == IInv => outcome \in [Caller -> Outcome]  BY DEF IInv, TypeOK
LEMMA ArtifactTyped == IInv => artifact \in [Caller -> {"none", "hash", "url"}]  BY DEF IInv, TypeOK
LEMMA ResultTyped == IInv => result \in [Caller -> {"completed", "failed"}]  BY DEF IInv, TypeOK
LEMMA StoredTyped == IInv => stored \in [Req -> BOOLEAN]  BY DEF IInv, TypeOK
LEMMA DidTyped == IInv => did \in [Caller -> {"none", "partial", "all"}]  BY DEF IInv, TypeOK
LEMMA LostTyped == IInv => lost \in [Caller -> SUBSET Channel]  BY DEF IInv, TypeOK
LEMMA HeardTyped ==
    IInv => heard \in [Req -> SUBSET (Channel \X {"created", "processing", "erasure_requested",
                                                 "completed", "failed"})]
BY DEF IInv, TypeOK
LEMMA ReplyTyped ==
    IInv => reply \in [Caller -> [req: Req \cup {None}, how: {"none", "returned", "thrown"},
                                 what: Outcome \cup {"failed", "conflict", None}]]
BY DEF IInv, TypeOK

LEMMA RowFields ==
    ASSUME NEW x \in Row
    PROVE  /\ x.state \in {"none", "created", "processing", "completed", "failed"}
           /\ x.outcome \in Outcome \cup {None} /\ x.recovery \in Recovery \cup {None}
           /\ x.artifact \in {"none", "hash", "url"} /\ x.lost \in SUBSET Channel
BY DEF Row

LEMMA Mine ==
    ASSUME IInv, NEW p \in Caller, pc[p] \notin {"idle", "insert"}
    PROVE  \E r \in Req : /\ req[p] = r /\ Owns(p, r) /\ row[r] \in Row
                          /\ OwnerOK(p) /\ RequestOK(r) /\ reply[p].how = "none"
BY DEF IInv, CallOK, Owns, TypeOK

LEMMA CallKeeps ==
    ASSUME IInv, NEW p \in Caller, NEW t \in {"erase", "export"}, NEW r \in Req, Call(p, t, r)
    PROVE  IInv'
<1>1. TypeOK' /\ Others(p) /\ (\A i \in Req : Same(i))
  BY DEF IInv, TypeOK, Call, Goto, Set, At, Others, Same, Stage, Outcome, Label
<1>2. /\ pc'[p] = "insert" /\ req'[p] = r /\ reply'[p].how = "none" /\ did'[p] = "none"
      /\ outcome'[p] = "not_started" /\ stage'[p] = "request_created" /\ artifact'[p] = "none"
  BY DEF IInv, TypeOK, Call, Goto, Set
<1>3. CallOK(p)' /\ ReplyOK(p)' /\ \A i \in Req : ~Owns(p, i)'
  BY <1>2 DEF CallOK, ReplyOK, Owns
<1> QED  BY <1>1, <1>3, StepKeeps

LEMMA InsertKeeps == ASSUME IInv, NEW p \in Caller, Insert(p) PROVE IInv'
<1>1. PICK r \in Req : /\ req[p] = r /\ reply[p].how = "none" /\ did[p] = "none"
                       /\ outcome[p] = "not_started" /\ stage[p] = "request_created"
                       /\ artifact[p] = "none"
  BY DEF IInv, CallOK, Insert, At
<1> DEFINE new == [NoRow EXCEPT !.state = "created"]
<1>2. /\ new \in Row /\ new.state = "created" /\ new.outcome = None /\ new.recovery = None
      /\ new.artifact = "none" /\ new.lost = {}
  BY DEF NoRow, Row
<1> HIDE DEF new
<1>3. /\ UNCHANGED <<work, stored, heard, req, type, did, stage, outcome, artifact, result, lost>>
      /\ row' = row \/ (row[r].state = "none" /\ row' = [row EXCEPT ![r] = new])
      /\ \/ /\ row[r].state = "none" /\ row' = [row EXCEPT ![r] = new]
            /\ pc' = [pc EXCEPT ![p] = "announce_outbox"] /\ UNCHANGED reply
         \/ /\ pc' = [pc EXCEPT ![p] = "idle"]
            /\ \E what \in {"conflict", "not_started"} :
                  reply' = [reply EXCEPT ![p] = [req |-> r, how |-> "thrown", what |-> what]]
  BY <1>1 DEF Insert, Insertable, TryOrThrow, PersistenceError, End, Update, Goto, Set, new, locals
<1>4. TypeOK' /\ Others(p) /\ (\A i \in Req \ {r} : Same(i))
  <2>1. row' \in [Req -> Row]  BY <1>2, <1>3, RowTyped
  <2>2. reply' \in [Caller -> [req: Req \cup {None}, how: {"none", "returned", "thrown"},
                              what: Outcome \cup {"failed", "conflict", None}]]
    <3>1. \/ UNCHANGED reply
          \/ \E what \in Outcome \cup {"failed", "conflict", None} :
                reply' = [reply EXCEPT ![p] = [req |-> r, how |-> "thrown", what |-> what]]
      BY <1>3 DEF Outcome
    <3> QED  BY <3>1, ReplyTyped
  <2>3. pc' \in [Caller -> Label]  BY <1>3, PcTyped DEF Label
  <2>4. TypeOK'  BY <1>3, <2>1, <2>2, <2>3 DEF IInv, TypeOK
  <2> QED  BY <1>3, <2>4 DEF IInv, TypeOK, Others, Same
<1>5. CASE row' = row /\ pc'[p] = "idle"
  <2>1. Same(r) /\ \A i \in Req : ~Owns(p, i)'  BY <1>3, <1>5 DEF Same, Owns
  <2>2. ReplyOK(p)'  BY <1>1, <1>3, <1>5 DEF ReplyOK, Claim, IInv, TypeOK, Outcome
  <2>3. CallOK(p)'  BY <1>5 DEF CallOK
  <2> QED  BY <1>4, <2>1, <2>2, <2>3, StepKeeps
<1>6. CASE row[r].state = "none" /\ row' = [row EXCEPT ![r] = new]
  <2>1. row'[r] = new  BY <1>6 DEF IInv, TypeOK
  <2>2. /\ work[r] = "none" /\ stored[r] = FALSE /\ heard[r] = {}
    BY <1>6 DEF IInv, RequestOK
  <2>3. RequestOK(r)'
    BY <1>2, <1>3, <2>1, <2>2, NoneIsNew DEF RequestOK, Claim, Recovery, Outcome
  <2>4. CallOK(p)' /\ ReplyOK(p)'
    <3>1. CASE pc'[p] = "idle"
      BY <1>1, <1>3, <3>1 DEF CallOK, ReplyOK, Claim, IInv, TypeOK, Outcome
    <3>2. CASE pc'[p] = "announce_outbox" /\ UNCHANGED reply
      BY <1>1, <1>2, <1>3, <2>1, <2>2, <3>2
         DEF CallOK, OwnerOK, ReplyOK, Claim, Untold, Early, Late, Ending
    <3> QED  BY <1>3, <3>1, <3>2 DEF IInv, TypeOK
  <2>5. \A i \in Req : Owns(p, i)' => i = r  BY <1>1, <1>3 DEF Owns
  <2> QED  BY <1>4, <1>6, <2>3, <2>4, <2>5, StepKeeps
<1> QED  BY <1>3, <1>5, <1>6 DEF IInv, TypeOK

LEMMA AnnounceCreatedKeeps ==
    ASSUME IInv, NEW p \in Caller,
           \/ AnnounceCreated(p, "outbox", "announce_audit")
           \/ AnnounceCreated(p, "audit", "processing")
    PROVE  IInv'
<1>1. pc[p] \in {"announce_outbox", "announce_audit"}  BY DEF AnnounceCreated, At
<1>2. PICK r \in Req : /\ req[p] = r /\ Owns(p, r) /\ row[r] \in Row
                       /\ OwnerOK(p) /\ RequestOK(r) /\ reply[p].how = "none"
  BY <1>1, Mine
<1>3. /\ UNCHANGED <<row, work, stored, req, type, did, stage, outcome, artifact, result, lost, reply>>
      /\ \E label \in {"announce_audit", "processing", "fail"} : pc' = [pc EXCEPT ![p] = label]
      /\ \E told \in {{}, {<<"outbox", "created">>}, {<<"audit", "created">>}} :
            heard' = [heard EXCEPT ![r] = @ \cup told]
  BY <1>2 DEF AnnounceCreated, Try, Publish, Goto, locals, IInv, TypeOK
<1>4. TypeOK' /\ Others(p) /\ (\A i \in Req \ {r} : Same(i)) /\ req'[p] = r /\ reply'[p].how = "none"
  BY <1>2, <1>3 DEF IInv, TypeOK, Others, Same, Label, Channel
<1>5. Untold(r) /\ Untold(r)'
  BY <1>1, <1>2, <1>3 DEF OwnerOK, Untold, IInv, TypeOK
<1>6. RequestOK(r)'
  BY <1>2, <1>3, <1>5 DEF RequestOK, OwnerOK, Untold
<1>7. CallOK(p)'
  BY <1>1, <1>2, <1>3, <1>5 DEF CallOK, OwnerOK, Early, Late, Ending, IInv, TypeOK
<1> QED  BY <1>2, <1>4, <1>6, <1>7, OwnerStep

LEMMA MarkProcessingKeeps == ASSUME IInv, NEW p \in Caller, MarkProcessing(p) PROVE IInv'
<1>1. PICK r \in Req : /\ req[p] = r /\ Owns(p, r) /\ row[r] \in Row
                       /\ OwnerOK(p) /\ RequestOK(r) /\ reply[p].how = "none"
  BY Mine DEF MarkProcessing, At
<1> DEFINE x == [row[r] EXCEPT !.state = "processing", !.outcome = "not_started"]
<1>2. /\ x \in Row /\ x.state = "processing" /\ x.outcome = "not_started"
      /\ x.recovery = row[r].recovery /\ x.artifact = row[r].artifact
  BY <1>1 DEF Row, Outcome
<1> HIDE DEF x
<1>3. /\ pc[p] = "processing"
      /\ UNCHANGED <<work, stored, heard, req, type, did, outcome, artifact, result, lost, reply>>
      /\ stage' = [stage EXCEPT ![p] = "processing"]
      /\ \E label \in {"announce_processing", "fail"} : pc' = [pc EXCEPT ![p] = label]
      /\ row' = [row EXCEPT ![r] = x] \/ (row' = row /\ pc' = [pc EXCEPT ![p] = "fail"])
  BY <1>1 DEF MarkProcessing, Try, Update, Set, Goto, At, x
<1>4. TypeOK' /\ Others(p) /\ (\A i \in Req \ {r} : Same(i)) /\ req'[p] = r /\ reply'[p].how = "none"
  <2>1. row' \in [Req -> Row]  BY <1>2, <1>3, RowTyped
  <2>2. stage' \in [Caller -> Stage]  BY <1>3, StageTyped DEF Stage
  <2>3. pc' \in [Caller -> Label]  BY <1>3, PcTyped DEF Label
  <2>4. TypeOK'  BY <1>3, <2>1, <2>2, <2>3 DEF IInv, TypeOK
  <2> QED  BY <1>1, <1>3, <2>4 DEF IInv, TypeOK, Others, Same
<1>5. /\ row'[r] = x \/ (row'[r] = row[r] /\ pc'[p] = "fail")
      /\ pc'[p] \in {"announce_processing", "fail"} /\ stage'[p] = "processing"
  BY <1>3 DEF IInv, TypeOK
<1>6. Untold(r) /\ Untold(r)' /\ outcome[p] = "not_started" /\ work[r] = "none"
      /\ row[r].recovery = None
  BY <1>1, <1>3 DEF OwnerOK, Early, Untold, Claim
<1>7. RequestOK(r)'
  BY <1>1, <1>2, <1>3, <1>5, <1>6, NoneIsNew DEF RequestOK, Untold, Claim, Recovery
<1>8. CallOK(p)'
  BY <1>1, <1>2, <1>3, <1>5, <1>6 DEF CallOK, OwnerOK, Early, Late, Ending, Claim
<1> QED  BY <1>1, <1>4, <1>7, <1>8, OwnerStep

LEMMA AnnounceProcessingKeeps ==
    ASSUME IInv, NEW p \in Caller, AnnounceProcessing(p) PROVE IInv'
<1>1. PICK r \in Req : /\ req[p] = r /\ Owns(p, r) /\ row[r] \in Row
                       /\ OwnerOK(p) /\ RequestOK(r) /\ reply[p].how = "none"
  BY Mine DEF AnnounceProcessing, At
<1>2. /\ pc[p] = "announce_processing"
      /\ UNCHANGED <<row, work, stored, req, type, did, stage, outcome, artifact, result, lost, reply>>
      /\ \E label \in {"doubt", "fail"} : pc' = [pc EXCEPT ![p] = label]
      /\ \E told \in {{}, {<<"audit", "processing">>}} : heard' = [heard EXCEPT ![r] = @ \cup told]
  BY <1>1 DEF AnnounceProcessing, At, Try, Publish, Goto, locals, IInv, TypeOK
<1>3. TypeOK' /\ Others(p) /\ (\A i \in Req \ {r} : Same(i)) /\ req'[p] = r /\ reply'[p].how = "none"
  BY <1>1, <1>2 DEF IInv, TypeOK, Others, Same, Label, Channel
<1>4. Untold(r) /\ Untold(r)'
  BY <1>1, <1>2 DEF OwnerOK, Untold, IInv, TypeOK
<1>5. RequestOK(r)'  BY <1>1, <1>2, <1>4 DEF RequestOK, OwnerOK, Untold
<1>6. CallOK(p)'
  BY <1>1, <1>2, <1>4 DEF CallOK, OwnerOK, Early, Late, Ending, IInv, TypeOK
<1> QED  BY <1>1, <1>3, <1>5, <1>6, OwnerStep

LEMMA MarkUnknownKeeps == ASSUME IInv, NEW p \in Caller, MarkUnknown(p) PROVE IInv'
<1>1. PICK r \in Req : /\ req[p] = r /\ Owns(p, r) /\ row[r] \in Row
                       /\ OwnerOK(p) /\ RequestOK(r) /\ reply[p].how = "none"
  BY Mine DEF MarkUnknown, At
<1> DEFINE x == Unknown(row[r])
<1>2. /\ x \in Row /\ x.state = row[r].state /\ x.outcome = "unknown"
      /\ x.recovery = row[r].recovery /\ x.artifact = row[r].artifact
  BY <1>1 DEF Row, Outcome, Unknown
<1> HIDE DEF x
<1>3. /\ pc[p] = "doubt"
      /\ UNCHANGED <<work, stored, heard, req, type, did, artifact, result, lost, reply>>
      /\ \/ /\ row' = [row EXCEPT ![r] = x] /\ pc' = [pc EXCEPT ![p] = "work"]
            /\ outcome' = [outcome EXCEPT ![p] = "unknown"]
            /\ stage' = [stage EXCEPT ![p] = "data_execution"]
         \/ /\ row' = row \/ row' = [row EXCEPT ![r] = x]
            /\ pc' = [pc EXCEPT ![p] = "fail"] /\ UNCHANGED <<outcome, stage>>
  BY <1>1 DEF MarkUnknown, Update, Set, Goto, At, x
<1>4. TypeOK' /\ Others(p) /\ (\A i \in Req \ {r} : Same(i)) /\ req'[p] = r /\ reply'[p].how = "none"
  <2>1. row' \in [Req -> Row]  BY <1>2, <1>3, RowTyped
  <2>2. stage' \in [Caller -> Stage]  BY <1>3, StageTyped DEF Stage
  <2>3. outcome' \in [Caller -> Outcome]  BY <1>3, OutcomeTyped DEF Outcome
  <2>4. pc' \in [Caller -> Label]  BY <1>3, PcTyped DEF Label
  <2>5. TypeOK'  BY <1>3, <2>1, <2>2, <2>3, <2>4 DEF IInv, TypeOK
  <2> QED  BY <1>1, <1>3, <2>5 DEF IInv, TypeOK, Others, Same
<1>5. \/ /\ row'[r] = x /\ pc'[p] = "work" /\ outcome'[p] = "unknown"
         /\ stage'[p] = "data_execution"
      \/ /\ row'[r] = row[r] \/ row'[r] = x
         /\ pc'[p] = "fail" /\ UNCHANGED <<outcome, stage>>
  BY <1>3 DEF IInv, TypeOK
<1>6. Untold(r) /\ Untold(r)' /\ outcome[p] = "not_started" /\ work[r] = "none"
      /\ row[r].recovery = None /\ row[r].state \in {"created", "processing"}
  BY <1>1, <1>3 DEF OwnerOK, Early, Untold, Claim
<1>7. RequestOK(r)'
  BY <1>1, <1>2, <1>3, <1>5, <1>6, NoneIsNew DEF RequestOK, Untold, Claim, Recovery, Outcome
<1>8. CallOK(p)'
  BY <1>1, <1>2, <1>3, <1>5, <1>6 DEF CallOK, OwnerOK, Early, Late, Ending, Claim
<1> QED  BY <1>1, <1>4, <1>7, <1>8, OwnerStep

LEMMA WorkKeeps == ASSUME IInv, NEW p \in Caller, Work(p) PROVE IInv'
<1>1. PICK r \in Req : /\ req[p] = r /\ Owns(p, r) /\ row[r] \in Row
                       /\ OwnerOK(p) /\ RequestOK(r) /\ reply[p].how = "none"
  BY Mine DEF Work, At
<1>2. /\ pc[p] = "work"
      /\ UNCHANGED <<row, stored, req, type, artifact, result, lost, reply>>
      /\ \E part \in {"none", "partial", "all"} : work' = [work EXCEPT ![r] = part]
      /\ \E told \in {{}, {<<"outbox", "erasure_requested">>}} :
            heard' = [heard EXCEPT ![r] = @ \cup told]
      /\ did' = [did EXCEPT ![p] = work'[r]]
      /\ \/ /\ work' = [work EXCEPT ![r] = "all"]
            /\ outcome' = [outcome EXCEPT ![p] = "completed"]
            /\ \E label \in {"evidence", "save"} : pc' = [pc EXCEPT ![p] = label]
            /\ \E st \in {"artifact_write", "completion_persistence"} :
                  stage' = [stage EXCEPT ![p] = st]
         \/ pc' = [pc EXCEPT ![p] = "fail"] /\ UNCHANGED <<outcome, stage>>
  <2>1. /\ \E part \in {"none", "partial", "all"} : work' = [work EXCEPT ![r] = part]
        /\ \E told \in {{}, {<<"outbox", "erasure_requested">>}} :
              heard' = [heard EXCEPT ![r] = @ \cup told]
    BY <1>1 DEF Work, Publish, IInv, TypeOK
  <2> QED  BY <1>1, <2>1 DEF Work, Set, Goto, At
<1>3. TypeOK' /\ Others(p) /\ (\A i \in Req \ {r} : Same(i)) /\ req'[p] = r /\ reply'[p].how = "none"
  <2>1. work' \in [Req -> {"none", "partial", "all"}] /\ work'[r] \in {"none", "partial", "all"}
    BY <1>2 DEF IInv, TypeOK
  <2>2. did' \in [Caller -> {"none", "partial", "all"}]  BY <1>2, <2>1, DidTyped
  <2>3. heard' \in [Req -> SUBSET (Channel \X {"created", "processing", "erasure_requested",
                                             "completed", "failed"})]
    BY <1>2 DEF IInv, TypeOK, Channel
  <2>4. stage' \in [Caller -> Stage]  BY <1>2, StageTyped DEF Stage
  <2>5. outcome' \in [Caller -> Outcome]  BY <1>2, OutcomeTyped DEF Outcome
  <2>6. pc' \in [Caller -> Label]  BY <1>2, PcTyped DEF Label
  <2>7. TypeOK'  BY <1>2, <2>1, <2>2, <2>3, <2>4, <2>5, <2>6 DEF IInv, TypeOK
  <2> QED  BY <1>1, <1>2, <2>7 DEF IInv, TypeOK, Others, Same
<1>4. Untold(r) /\ Untold(r)' /\ did'[p] = work'[r] /\ work[r] = "none"
      /\ row[r].recovery = None /\ row[r].state \in {"created", "processing"}
      /\ row[r].outcome = "unknown" /\ outcome[p] = "unknown"
  BY <1>1, <1>2 DEF OwnerOK, Untold, IInv, TypeOK
<1>5. \/ /\ work'[r] = "all" /\ outcome'[p] = "completed" /\ pc'[p] \in {"evidence", "save"}
      \/ pc'[p] = "fail" /\ UNCHANGED <<outcome, stage>>
  BY <1>2 DEF IInv, TypeOK
<1>6. RequestOK(r)'
  BY <1>1, <1>2, <1>4, NoneIsNew DEF RequestOK, Untold, Claim, Recovery, Outcome
<1>7. CallOK(p)'
  BY <1>1, <1>2, <1>4, <1>5, NoneIsNew DEF CallOK, OwnerOK, Early, Late, Ending, Claim, Outcome
<1> QED  BY <1>1, <1>3, <1>6, <1>7, OwnerStep

LEMMA BuildEvidenceKeeps == ASSUME IInv, NEW p \in Caller, BuildEvidence(p) PROVE IInv'
<1>1. PICK r \in Req : /\ req[p] = r /\ Owns(p, r) /\ row[r] \in Row
                       /\ OwnerOK(p) /\ RequestOK(r) /\ reply[p].how = "none"
  BY Mine DEF BuildEvidence, At
<1>2. /\ pc[p] = "evidence"
      /\ UNCHANGED <<row, work, stored, heard, req, type, did, outcome, artifact, result, lost, reply>>
      /\ \/ /\ pc' = [pc EXCEPT ![p] = "save"]
            /\ stage' = [stage EXCEPT ![p] = "completion_persistence"]
         \/ pc' = [pc EXCEPT ![p] = "fail"] /\ UNCHANGED stage
  BY DEF BuildEvidence, Set, Goto, At
<1>3. TypeOK' /\ Others(p) /\ (\A i \in Req \ {r} : Same(i)) /\ req'[p] = r /\ reply'[p].how = "none"
  <2>1. stage' \in [Caller -> Stage]  BY <1>2, StageTyped DEF Stage
  <2>2. pc' \in [Caller -> Label]  BY <1>2, PcTyped DEF Label
  <2>3. TypeOK'  BY <1>2, <2>1, <2>2 DEF IInv, TypeOK
  <2> QED  BY <1>1, <1>2, <2>3 DEF IInv, TypeOK, Others, Same
<1>4. pc'[p] \in {"save", "fail"} /\ outcome[p] = "completed" /\ Untold(r) /\ Untold(r)'
  BY <1>1, <1>2 DEF OwnerOK, Late, Untold, IInv, TypeOK
<1>5. RequestOK(r)'  BY <1>1, <1>2 DEF RequestOK
<1>6. CallOK(p)'
  BY <1>1, <1>2, <1>4 DEF CallOK, OwnerOK, Early, Late, Ending, Claim
<1> QED  BY <1>1, <1>3, <1>5, <1>6, OwnerStep

LEMMA SaveStatsKeeps == ASSUME IInv, NEW p \in Caller, SaveStats(p) PROVE IInv'
<1>1. PICK r \in Req : /\ req[p] = r /\ Owns(p, r) /\ row[r] \in Row
                       /\ OwnerOK(p) /\ RequestOK(r) /\ reply[p].how = "none"
  BY Mine DEF SaveStats, At
<1> DEFINE x == [row[r] EXCEPT !.outcome = outcome[p]]
<1>2. /\ x \in Row /\ x.state = row[r].state /\ x.outcome = outcome[p]
      /\ x.recovery = row[r].recovery /\ x.artifact = row[r].artifact
  BY <1>1 DEF Row, IInv, TypeOK
<1> HIDE DEF x
<1>3. /\ pc[p] = "save"
      /\ UNCHANGED <<work, stored, heard, req, type, did, outcome, result, lost, reply>>
      /\ row' = row \/ row' = [row EXCEPT ![r] = x]
      /\ \/ /\ row' = [row EXCEPT ![r] = x] /\ pc' = [pc EXCEPT ![p] = "put"]
            /\ stage' = [stage EXCEPT ![p] = "artifact_write"]
            /\ artifact' = [artifact EXCEPT ![p] = "hash"]
         \/ /\ pc' = [pc EXCEPT ![p] = "fail"] /\ UNCHANGED <<stage, artifact>>
  BY <1>1 DEF SaveStats, Update, Set, Goto, At, x
<1>4. TypeOK' /\ Others(p) /\ (\A i \in Req \ {r} : Same(i)) /\ req'[p] = r /\ reply'[p].how = "none"
  <2>1. row' \in [Req -> Row]  BY <1>2, <1>3, RowTyped
  <2>2. stage' \in [Caller -> Stage]  BY <1>3, StageTyped DEF Stage
  <2>3. artifact' \in [Caller -> {"none", "hash", "url"}]  BY <1>3, ArtifactTyped
  <2>4. pc' \in [Caller -> Label]  BY <1>3, PcTyped DEF Label
  <2>5. TypeOK'  BY <1>3, <2>1, <2>2, <2>3, <2>4 DEF IInv, TypeOK
  <2> QED  BY <1>1, <1>3, <2>5 DEF IInv, TypeOK, Others, Same
<1>5. /\ row'[r] = x \/ row'[r] = row[r]
      /\ pc'[p] \in {"put", "fail"}
      /\ artifact'[p] = "hash" \/ artifact'[p] = artifact[p]
  BY <1>3 DEF IInv, TypeOK
<1>6. Untold(r) /\ Untold(r)' /\ outcome[p] = "completed" /\ work[r] = "all"
      /\ row[r].recovery = None /\ row[r].state \in {"created", "processing"}
  BY <1>1, <1>3 DEF OwnerOK, Late, Untold, Claim
<1>7. RequestOK(r)'
  BY <1>1, <1>2, <1>3, <1>5, <1>6, NoneIsNew DEF RequestOK, Untold, Claim, Recovery, Outcome
<1>8. CallOK(p)'
  BY <1>1, <1>2, <1>3, <1>5, <1>6 DEF CallOK, OwnerOK, Early, Late, Ending, Claim
<1> QED  BY <1>1, <1>4, <1>7, <1>8, OwnerStep

LEMMA PutArtifactKeeps == ASSUME IInv, NEW p \in Caller, PutArtifact(p) PROVE IInv'
<1>1. PICK r \in Req : /\ req[p] = r /\ Owns(p, r) /\ row[r] \in Row
                       /\ OwnerOK(p) /\ RequestOK(r) /\ reply[p].how = "none"
  BY Mine DEF PutArtifact, At
<1>2. /\ pc[p] = "put"
      /\ UNCHANGED <<row, work, heard, req, type, did, outcome, result, lost, reply>>
      /\ stored' = stored \/ stored' = [stored EXCEPT ![r] = TRUE]
      /\ \/ /\ stored' = [stored EXCEPT ![r] = TRUE] /\ pc' = [pc EXCEPT ![p] = "complete"]
            /\ stage' = [stage EXCEPT ![p] = "completion_persistence"]
            /\ artifact' = [artifact EXCEPT ![p] = "url"]
         \/ /\ pc' = [pc EXCEPT ![p] = "fail"] /\ UNCHANGED <<stage, artifact>>
  BY <1>1 DEF PutArtifact, Set, Goto, At
<1>3. TypeOK' /\ Others(p) /\ (\A i \in Req \ {r} : Same(i)) /\ req'[p] = r /\ reply'[p].how = "none"
  <2>1. stored' \in [Req -> BOOLEAN]  BY <1>2, StoredTyped
  <2>2. stage' \in [Caller -> Stage]  BY <1>2, StageTyped DEF Stage
  <2>3. artifact' \in [Caller -> {"none", "hash", "url"}]  BY <1>2, ArtifactTyped
  <2>4. pc' \in [Caller -> Label]  BY <1>2, PcTyped DEF Label
  <2>5. TypeOK'  BY <1>2, <2>1, <2>2, <2>3, <2>4 DEF IInv, TypeOK
  <2> QED  BY <1>1, <1>2, <2>5 DEF IInv, TypeOK, Others, Same
<1>4. /\ stored[r] => stored'[r]
      /\ \/ stored'[r] /\ pc'[p] = "complete" /\ artifact'[p] = "url"
         \/ pc'[p] = "fail" /\ artifact'[p] = artifact[p]
  BY <1>2 DEF IInv, TypeOK
<1>5. Untold(r) /\ Untold(r)' /\ outcome[p] = "completed" /\ row[r].state \in {"created", "processing"}
      /\ row[r].recovery = None
  BY <1>1, <1>2 DEF OwnerOK, Late, Untold
<1>6. RequestOK(r)'  BY <1>1, <1>2, <1>4, <1>5 DEF RequestOK
<1>7. CallOK(p)'
  BY <1>1, <1>2, <1>4, <1>5 DEF CallOK, OwnerOK, Early, Late, Ending, Claim
<1> QED  BY <1>1, <1>3, <1>6, <1>7, OwnerStep

LEMMA CompleteKeeps == ASSUME IInv, NEW p \in Caller, Complete(p) PROVE IInv'
<1>1. PICK r \in Req : /\ req[p] = r /\ Owns(p, r) /\ row[r] \in Row
                       /\ OwnerOK(p) /\ RequestOK(r) /\ reply[p].how = "none"
  BY Mine DEF Complete, At
<1> DEFINE x == [row[r] EXCEPT !.state = "completed", !.outcome = outcome[p], !.artifact = artifact[p]]
<1>2. /\ x \in Row /\ x.state = "completed" /\ x.outcome = outcome[p]
      /\ x.recovery = row[r].recovery /\ x.artifact = artifact[p]
  BY <1>1 DEF Row, IInv, TypeOK
<1> HIDE DEF x
<1>3. /\ pc[p] = "complete"
      /\ UNCHANGED <<work, stored, heard, req, type, did, stage, outcome, artifact, lost, reply>>
      /\ row' = row \/ row' = [row EXCEPT ![r] = x]
      /\ \/ /\ row' = [row EXCEPT ![r] = x] /\ pc' = [pc EXCEPT ![p] = "notify_outbox"]
            /\ result' = [result EXCEPT ![p] = "completed"]
         \/ /\ pc' = [pc EXCEPT ![p] = "fail"] /\ UNCHANGED result
  BY <1>1 DEF Complete, Update, Set, Goto, At, x
<1>4. TypeOK' /\ Others(p) /\ (\A i \in Req \ {r} : Same(i)) /\ req'[p] = r /\ reply'[p].how = "none"
  <2>1. row' \in [Req -> Row]  BY <1>2, <1>3, RowTyped
  <2>2. result' \in [Caller -> {"completed", "failed"}]  BY <1>3, ResultTyped
  <2>3. pc' \in [Caller -> Label]  BY <1>3, PcTyped DEF Label
  <2>4. TypeOK'  BY <1>3, <2>1, <2>2, <2>3 DEF IInv, TypeOK
  <2> QED  BY <1>1, <1>3, <2>4 DEF IInv, TypeOK, Others, Same
<1>5. /\ row'[r] = x \/ row'[r] = row[r]
      /\ \/ pc'[p] = "notify_outbox" /\ row'[r] = x /\ result'[p] = "completed"
         \/ pc'[p] = "fail"
  BY <1>3 DEF IInv, TypeOK
<1>6. Untold(r) /\ Untold(r)' /\ outcome[p] = "completed" /\ work[r] = "all"
      /\ row[r].recovery = None /\ artifact[p] = "url" /\ stored[r]
  BY <1>1, <1>3 DEF OwnerOK, Late, Untold, Claim
<1>7. RequestOK(r)'
  BY <1>1, <1>2, <1>3, <1>5, <1>6, NoneIsNew DEF RequestOK, Untold, Claim, Recovery, Outcome
<1>8. CallOK(p)'
  BY <1>1, <1>2, <1>3, <1>5, <1>6 DEF CallOK, OwnerOK, Early, Late, Ending, Claim
<1> QED  BY <1>1, <1>4, <1>7, <1>8, OwnerStep

-----------------------------------------------------------------------------
(* The catch block and what follows it *)

\* An error that says of the data what the call knows of it.
LEMMA ThrownOK ==
    ASSUME IInv, NEW p \in Caller, OwnerOK(p), req[p] \in Req, PersistenceError(p, outcome[p]),
           UNCHANGED <<did, outcome>>
    PROVE  /\ ReplyOK(p)' /\ CallOK(p)'
           /\ reply' \in [Caller -> [req: Req \cup {None}, how: {"none", "returned", "thrown"},
                                     what: Outcome \cup {"failed", "conflict", None}]]
<1>1. /\ reply' = [reply EXCEPT ![p] = [req |-> req[p], how |-> "thrown", what |-> outcome[p]]]
      /\ pc' = [pc EXCEPT ![p] = "idle"]
  BY DEF PersistenceError, End, Goto, Set
<1>2. /\ reply'[p] = [req |-> req[p], how |-> "thrown", what |-> outcome[p]]
      /\ pc'[p] = "idle" /\ outcome[p] \in Outcome
  BY <1>1 DEF IInv, TypeOK
<1>3. Claim(outcome[p], did[p])  BY DEF OwnerOK
<1>4. ReplyOK(p)'  BY <1>2, <1>3 DEF ReplyOK, Claim
<1>5. CallOK(p)'  BY <1>2 DEF CallOK
<1> QED  BY <1>1, <1>2, <1>4, <1>5 DEF IInv, TypeOK

LEMMA RecordFailureKeeps == ASSUME IInv, NEW p \in Caller, RecordFailure(p) PROVE IInv'
<1>1. PICK r \in Req : /\ req[p] = r /\ Owns(p, r) /\ row[r] \in Row
                       /\ OwnerOK(p) /\ RequestOK(r) /\ reply[p].how = "none"
  BY Mine DEF RecordFailure, At
<1> DEFINE x == FailedRow(row[r], stage[p], outcome[p], artifact[p])
<1>2. /\ x \in Row /\ x.state = "failed" /\ x.outcome = outcome[p]
      /\ x.recovery = RecoveryFor(stage[p], outcome[p]) /\ x.artifact = artifact[p]
  <2>1. outcome[p] \in Outcome /\ artifact[p] \in {"none", "hash", "url"}
    BY OutcomeTyped, ArtifactTyped
  <2>2. RecoveryFor(stage[p], outcome[p]) \in Recovery  BY DEF RecoveryFor, Recovery
  <2> QED  BY <1>1, <2>1, <2>2 DEF FailedRow, Row
<1> HIDE DEF x
<1>3. /\ pc[p] = "fail"
      /\ UNCHANGED <<work, stored, heard, req, type, did, stage, outcome, artifact, lost>>
      /\ result' = [result EXCEPT ![p] = "failed"]
      /\ row' = row \/ row' = [row EXCEPT ![r] = x]
      /\ \/ /\ row' = [row EXCEPT ![r] = x] /\ pc' = [pc EXCEPT ![p] = "notify_outbox"]
            /\ UNCHANGED reply
         \/ PersistenceError(p, outcome[p])
  BY <1>1 DEF RecordFailure, TryOrThrow, Update, Set, Goto, At, x
<1>4. reply' \in [Caller -> [req: Req \cup {None}, how: {"none", "returned", "thrown"},
                            what: Outcome \cup {"failed", "conflict", None}]]
  BY <1>1, <1>3, ThrownOK DEF IInv, TypeOK
<1>5. TypeOK' /\ Others(p) /\ (\A i \in Req \ {r} : Same(i)) /\ req'[p] = r
  <2>1. row' \in [Req -> Row]  BY <1>2, <1>3, RowTyped
  <2>2. result' \in [Caller -> {"completed", "failed"}]  BY <1>3, ResultTyped
  <2>3. /\ pc' \in [Caller -> Label]
        /\ \A q \in Caller \ {p} : pc'[q] = pc[q] /\ reply'[q] = reply[q]
    BY <1>3, PcTyped, ReplyTyped DEF Label, PersistenceError, End, Goto, Set
  <2>4. TypeOK'  BY <1>3, <1>4, <2>1, <2>2, <2>3 DEF IInv, TypeOK
  <2> QED  BY <1>1, <1>3, <2>3, <2>4 DEF IInv, TypeOK, Others, Same
<1>6. /\ row'[r] = x \/ row'[r] = row[r]
      /\ \/ pc'[p] = "notify_outbox" /\ row'[r] = x /\ result'[p] = "failed" /\ reply'[p] = reply[p]
         \/ PersistenceError(p, outcome[p])
  BY <1>3 DEF IInv, TypeOK
<1>7. /\ Untold(r) /\ Untold(r)' /\ Claim(outcome[p], work[r])
      /\ artifact[p] = "url" => stored[r]
      /\ stage[p] \in {"artifact_write", "completion_persistence"} => outcome[p] = "completed"
  BY <1>1, <1>3 DEF OwnerOK, Untold
<1>8. RequestOK(r)'
  <2>1. /\ x.recovery = "retry_request" => outcome[p] = "not_started"
        /\ x.recovery \in {"retry_artifact", "reconcile_request"} => outcome[p] = "completed"
    BY <1>2, <1>7 DEF RecoveryFor
  <2>2. CASE row'[r] = row[r]  BY <1>1, <1>3, <2>2 DEF RequestOK
  <2>3. CASE row'[r] = x
    BY <1>2, <1>3, <1>7, <2>1, <2>3 DEF RequestOK, Untold, Claim
  <2> QED  BY <1>6, <2>2, <2>3
<1>9. CallOK(p)' /\ (reply'[p].how = "none" \/ ReplyOK(p)')
  <2>1. CASE pc'[p] = "notify_outbox" /\ row'[r] = x /\ result'[p] = "failed" /\ reply'[p] = reply[p]
    <3>1. OwnerOK(p)'
      BY <1>1, <1>2, <1>3, <1>7, <2>1 DEF OwnerOK, Early, Late, Ending, Claim
    <3> QED  BY <1>1, <1>3, <2>1, <3>1 DEF CallOK
  <2>2. CASE PersistenceError(p, outcome[p])  BY <1>1, <1>3, <2>2, ThrownOK
  <2> QED  BY <1>6, <2>1, <2>2
<1> QED  BY <1>1, <1>5, <1>8, <1>9, OwnerStep

LEMMA NotifyKeeps ==
    ASSUME IInv, NEW p \in Caller,
           \/ Notify(p, "outbox", "notify_audit")
           \/ Notify(p, "audit", "save_lost")
    PROVE  IInv'
<1>0. pc[p] \in {"notify_outbox", "notify_audit"}  BY DEF Notify, At
<1>1. PICK r \in Req : /\ req[p] = r /\ Owns(p, r) /\ row[r] \in Row
                       /\ OwnerOK(p) /\ RequestOK(r) /\ reply[p].how = "none"
  BY <1>0, Mine
<1>2. PICK channel \in Channel :
        /\ channel = "outbox" => pc[p] = "notify_outbox" /\ pc' = [pc EXCEPT ![p] = "notify_audit"]
        /\ channel = "audit" => pc[p] = "notify_audit" /\ pc' = [pc EXCEPT ![p] = "save_lost"]
        /\ \/ heard' = [heard EXCEPT ![r] = @ \cup {<<channel, result[p]>>}] /\ UNCHANGED lost
           \/ /\ \/ heard' = [heard EXCEPT ![r] = @ \cup {<<channel, result[p]>>}]
                 \/ UNCHANGED heard
              /\ lost' = [lost EXCEPT ![p] = lost[p] \cup {channel}]
        /\ UNCHANGED <<row, work, stored, req, type, did, stage, outcome, artifact, result, reply>>
  <2>1. CASE Notify(p, "outbox", "notify_audit")
    BY <1>1, <2>1 DEF Notify, Publish, Lost, Set, Goto, At, Channel
  <2>2. CASE Notify(p, "audit", "save_lost")
    BY <1>1, <2>2 DEF Notify, Publish, Lost, Set, Goto, At, Channel
  <2> QED  BY <2>1, <2>2
<1>3. result[p] \in {"completed", "failed"} /\ channel \in {"outbox", "audit"}
  BY DEF IInv, TypeOK, Channel
<1>4. TypeOK' /\ Others(p) /\ (\A i \in Req \ {r} : Same(i)) /\ req'[p] = r /\ reply'[p].how = "none"
  <2>1. heard' \in [Req -> SUBSET (Channel \X {"created", "processing", "erasure_requested",
                                             "completed", "failed"})]
    <3>1. <<channel, result[p]>> \in Channel \X {"created", "processing", "erasure_requested",
                                                "completed", "failed"}
      BY <1>3
    <3> QED  BY <1>2, <3>1, HeardTyped
  <2>2. lost' \in [Caller -> SUBSET Channel]  BY <1>2, LostTyped
  <2>3. pc' \in [Caller -> Label] /\ \A q \in Caller \ {p} : pc'[q] = pc[q]
    BY <1>2, <1>3, PcTyped DEF Label
  <2>4. TypeOK'  BY <1>2, <2>1, <2>2, <2>3 DEF IInv, TypeOK
  <2> QED  BY <1>1, <1>2, <2>3, <2>4 DEF IInv, TypeOK, Others, Same
<1>5. /\ heard[r] \subseteq heard'[r] /\ heard'[r] \subseteq heard[r] \cup {<<channel, result[p]>>}
      /\ lost[p] \subseteq lost'[p]
      /\ <<channel, result[p]>> \in heard'[r] \/ channel \in lost'[p]
  BY <1>2 DEF IInv, TypeOK
<1>6. \/ channel = "outbox" /\ pc[p] = "notify_outbox" /\ pc'[p] = "notify_audit"
      \/ channel = "audit" /\ pc[p] = "notify_audit" /\ pc'[p] = "save_lost"
  BY <1>2, <1>3 DEF IInv, TypeOK
<1>7. row[r].state = result[p]  BY <1>0, <1>1 DEF OwnerOK, Ending
<1>8. RequestOK(r)'
  BY <1>1, <1>2, <1>3, <1>5, <1>7 DEF RequestOK
<1>9. CallOK(p)'
  <2>1. CASE channel = "outbox" /\ pc[p] = "notify_outbox" /\ pc'[p] = "notify_audit"
    BY <1>1, <1>2, <1>5, <1>7, <2>1 DEF CallOK, OwnerOK, Early, Late, Ending
  <2>2. CASE channel = "audit" /\ pc[p] = "notify_audit" /\ pc'[p] = "save_lost"
    BY <1>1, <1>2, <1>5, <1>7, <2>2 DEF CallOK, OwnerOK, Early, Late, Ending
  <2> QED  BY <1>6, <2>1, <2>2
<1> QED  BY <1>1, <1>4, <1>8, <1>9, OwnerStep

LEMMA SaveLostKeeps == ASSUME IInv, NEW p \in Caller, SaveLost(p) PROVE IInv'
<1>1. PICK r \in Req : /\ req[p] = r /\ Owns(p, r) /\ row[r] \in Row
                       /\ OwnerOK(p) /\ RequestOK(r) /\ reply[p].how = "none"
  BY Mine DEF SaveLost, At
<1> DEFINE x == [row[r] EXCEPT !.lost = lost[p]]
<1>2. /\ x \in Row /\ x.state = row[r].state /\ x.outcome = row[r].outcome
      /\ x.recovery = row[r].recovery /\ x.artifact = row[r].artifact /\ x.lost = lost[p]
  BY <1>1 DEF Row, IInv, TypeOK
<1> HIDE DEF x
<1>3. /\ pc[p] = "save_lost"
      /\ UNCHANGED <<work, stored, heard, req, type, did, stage, outcome, artifact, result, lost>>
      /\ row' = row \/ row' = [row EXCEPT ![r] = x]
      /\ \/ /\ row' = [row EXCEPT ![r] = x] \/ lost[p] = {}
            /\ pc' = [pc EXCEPT ![p] = "load"] /\ UNCHANGED reply
         \/ PersistenceError(p, outcome[p])
  BY <1>1 DEF SaveLost, TryOrThrow, Update, Set, Goto, At, locals, x
<1>4. reply' \in [Caller -> [req: Req \cup {None}, how: {"none", "returned", "thrown"},
                            what: Outcome \cup {"failed", "conflict", None}]]
  BY <1>1, <1>3, ThrownOK DEF IInv, TypeOK
<1>5. TypeOK' /\ Others(p) /\ (\A i \in Req \ {r} : Same(i)) /\ req'[p] = r
  <2>1. row' \in [Req -> Row]  BY <1>2, <1>3, RowTyped
  <2>2. /\ pc' \in [Caller -> Label]
        /\ \A q \in Caller \ {p} : pc'[q] = pc[q] /\ reply'[q] = reply[q]
    BY <1>3, PcTyped, ReplyTyped DEF Label, PersistenceError, End, Goto, Set
  <2>3. TypeOK'  BY <1>3, <1>4, <2>1, <2>2 DEF IInv, TypeOK
  <2> QED  BY <1>1, <1>3, <2>2, <2>3 DEF IInv, TypeOK, Others, Same
<1>6. /\ row'[r] = x \/ row'[r] = row[r]
      /\ \/ pc'[p] = "load" /\ (row'[r] = x \/ lost[p] = {}) /\ reply'[p] = reply[p]
         \/ PersistenceError(p, outcome[p])
  BY <1>3 DEF IInv, TypeOK
<1>7. /\ row[r].state = result[p]
      /\ \A channel \in Channel : <<channel, result[p]>> \in heard[r] \/ channel \in lost[p]
  BY <1>1, <1>3 DEF OwnerOK, Ending, Channel
<1>8. RequestOK(r)'
  <2>1. row[r].state # "none"  BY <1>1 DEF OwnerOK
  <2> QED  BY <1>1, <1>2, <1>3, <1>6, <2>1 DEF RequestOK
<1>9. CallOK(p)' /\ (reply'[p].how = "none" \/ ReplyOK(p)')
  <2>1. CASE pc'[p] = "load" /\ (row'[r] = x \/ lost[p] = {}) /\ reply'[p] = reply[p]
    BY <1>1, <1>2, <1>3, <1>6, <1>7, <2>1 DEF CallOK, OwnerOK, Early, Late, Ending
  <2>2. CASE PersistenceError(p, outcome[p])  BY <1>1, <1>3, <2>2, ThrownOK
  <2> QED  BY <1>6, <2>1, <2>2
<1> QED  BY <1>1, <1>5, <1>8, <1>9, OwnerStep

LEMMA LoadKeeps == ASSUME IInv, NEW p \in Caller, Load(p) PROVE IInv'
<1>1. PICK r \in Req : /\ req[p] = r /\ Owns(p, r) /\ row[r] \in Row
                       /\ OwnerOK(p) /\ RequestOK(r) /\ reply[p].how = "none"
  BY Mine DEF Load, At
<1>2. /\ pc[p] = "load" /\ pc' = [pc EXCEPT ![p] = "idle"]
      /\ UNCHANGED <<row, work, stored, heard, req, type, did, stage, outcome, artifact, result, lost>>
      /\ \/ reply' = [reply EXCEPT ![p] = [req |-> r, how |-> "returned", what |-> row[r].state]]
         \/ PersistenceError(p, outcome[p])
  BY <1>1 DEF Load, PersistenceError, End, Set, Goto, At, locals
<1>3. /\ row[r].state = result[p] /\ result[p] \in {"completed", "failed"}
      /\ \A channel \in Channel : <<channel, result[p]>> \in heard[r] \/ channel \in row[r].lost
  BY <1>1, <1>2 DEF OwnerOK, Ending, IInv, TypeOK
<1>4. pc'[p] = "idle" /\ CallOK(p)'  BY <1>2 DEF CallOK, IInv, TypeOK
<1>5. \A q \in Caller : ~Owns(q, r)'
  <2>1. \A q \in Caller \ {p} : ~Owns(q, r) /\ (Owns(q, r)' = Owns(q, r))
    BY <1>1, <1>2 DEF IInv, Alone, Owns, TypeOK
  <2> QED  BY <1>4, <2>1 DEF Owns
<1>6. /\ ReplyOK(p)'
      /\ reply' \in [Caller -> [req: Req \cup {None}, how: {"none", "returned", "thrown"},
                                what: Outcome \cup {"failed", "conflict", None}]]
  <2>1. CASE PersistenceError(p, outcome[p])  BY <1>1, <1>2, <2>1, ThrownOK
  <2>2. CASE reply' = [reply EXCEPT ![p] = [req |-> r, how |-> "returned", what |-> row[r].state]]
    <3>1. reply'[p] = [req |-> r, how |-> "returned", what |-> row[r].state]
      BY <2>2 DEF IInv, TypeOK
    <3>2. Returned(p, reply[p].req)'  BY <1>2, <1>3, <1>5, <3>1 DEF Returned
    <3>3. ReplyOK(p)'  BY <3>1, <3>2 DEF ReplyOK
    <3>4. row[r].state \in Outcome \cup {"failed", "conflict", None}  BY <1>3 DEF Outcome
    <3>5. reply' \in [Caller -> [req: Req \cup {None}, how: {"none", "returned", "thrown"},
                                what: Outcome \cup {"failed", "conflict", None}]]
      BY <2>2, <3>4 DEF IInv, TypeOK
    <3> QED  BY <3>3, <3>5
  <2> QED  BY <1>2, <2>1, <2>2
<1>7. TypeOK' /\ Others(p) /\ (\A i \in Req : Same(i))
  <2>1. /\ pc' \in [Caller -> Label]
        /\ \A q \in Caller \ {p} : pc'[q] = pc[q] /\ reply'[q] = reply[q]
    BY <1>2 DEF IInv, TypeOK, Label, PersistenceError, End, Goto, Set
  <2>2. TypeOK'  BY <1>2, <1>6, <2>1 DEF IInv, TypeOK
  <2> QED  BY <1>2, <2>1, <2>2 DEF IInv, TypeOK, Others, Same
<1>8. \A i \in Req : ~Owns(p, i)'  BY <1>4 DEF Owns
<1> QED  BY <1>4, <1>6, <1>7, <1>8, StepKeeps

\* A call that dies leaves its request to nobody.
LEMMA CrashKeeps == ASSUME IInv, NEW p \in Caller, Crash(p) PROVE IInv'
<1>1. /\ pc[p] # "idle" /\ pc' = [pc EXCEPT ![p] = "idle"] /\ reply[p].how = "none"
      /\ UNCHANGED <<row, work, stored, heard, req, type, did, stage, outcome, artifact, result, lost, reply>>
  BY DEF Crash, Goto, At, locals, IInv, CallOK
<1>2. TypeOK' /\ Others(p) /\ (\A i \in Req : Same(i))
  <2>1. pc' \in [Caller -> Label] /\ \A q \in Caller \ {p} : pc'[q] = pc[q]
    BY <1>1 DEF IInv, TypeOK, Label
  <2>2. TypeOK'  BY <1>1, <2>1 DEF IInv, TypeOK
  <2> QED  BY <1>1, <2>1, <2>2 DEF IInv, TypeOK, Others, Same
<1>3. pc'[p] = "idle"  BY <1>1 DEF IInv, TypeOK
<1>4. CallOK(p)' /\ ReplyOK(p)' /\ \A i \in Req : ~Owns(p, i)'
  BY <1>1, <1>3 DEF CallOK, ReplyOK, Owns
<1> QED  BY <1>2, <1>4, StepKeeps

-----------------------------------------------------------------------------
(* The invariant holds *)

LEMMA InitOK == ASSUME Init PROVE IInv
<1>1. NoRow \in Row /\ NoRow.state = "none" /\ NoRow.outcome = None /\ NoRow.recovery = None
      /\ NoRow.artifact = "none"
  BY DEF NoRow, Row
<1>2. TypeOK  BY <1>1 DEF Init, TypeOK, Label, Stage, Outcome
<1>3. \A r \in Req : RequestOK(r)
  BY <1>1, NoneIsNew DEF Init, RequestOK, Claim, Recovery, Outcome
<1>4. \A p \in Caller : pc[p] = "idle" /\ reply[p].how = "none"  BY DEF Init
<1>5. Alone /\ \A p \in Caller : CallOK(p) /\ ReplyOK(p)
  BY <1>4 DEF Alone, Owns, CallOK, ReplyOK
<1> QED  BY <1>2, <1>3, <1>5 DEF IInv

LEMMA StutterKeeps == ASSUME IInv, UNCHANGED vars PROVE IInv'
<1>1. UNCHANGED <<row, work, stored, heard, pc, req, type, did, stage, outcome, artifact, result, lost, reply>>
  BY DEF vars, locals
<1>2. TypeOK' /\ Alone'  BY <1>1 DEF IInv, TypeOK, Alone, Owns
<1>3. \A r \in Req : RequestOK(r)'  BY <1>1 DEF IInv, RequestOK
<1>4. \A p \in Caller : CallOK(p)'  BY <1>1 DEF IInv, CallOK, OwnerOK, Untold
<1>5. \A p \in Caller : ReplyOK(p)'  BY <1>1 DEF IInv, ReplyOK, Returned, Owns
<1> QED  BY <1>2, <1>3, <1>4, <1>5 DEF IInv

LEMMA NextKeeps == ASSUME IInv, [Next]_vars PROVE IInv'
<1>1. ASSUME NEW p \in Caller, Step(p) PROVE IInv'
  BY <1>1, InsertKeeps, AnnounceCreatedKeeps, MarkProcessingKeeps, AnnounceProcessingKeeps,
     MarkUnknownKeeps, WorkKeeps, BuildEvidenceKeeps, SaveStatsKeeps, PutArtifactKeeps,
     CompleteKeeps, RecordFailureKeeps, NotifyKeeps, SaveLostKeeps, LoadKeeps DEF Step
<1> QED  BY <1>1, CallKeeps, CrashKeeps, StutterKeeps DEF Next

\* The inductive invariant.
THEOREM ImmediateInvariant == Spec => []IInv
<1>1. Init => IInv  BY InitOK
<1>2. IInv /\ [Next]_vars => IInv'  BY NextKeeps
<1> QED  BY <1>1, <1>2, PTL DEF Spec

\* What a stored request, or an error, says of the data work is true, at any time.
THEOREM OutcomesTrue == Spec => []OutcomesAreTrue
<1>1. IInv => OutcomesAreTrue
  BY DEF IInv, RequestOK, ReplyOK, OutcomesAreTrue
<1> QED  BY <1>1, ImmediateInvariant, PTL

\* What is announced of the end is stored before, and stays so.
THEOREM AnnouncementsTrue == Spec => []AnnouncementsAreTrue
<1>1. IInv => AnnouncementsAreTrue
  BY DEF IInv, RequestOK, ReplyOK, Returned, AnnouncementsAreTrue
<1> QED  BY <1>1, ImmediateInvariant, PTL
===============================================================================
