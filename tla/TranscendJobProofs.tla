-------------------------- MODULE TranscendJobProofs --------------------------
(***************************************************************************)
(* What is proved of the Transcend adapter, for any receivers, workers,    *)
(* subjects, fingerprints, attempts, retries and faults.                   *)
(*                                                                         *)
(* A worker may have lost its lock and go on: what it has seen and found   *)
(* was true when it looked, and has to be true still.  So the inductive    *)
(* invariant TInv judges a row (RowTrue), a finding (FoundTrue) and the    *)
(* place that a worker has reached (WorkTrue) by the durable request and   *)
(* the provider's answers, which only move Later: no verdict is ever taken *)
(* back (RowStaysTrue, WorkStaysTrue).  With that, a step has to show what *)
(* it does to its own worker only (StepKeeps).  Claims ties the lock and   *)
(* the claimed revisions to the row, Receipts the acknowledged deliveries  *)
(* to the job's fingerprint, and Effects the erasures to the request that  *)
(* records them.                                                           *)
(***************************************************************************)
EXTENDS TranscendJob, FiniteSetTheorems, TLAPS

-----------------------------------------------------------------------------
(* The invariant *)

Handler == {"handle", "reserve", "execute", "complete", "deliver", "put", "commit"}
Found   == Request \cup {"none", "unknown", "accepted", "rejected"}

\* Types, of all variables.
Types ==
    /\ TypeOK
    /\ pc \in [Receiver \cup Worker ->
                Handler \cup {"idle", "record", "get", "resolve", "submit", "winner"}]
    /\ delivery \in [Receiver -> [print: Fingerprint \cup {None}, subject: Subject \cup {None}]]
    /\ ret \in [Worker -> Found]

\* The holder of the lock is at work, and who has claimed the row as it is has seen it.
Claims ==
    /\ lock # None => lock \in current /\ job.state = "queued" /\ pc[lock] \in Handler
    /\ \A w \in current : seen[w] = job /\ pc[w] # "idle"

\* What was acknowledged is what the job was submitted with.
Receipts ==
    /\ job.state = "absent" => job = NoJob /\ accepted = {}
    /\ \A r \in Receiver : pc[r] # "idle" => delivery[r].print \in Fingerprint
    /\ \A f, g \in accepted : f = g
    /\ job.print # None => accepted \subseteq {job.print}

\* A row x says nothing that is not true of the request r and of what the provider was
\* told.
RowTrue(x, r, told) ==
    /\ x.phase # "none" => x.changed
    /\ x.phase = "callback" => x.result.status = "completed"
    /\ x.named => r # "absent"
    /\ x.result.status = "completed" => r = "completed"
    /\ x.result.data => r \in DataGone
    /\ x.result.status = "failed" => r = IF x.result.data THEN "lost" ELSE "refused"
    /\ x.result.provider \in {"accepted", "rejected"} => x.result.provider \in told

\* Completion has been tried.
Settled == {"refused", "unstored", "lost", "completed"}

\* What a worker that claimed the row x has found is still true.
FoundTrue(x, found, r, told) ==
    \/ x.phase = "none"
    \/ x.phase = "callback" /\ found \in {"accepted", "rejected"} /\ found \in told
    \/ /\ x.phase \notin {"none", "callback"}
       /\ found \in {"unknown", "unstored"} /\ r # "absent"
    \/ /\ x.phase \notin {"none", "callback"}
       /\ found \in {"refused", "completed", "lost"} /\ r = found

\* A worker that claimed the row x and is at a label has come there for a reason that
\* still holds.
WorkTrue(label, x, found, r, told) ==
    /\ label \in {"reserve", "execute", "complete", "deliver"} =>
            x.phase \notin {"none", "callback"}
    /\ label = "reserve" => x.phase = "local_execution" \/ r # "absent"
    /\ label = "execute" => r # "absent"
    /\ label = "complete" => r \in Settled \cup {"committed"}
    /\ label = "deliver" => r \in Settled
    /\ label = "put" => x.phase = "callback"
    /\ label = "commit" => FoundTrue(x, found, r, told)

\* What has taken effect outside the queue.
Effects ==
    /\ request # "absent" => job.changed
    /\ reports # {} => request = "completed"
    /\ \E s \in Subject \cup {None} : erased = [t \in Subject |-> IF t = s THEN 1 ELSE 0]
    /\ request \in {"absent", "created", "refused"} => erased = [t \in Subject |-> 0]

Works(w) ==
    /\ RowTrue(seen[w], request, reports) /\ (seen[w].changed => job.changed)
    /\ WorkTrue(pc[w], seen[w], ret[w], request, reports)

TInv ==
    /\ Types /\ Claims /\ Receipts /\ Effects
    /\ RowTrue(job, request, reports)
    /\ \A w \in Worker : Works(w)

-----------------------------------------------------------------------------
(* What is true stays true *)

\* How the durable request moves.
Later(r, q) ==
    \/ q = r
    \/ r = "absent" /\ q = "created"
    \/ r = "created" /\ q \in {"committed", "refused"}
    \/ r = "committed" /\ q \in {"unstored", "lost", "completed"}
    \/ r = "unstored" /\ q \in {"lost", "completed"}

LEMMA RowStaysTrue ==
    ASSUME NEW x, NEW r, NEW q, NEW told, NEW said, RowTrue(x, r, told),
           Later(r, q), told \subseteq said
    PROVE  RowTrue(x, q, said)
BY DEF RowTrue, Later, DataGone

LEMMA WorkStaysTrue ==
    ASSUME NEW label, NEW x, NEW found, NEW r, NEW q, NEW told, NEW said,
           WorkTrue(label, x, found, r, told), Later(r, q), told \subseteq said
    PROVE  WorkTrue(label, x, found, q, said)
<1>1. FoundTrue(x, found, r, told) => FoundTrue(x, found, q, said)  BY DEF FoundTrue, Later
<1> QED  BY <1>1 DEF WorkTrue, Later, Settled

\* What a step has to show.
LEMMA StepKeeps ==
    ASSUME TInv, Types', Claims', Receipts', Effects',
           Later(request, request'), reports \subseteq reports',
           RowTrue(job', request', reports'), job.changed => job'.changed,
           NEW W, W \subseteq Worker,
           \A v \in Worker \ W : pc'[v] = pc[v] /\ seen'[v] = seen[v] /\ ret'[v] = ret[v],
           \A w \in W : Works(w)'
    PROVE  TInv'
<1>1. ASSUME NEW v \in Worker \ W PROVE Works(v)'
  <2>1. /\ RowTrue(seen[v], request, reports) /\ (seen[v].changed => job.changed)
        /\ WorkTrue(pc[v], seen[v], ret[v], request, reports)
    BY DEF TInv, Works
  <2>2. pc'[v] = pc[v] /\ seen'[v] = seen[v] /\ ret'[v] = ret[v]  BY <1>1
  <2>3. RowTrue(seen[v], request', reports')  BY <2>1, RowStaysTrue
  <2>4. WorkTrue(pc[v], seen[v], ret[v], request', reports')  BY <2>1, WorkStaysTrue
  <2> QED  BY <2>1, <2>2, <2>3, <2>4 DEF Works
<1>2. \A w \in Worker : Works(w)'  BY <1>1
<1> QED  BY <1>2 DEF TInv

\* Nothing outside has changed, and the row has not forgotten that it may have.
LEMMA OutsideSame ==
    ASSUME TInv, UNCHANGED outside, job.changed => job'.changed
    PROVE  /\ Later(request, request') /\ reports \subseteq reports' /\ Effects'
           /\ request' \in Request /\ reports' \subseteq {"accepted", "rejected"}
           /\ erased' \in [Subject -> Nat]
           /\ request' = request /\ reports' = reports
<1>1. request' = request /\ reports' = reports /\ erased' = erased  BY DEF outside
<1>2. Effects'  BY <1>1 DEF Effects, TInv
<1> QED  BY <1>1, <1>2 DEF Later, TInv, Types, TypeOK

-----------------------------------------------------------------------------
(* Rows *)

LEMMA NoResultTyped ==
    /\ NoResult \in Result
    /\ NoResult.status = "none" /\ NoResult.data = FALSE /\ NoResult.provider = "none"
BY DEF NoResult, Result

LEMMA OfTyped ==
    ASSUME NEW status \in {"unknown", "failed", "completed"}, NEW data \in BOOLEAN,
           NEW provider \in {"unreported", "pending", "accepted", "rejected"}
    PROVE  /\ Of(status, data, provider) \in Result
           /\ Of(status, data, provider).status = status
           /\ Of(status, data, provider).data = data
           /\ Of(status, data, provider).provider = provider
<1>1. [status |-> status, data |-> data, provider |-> provider] \in Result  BY DEF Result
<1>2. Of(status, data, provider) = [status |-> status, data |-> data, provider |-> provider]
  BY DEF Of
<1> QED  BY <1>1, <1>2

\* What a page commits is true, and forgets nothing.
LEMMA SteppedTrue ==
    ASSUME NEW x \in Job, NEW found \in Found, NEW r, NEW told,
           RowTrue(x, r, told), FoundTrue(x, found, r, told)
    PROVE  LET y == Stepped(x, found) IN
           /\ y \in Job /\ y.state \in {"queued", "completed"} /\ y.print = x.print
           /\ x.changed => y.changed
           /\ RowTrue(y, r, told)
<1> DEFINE y == Stepped(x, found)
<1>1. CASE x.phase = "none"
  <2> DEFINE result == Of("unknown", FALSE, "unreported")
  <2>1. /\ result \in Result /\ result.status = "unknown" /\ result.data = FALSE
        /\ result.provider = "unreported"
    BY OfTyped, ZenonT(30)
  <2>2. y = Page(x, FALSE, TRUE, "local_execution", result)  BY <1>1 DEF Stepped, Fence
  <2> HIDE DEF result, y
  <2>3. /\ y \in Job /\ y.state \in {"queued", "completed"} /\ y.print = x.print
        /\ y.changed = TRUE /\ y.phase = "local_execution" /\ y.result = result
        /\ y.named = FALSE
    BY <2>1, <2>2 DEF Page, Job
  <2> QED  BY <2>1, <2>3 DEF RowTrue, y
<1>2. CASE x.phase = "callback"
  <2> DEFINE result == Of("completed", TRUE, found)
  <2>1. found \in {"accepted", "rejected"} /\ found \in told  BY <1>2 DEF FoundTrue
  <2>2. /\ result \in Result /\ result.status = "completed" /\ result.data = TRUE
        /\ result.provider = found
    <3>1. [status |-> "completed", data |-> TRUE, provider |-> found] \in Result
      BY <2>1 DEF Result
    <3>2. result = [status |-> "completed", data |-> TRUE, provider |-> found]  BY DEF Of
    <3> HIDE DEF result
    <3> QED  BY <3>1, <3>2
  <2>3. y = Page(x, TRUE, FALSE, "finished", result)  BY <1>2 DEF Stepped, Told
  <2>4. x.changed /\ r = "completed"  BY <1>2 DEF RowTrue
  <2> HIDE DEF result, y
  <2>5. /\ y \in Job /\ y.state \in {"queued", "completed"} /\ y.print = x.print
        /\ y.changed = (x.changed \/ FALSE) /\ y.phase = "finished" /\ y.result = result
        /\ y.named = TRUE
    BY <2>2, <2>3 DEF Page, Job
  <2> QED  BY <2>1, <2>2, <2>4, <2>5 DEF RowTrue, DataGone, y
<1>3. ASSUME x.phase \notin {"none", "callback"}, found \in {"unknown", "unstored"}, r # "absent"
      PROVE  /\ y \in Job /\ y.state \in {"queued", "completed"} /\ y.print = x.print
             /\ x.changed => y.changed
             /\ RowTrue(y, r, told)
  <2> DEFINE result == IF found = "unknown" THEN Of("unknown", FALSE, "unreported") ELSE NoResult
  <2>1. /\ result \in Result /\ result.status \in {"none", "unknown"} /\ result.data = FALSE
        /\ result.provider \in {"none", "unreported"}
    <3>1. CASE found = "unknown"
      <4>1. result = Of("unknown", FALSE, "unreported")  BY <3>1
      <4> HIDE DEF result
      <4>2. /\ Of("unknown", FALSE, "unreported") \in Result
            /\ Of("unknown", FALSE, "unreported").status = "unknown"
            /\ Of("unknown", FALSE, "unreported").data = FALSE
            /\ Of("unknown", FALSE, "unreported").provider = "unreported"
        BY OfTyped
      <4> QED  BY <4>1, <4>2
    <3>2. CASE found # "unknown"
      <4>1. result = NoResult  BY <3>2
      <4> HIDE DEF result
      <4> QED  BY <4>1, NoResultTyped
    <3> QED  BY <3>1, <3>2
  <2>2. y = Page(x, FALSE, TRUE, "local_recovery", result)
    BY <1>3 DEF Stepped, Unknown, LocalResult
  <2> HIDE DEF result, y
  <2>3. /\ y \in Job /\ y.state \in {"queued", "completed"} /\ y.print = x.print
        /\ y.changed = TRUE /\ y.phase = "local_recovery" /\ y.result = result
        /\ y.named = TRUE
    BY <2>1, <2>2 DEF Page, Job
  <2> QED  BY <1>3, <2>1, <2>3 DEF RowTrue
<1>4. ASSUME x.phase \notin {"none", "callback"}, found = "completed", r = found
      PROVE  /\ y \in Job /\ y.state \in {"queued", "completed"} /\ y.print = x.print
             /\ x.changed => y.changed
             /\ RowTrue(y, r, told)
  <2> DEFINE result == Of("completed", TRUE, "pending")
  <2>1. /\ result \in Result /\ result.status = "completed" /\ result.data = TRUE
        /\ result.provider = "pending"
    BY OfTyped
  <2>2. y = Page(x, FALSE, TRUE, "callback", result)  BY <1>4 DEF Stepped, LocalResult
  <2> HIDE DEF result, y
  <2>3. /\ y \in Job /\ y.state \in {"queued", "completed"} /\ y.print = x.print
        /\ y.changed = TRUE /\ y.phase = "callback" /\ y.result = result
        /\ y.named = TRUE
    BY <2>1, <2>2 DEF Page, Job
  <2> QED  BY <1>4, <2>1, <2>3 DEF RowTrue, DataGone
<1>5. ASSUME x.phase \notin {"none", "callback"}, found \in {"refused", "lost"}, r = found
      PROVE  /\ y \in Job /\ y.state \in {"queued", "completed"} /\ y.print = x.print
             /\ x.changed => y.changed
             /\ RowTrue(y, r, told)
  <2> DEFINE gone == found \in DataGone
             result == Of("failed", gone, "unreported")
  <2>1. gone \in BOOLEAN /\ gone = (found = "lost")  BY <1>5 DEF DataGone
  <2> HIDE DEF gone
  <2>2. /\ result \in Result /\ result.status = "failed" /\ result.data = gone
        /\ result.provider = "unreported"
    <3>1. [status |-> "failed", data |-> gone, provider |-> "unreported"] \in Result
      BY <2>1 DEF Result
    <3>2. result = [status |-> "failed", data |-> gone, provider |-> "unreported"]  BY DEF Of
    <3> HIDE DEF result
    <3> QED  BY <3>1, <3>2
  <2>3. y = Page(x, TRUE, gone, "finished", result)  BY <1>5 DEF Stepped, LocalResult, gone
  <2>4. x.changed  BY <1>5 DEF RowTrue
  <2> HIDE DEF result, y
  <2>5. /\ y \in Job /\ y.state \in {"queued", "completed"} /\ y.print = x.print
        /\ y.changed = (x.changed \/ gone) /\ y.phase = "finished" /\ y.result = result
        /\ y.named = TRUE
    BY <2>1, <2>2, <2>3 DEF Page, Job
  <2> QED  BY <1>5, <2>1, <2>2, <2>4, <2>5 DEF RowTrue, DataGone
<1> QED  BY <1>1, <1>2, <1>3, <1>4, <1>5 DEF FoundTrue

-----------------------------------------------------------------------------
(* Receivers *)

\* A receiver that only moves on, or answers.
LEMMA ServeKeeps ==
    ASSUME TInv, NEW r \in Receiver, UNCHANGED <<queue, outside, worker, retries, faults>>,
           NEW label \in {"idle", "get", "resolve", "submit", "winner"},
           Goto(r, label),
           NEW print \in Fingerprint \cup {None}, NEW subject \in Subject \cup {None},
           delivery' = [delivery EXCEPT ![r] = [print |-> print, subject |-> subject]],
           label # "idle" => print \in Fingerprint,
           accepted' = accepted \/ (job.print # None /\ accepted' = accepted \cup {job.print})
    PROVE  TInv'
<1>1. UNCHANGED <<job, expired, lock, current, request, reports, erased, seen, erasing, ret>>
  BY DEF queue, outside, worker
<1>2. Types /\ Claims /\ Receipts  BY DEF TInv
<1>3. pc' = [pc EXCEPT ![r] = label]  BY DEF Goto
<1>4. \A p \in Receiver \cup Worker : pc'[p] = IF p = r THEN label ELSE pc[p]
  BY <1>2, <1>3 DEF Types
<1>5. \A w \in Worker : pc'[w] = pc[w]  BY <1>4, ConstantsOK
<1>6. accepted' \subseteq Fingerprint
  <2>1. accepted \subseteq Fingerprint /\ job.print \in Fingerprint \cup {None}
    BY <1>2 DEF Types, TypeOK, Job
  <2> QED  BY <2>1
<1>7. Types'
  <2>1. pc' \in [Receiver \cup Worker ->
                   Handler \cup {"idle", "record", "get", "resolve", "submit", "winner"}]
    BY <1>2, <1>3 DEF Types
  <2>2. delivery' \in [Receiver -> [print: Fingerprint \cup {None}, subject: Subject \cup {None}]]
    BY <1>2 DEF Types
  <2> QED  BY <1>1, <1>2, <1>6, <2>1, <2>2 DEF Types, TypeOK
<1>8. Claims'
  <2>1. current \subseteq Worker  BY <1>2 DEF Types, TypeOK
  <2> QED  BY <1>1, <1>2, <1>5, <2>1 DEF Claims
<1>9. Receipts'
  <2>1. \A q \in Receiver : delivery'[q] = IF q = r THEN [print |-> print, subject |-> subject]
                                          ELSE delivery[q]
    BY <1>2 DEF Types
  <2>2. \A q \in Receiver : pc'[q] # "idle" => delivery'[q].print \in Fingerprint
    BY <1>2, <1>4, <2>1 DEF Receipts
  <2>3. job.state = "absent" => job.print = None  BY <1>2 DEF Receipts, NoJob
  <2> QED  BY <1>1, <1>2, <2>2, <2>3 DEF Receipts
<1>10. /\ Later(request, request') /\ reports \subseteq reports' /\ Effects'
       /\ request' = request /\ reports' = reports
  BY <1>1, OutsideSame
<1> DEFINE W == {}
<1>11. \A w \in Worker \ W : pc'[w] = pc[w] /\ seen'[w] = seen[w] /\ ret'[w] = ret[w]
  BY <1>1, <1>5
<1>12. RowTrue(job', request', reports')  BY <1>1 DEF TInv
<1>13. \A w \in W : Works(w)'  OBVIOUS
<1>14. W \subseteq Worker /\ (job.changed => job'.changed)  BY <1>1
<1> HIDE DEF W
<1> QED  BY <1>7, <1>8, <1>9, <1>10, <1>11, <1>12, <1>13, <1>14, StepKeeps

LEMMA DeliveryTyped ==
    ASSUME TInv, NEW r \in Receiver
    PROVE  /\ delivery[r].print \in Fingerprint \cup {None}
           /\ delivery[r].subject \in Subject \cup {None}
           /\ delivery[r] = [print |-> delivery[r].print, subject |-> delivery[r].subject]
           /\ pc[r] # "idle" => delivery[r].print \in Fingerprint
           /\ delivery \in [Receiver -> [print: Fingerprint \cup {None}, subject: Subject \cup {None}]]
<1>1. delivery \in [Receiver -> [print: Fingerprint \cup {None}, subject: Subject \cup {None}]]
  BY DEF TInv, Types
<1>2. delivery[r] \in [print: Fingerprint \cup {None}, subject: Subject \cup {None}]  BY <1>1
<1> QED  BY <1>1, <1>2 DEF TInv, Receipts

LEMMA SameDelivery ==
    ASSUME TInv, NEW r \in Receiver, delivery' = delivery
    PROVE  delivery' = [delivery EXCEPT ![r] = [print |-> delivery[r].print,
                                                subject |-> delivery[r].subject]]
<1>1. delivery = [delivery EXCEPT ![r] = delivery[r]]  BY DeliveryTyped
<1> QED  BY <1>1, DeliveryTyped

LEMMA ReceiveKeeps ==
    ASSUME TInv, NEW r \in Receiver, NEW print \in Fingerprint, Receive(r, print)
    PROVE  TInv'
<1>1. delivery' = [delivery EXCEPT ![r] = [print |-> print, subject |-> delivery[r].subject]]
  <2>1. delivery' = [delivery EXCEPT ![r] = [delivery[r] EXCEPT !.print = print]]
    BY DEF Receive
  <2>2. [delivery[r] EXCEPT !.print = print] = [print |-> print, subject |-> delivery[r].subject]
    <3>1. delivery[r] \in [print: Fingerprint \cup {None}, subject: Subject \cup {None}]
      BY DeliveryTyped
    <3> QED  BY <3>1
  <2> QED  BY <2>1, <2>2
<1>2. /\ Goto(r, "get") /\ accepted' = accepted
      /\ UNCHANGED <<queue, outside, worker, retries, faults>>
  BY DEF Receive
<1> QED  BY <1>1, <1>2, DeliveryTyped, ServeKeeps

LEMMA ReplayKeeps ==
    ASSUME TInv, NEW r \in Receiver, pc[r] # "idle", Replay(r),
           UNCHANGED <<queue, outside, worker, retries, faults>>
    PROVE  TInv'
<1>1. /\ Goto(r, "idle") /\ delivery' = [delivery EXCEPT ![r] = [print |-> None, subject |-> None]]
      /\ accepted' = IF job.print = delivery[r].print THEN accepted \cup {job.print} ELSE accepted
  BY DEF Replay, Respond
<1>2. delivery[r].print # None  BY DeliveryTyped, ConstantsOK
<1>3. accepted' = accepted \/ (job.print # None /\ accepted' = accepted \cup {job.print})
  BY <1>1, <1>2
<1> QED  BY <1>1, <1>3, ServeKeeps

LEMMA GetExistingKeeps ==
    ASSUME TInv, NEW r \in Receiver, GetExisting(r)
    PROVE  TInv'
<1>1. pc[r] = "get" /\ UNCHANGED <<queue, outside, worker, retries, faults>>  BY DEF GetExisting
<1>2. CASE Replay(r)  BY <1>1, <1>2, ReplayKeeps
<1>3. CASE Goto(r, "resolve") /\ UNCHANGED receiver
  <2>1. delivery' = delivery /\ accepted' = accepted  BY <1>3 DEF receiver
  <2>2. delivery[r].print \in Fingerprint  BY <1>1, DeliveryTyped
  <2> QED  BY <1>1, <1>3, <2>1, <2>2, SameDelivery, DeliveryTyped, ServeKeeps
<1> QED  BY <1>2, <1>3 DEF GetExisting

LEMMA ResolveKeeps ==
    ASSUME TInv, NEW r \in Receiver, Resolve(r)
    PROVE  TInv'
<1>1. /\ pc[r] = "resolve" /\ UNCHANGED <<queue, outside, worker, retries, faults>>
      /\ accepted' = accepted
  BY DEF Resolve
<1>2. CASE Respond(r)  BY <1>1, <1>2, ServeKeeps DEF Respond
<1>3. ASSUME NEW s \in Subject, delivery' = [delivery EXCEPT ![r].subject = s], Goto(r, "submit")
      PROVE  TInv'
  <2>1. delivery' = [delivery EXCEPT ![r] = [print |-> delivery[r].print, subject |-> s]]
    <3>1. delivery' = [delivery EXCEPT ![r] = [delivery[r] EXCEPT !.subject = s]]  BY <1>3
    <3>2. delivery[r] \in [print: Fingerprint \cup {None}, subject: Subject \cup {None}]
      BY DeliveryTyped
    <3>3. [delivery[r] EXCEPT !.subject = s] = [print |-> delivery[r].print, subject |-> s]
      BY <3>2
    <3> QED  BY <3>1, <3>3
  <2>2. delivery[r].print \in Fingerprint  BY <1>1, DeliveryTyped
  <2> QED  BY <1>1, <1>3, <2>1, <2>2, ServeKeeps
<1> QED  BY <1>2, <1>3 DEF Resolve

LEMMA AfterConflictKeeps ==
    ASSUME TInv, NEW r \in Receiver, AfterConflict(r)
    PROVE  TInv'
<1>1. pc[r] = "winner" /\ UNCHANGED <<queue, outside, worker, retries, faults>>
  BY DEF AfterConflict
<1>2. CASE Winner(r)  BY <1>1, <1>2, ReplayKeeps DEF Winner
<1>3. CASE Respond(r) /\ UNCHANGED accepted  BY <1>1, <1>3, ServeKeeps DEF Respond
<1> QED  BY <1>2, <1>3 DEF AfterConflict

-----------------------------------------------------------------------------
(* The handler *)

\* w goes on at a label, having found something; if it throws, it releases its row.
Exit(w, label, found) ==
    /\ pc' = [pc EXCEPT ![w] = label]
    /\ ret' = [ret EXCEPT ![w] = found]
    /\ lock' = IF label = "record" /\ lock = w THEN None ELSE lock

LEMMA Exits ==
    ASSUME TInv, NEW w \in Worker
    PROVE  /\ \A found : Return(w, found) => Exit(w, "commit", found)
           /\ \A label \in Handler : Proceed(w, label) => Exit(w, label, ret[w])
           /\ Throw(w) => Exit(w, "record", ret[w])
<1>1. ret \in [Worker -> Found]  BY DEF TInv, Types
<1>2. ret = [ret EXCEPT ![w] = ret[w]]  BY <1>1
<1> QED  BY <1>2 DEF Return, Proceed, Throw, Goto, Release, Exit, Handler

\* What a step of the handler has to show.
LEMMA HandlerKeeps ==
    ASSUME TInv, NEW w \in Worker, pc[w] \in Handler, Handling,
           NEW label \in Handler \cup {"record"}, NEW found \in Found, Exit(w, label, found),
           erasing' \in [Worker -> BOOLEAN], faults' \in 0 .. MaxFaults,
           Later(request, request'), request' \in Request,
           reports \subseteq reports', reports' \subseteq {"accepted", "rejected"},
           erased' \in [Subject -> Nat], Effects',
           WorkTrue(label, seen[w], found, request', reports')
    PROVE  TInv'
<1>1. UNCHANGED <<job, expired, current, delivery, accepted, seen, retries>>
  BY DEF Handling, receiver
<1>2. Types /\ Claims /\ Receipts  BY DEF TInv
<1>3. /\ pc' = [pc EXCEPT ![w] = label] /\ ret' = [ret EXCEPT ![w] = found]
      /\ lock' = IF label = "record" /\ lock = w THEN None ELSE lock
  BY DEF Exit
<1>4. /\ \A p \in Receiver \cup Worker : pc'[p] = IF p = w THEN label ELSE pc[p]
      /\ \A v \in Worker : ret'[v] = IF v = w THEN found ELSE ret[v]
  BY <1>2, <1>3 DEF Types
<1>5. Types'
  <2>1. pc' \in [Receiver \cup Worker ->
                   Handler \cup {"idle", "record", "get", "resolve", "submit", "winner"}]
    BY <1>2, <1>3 DEF Types
  <2>2. ret' \in [Worker -> Found]  BY <1>2, <1>3 DEF Types
  <2>3. TypeOK'  BY <1>1, <1>2, <1>3 DEF Types, TypeOK
  <2> QED  BY <1>1, <1>2, <2>1, <2>2, <2>3 DEF Types
<1>6. Claims'
  <2>1. current \subseteq Worker /\ lock \in Worker \cup {None} /\ None \notin Worker
    BY <1>2, ConstantsOK DEF Types, TypeOK
  <2>2. ASSUME lock' # None
        PROVE  lock' \in current' /\ job'.state = "queued" /\ pc'[lock'] \in Handler
    <3>1. lock' = lock /\ (lock = w => label # "record")  BY <1>3, <2>1, <2>2
    <3> QED  BY <1>1, <1>2, <1>4, <2>1, <2>2, <3>1 DEF Claims
  <2>3. \A v \in current' : seen'[v] = job' /\ pc'[v] # "idle"
    BY <1>1, <1>2, <1>4, <2>1 DEF Claims, Handler
  <2> QED  BY <2>2, <2>3 DEF Claims
<1>7. Receipts'
  <2>1. \A r \in Receiver : pc'[r] = pc[r]  BY <1>4, ConstantsOK
  <2> QED  BY <1>1, <1>2, <2>1 DEF Receipts
<1>8. RowTrue(job', request', reports')
  <2>1. RowTrue(job, request, reports)  BY DEF TInv
  <2> QED  BY <1>1, <2>1, RowStaysTrue
<1>9. Works(w)'
  <2>1. RowTrue(seen[w], request, reports) /\ (seen[w].changed => job.changed)
    BY DEF TInv, Works
  <2>2. RowTrue(seen[w], request', reports')  BY <2>1, RowStaysTrue
  <2>3. seen'[w] = seen[w] /\ pc'[w] = label /\ ret'[w] = found  BY <1>1, <1>4
  <2> QED  BY <1>1, <2>1, <2>2, <2>3 DEF Works
<1> DEFINE W == {w}
<1>10. \A v \in W : Works(v)'  BY <1>9
<1>11. /\ W \subseteq Worker
       /\ \A v \in Worker \ W : pc'[v] = pc[v] /\ seen'[v] = seen[v] /\ ret'[v] = ret[v]
  BY <1>1, <1>4
<1>12. job.changed => job'.changed  BY <1>1
<1> HIDE DEF W
<1> QED  BY <1>5, <1>6, <1>7, <1>8, <1>10, <1>11, <1>12, StepKeeps

LEMMA WorkerTyped ==
    ASSUME TInv, NEW w \in Worker
    PROVE  /\ seen[w] \in Job /\ ret[w] \in Found /\ erasing \in [Worker -> BOOLEAN]
           /\ faults \in 0 .. MaxFaults /\ MaxFaults \in Nat /\ request \in Request
           /\ Fault => faults' \in 0 .. MaxFaults
           /\ RowTrue(seen[w], request, reports) /\ (seen[w].changed => job.changed)
           /\ WorkTrue(pc[w], seen[w], ret[w], request, reports)
<1>1. Types /\ Works(w)  BY DEF TInv
<1>2. faults \in 0 .. MaxFaults /\ MaxFaults \in Nat  BY <1>1, ConstantsOK DEF Types, TypeOK
<1>3. Fault => faults' \in 0 .. MaxFaults  BY <1>2 DEF Fault
<1> QED  BY <1>1, <1>2, <1>3 DEF Types, TypeOK, Works

LEMMA ThrowsTrue ==
    ASSUME NEW x, NEW found, NEW r, NEW told
    PROVE  WorkTrue("record", x, found, r, told) /\ WorkTrue("idle", x, found, r, told)
           /\ WorkTrue("handle", x, found, r, told)
BY DEF WorkTrue

LEMMA BeginPageKeeps ==
    ASSUME TInv, NEW w \in Worker, BeginPage(w)
    PROVE  TInv'
<1> DEFINE x == seen[w]
<1>1. /\ pc[w] = "handle" /\ Handling /\ UNCHANGED outside /\ faults' = faults
      /\ erasing' = [erasing EXCEPT ![w] = x.phase = "local_execution" \/ request = "created"]
  BY DEF BeginPage
<1>2. /\ ret[w] \in Found /\ faults \in 0 .. MaxFaults /\ request \in Request
      /\ erasing \in [Worker -> BOOLEAN]
  BY WorkerTyped
<1>3. erasing' \in [Worker -> BOOLEAN]  BY <1>1, <1>2
<1>4. job.changed => job'.changed  BY <1>1 DEF Handling
<1>5. /\ Later(request, request') /\ reports \subseteq reports' /\ Effects'
      /\ request' \in Request /\ reports' \subseteq {"accepted", "rejected"}
      /\ erased' \in [Subject -> Nat]
      /\ request' = request /\ reports' = reports
  BY <1>1, <1>4, OutsideSame
<1>6. pc[w] \in Handler  BY <1>1 DEF Handler
<1>7. ASSUME NEW label \in Handler \cup {"record"}, NEW found \in Found, Exit(w, label, found),
             WorkTrue(label, x, found, request, reports)
      PROVE  TInv'
  BY <1>1, <1>2, <1>3, <1>5, <1>6, <1>7, HandlerKeeps
<1>8. CASE Throw(w)
  <2>1. Exit(w, "record", ret[w])  BY <1>8, Exits
  <2> QED  BY <1>2, <1>7, <2>1, ThrowsTrue
<1>9. CASE x.phase = "none" /\ Return(w, "none")
  <2>1. Exit(w, "commit", "none")  BY <1>9, Exits
  <2>2. WorkTrue("commit", x, "none", request, reports)  BY <1>9 DEF WorkTrue, FoundTrue
  <2>3. "commit" \in Handler /\ "none" \in Found  BY DEF Handler, Found
  <2> QED  BY <1>7, <2>1, <2>2, <2>3
<1>10. CASE x.phase = "local_execution" /\ Proceed(w, "reserve")
  <2>1. "reserve" \in Handler  BY DEF Handler
  <2>2. Exit(w, "reserve", ret[w])  BY <1>10, <2>1, Exits
  <2>3. WorkTrue("reserve", x, ret[w], request, reports)  BY <1>10 DEF WorkTrue
  <2> QED  BY <1>2, <1>7, <2>1, <2>2, <2>3
<1>11. CASE x.phase = "callback" /\ request = "completed" /\ Proceed(w, "put")
  <2>1. "put" \in Handler  BY DEF Handler
  <2>2. Exit(w, "put", ret[w])  BY <1>11, <2>1, Exits
  <2>3. WorkTrue("put", x, ret[w], request, reports)  BY <1>11 DEF WorkTrue
  <2> QED  BY <1>2, <1>7, <2>1, <2>2, <2>3
<1>12. CASE x.phase = "local_recovery" /\ request = "created" /\ Proceed(w, "reserve")
  <2>1. "reserve" \in Handler  BY DEF Handler
  <2>2. Exit(w, "reserve", ret[w])  BY <1>12, <2>1, Exits
  <2>3. WorkTrue("reserve", x, ret[w], request, reports)  BY <1>12 DEF WorkTrue
  <2> QED  BY <1>2, <1>7, <2>1, <2>2, <2>3
<1>13. CASE x.phase = "local_recovery" /\ request \in DataGone \ {"completed"} /\ Proceed(w, "complete")
  <2>1. "complete" \in Handler  BY DEF Handler
  <2>2. Exit(w, "complete", ret[w])  BY <1>13, <2>1, Exits
  <2>3. WorkTrue("complete", x, ret[w], request, reports)
    BY <1>13 DEF WorkTrue, DataGone, Settled
  <2> QED  BY <1>2, <1>7, <2>1, <2>2, <2>3
<1>14. CASE x.phase = "local_recovery" /\ request \in {"refused", "completed"} /\ Return(w, request)
  <2>1. Exit(w, "commit", request)  BY <1>14, Exits
  <2>2. WorkTrue("commit", x, request, request, reports)  BY <1>14 DEF WorkTrue, FoundTrue
  <2>3. "commit" \in Handler /\ request \in Found  BY <1>2 DEF Handler, Found
  <2> QED  BY <1>7, <2>1, <2>2, <2>3
<1> QED
  BY <1>8, <1>9, <1>10, <1>11, <1>12, <1>13, <1>14 DEF BeginPage, RecoverLocal

LEMMA FailPageKeeps ==
    ASSUME TInv, NEW w \in Worker, FailPage(w)
    PROVE  TInv'
<1>1. /\ pc[w] \in Handler /\ Handling /\ UNCHANGED outside /\ Throw(w)
      /\ faults' = faults /\ erasing' = erasing
  BY DEF FailPage, Handler
<1>2. /\ ret[w] \in Found /\ faults \in 0 .. MaxFaults /\ erasing \in [Worker -> BOOLEAN]
  BY WorkerTyped
<1>3. job.changed => job'.changed  BY <1>1 DEF Handling
<1>4. /\ Later(request, request') /\ reports \subseteq reports' /\ Effects'
      /\ request' \in Request /\ reports' \subseteq {"accepted", "rejected"}
      /\ erased' \in [Subject -> Nat]
  BY <1>1, <1>3, OutsideSame
<1>5. Exit(w, "record", ret[w])  BY <1>1, Exits
<1>6. WorkTrue("record", seen[w], ret[w], request', reports')  BY ThrowsTrue
<1> QED  BY <1>1, <1>2, <1>4, <1>5, <1>6, HandlerKeeps

\* The request moves on, and nothing else has an effect.
LEMMA EffectsMove ==
    ASSUME TInv, Later(request, request'), erased' = erased, reports' = reports,
           job.changed => job'.changed, request = "absent" /\ request' # "absent" => job.changed
    PROVE  Effects' /\ erased' \in [Subject -> Nat] /\ reports' \subseteq {"accepted", "rejected"}
<1>1. Effects /\ Types  BY DEF TInv
<1>2. request' # "absent" => job'.changed  BY <1>1 DEF Effects
<1>3. reports' # {} => request' = "completed"  BY <1>1 DEF Effects, Later
<1>4. request' \in {"absent", "created", "refused"} => request \in {"absent", "created", "refused"}
  BY DEF Later
<1> QED  BY <1>1, <1>2, <1>3, <1>4 DEF Effects, Types, TypeOK

\* What a step of the handler that calls the durable erasure has to show.
LEMMA CallKeeps ==
    ASSUME TInv, NEW w \in Worker, pc[w] \in Handler, Handling, UNCHANGED <<erasing, reports>>,
           NEW label \in Handler \cup {"record"}, NEW found \in Found, Exit(w, label, found),
           Later(request, request'), request' \in Request, erased' = erased,
           request = "absent" /\ request' # "absent" => job.changed,
           NoFault \/ Fault,
           WorkTrue(label, seen[w], found, request', reports)
    PROVE  TInv'
<1>1. erasing' \in [Worker -> BOOLEAN] /\ faults' \in 0 .. MaxFaults
  BY WorkerTyped DEF NoFault
<1>2. job.changed => job'.changed  BY DEF Handling
<1>3. Effects' /\ erased' \in [Subject -> Nat] /\ reports' \subseteq {"accepted", "rejected"}
  BY <1>2, EffectsMove
<1>4. reports \subseteq reports' /\ WorkTrue(label, seen[w], found, request', reports')
  OBVIOUS
<1> QED  BY <1>1, <1>3, <1>4, HandlerKeeps

LEMMA ReserveKeeps ==
    ASSUME TInv, NEW w \in Worker, Reserve(w)
    PROVE  TInv'
<1> DEFINE x == seen[w]
<1>1. pc[w] = "reserve" /\ Handling /\ UNCHANGED <<erasing, reports>> /\ erased' = erased
  BY DEF Reserve
<1>2. pc[w] \in Handler /\ ret[w] \in Found /\ request \in Request
  BY <1>1, WorkerTyped DEF Handler
<1>3. x.phase \notin {"none", "callback"} /\ (x.phase = "local_execution" \/ request # "absent")
  BY <1>1, WorkerTyped DEF WorkTrue
<1>4. request = "absent" => job.changed
  <2>1. x.phase # "none" => x.changed  BY WorkerTyped DEF RowTrue
  <2> QED  BY <1>3, <2>1, WorkerTyped
<1>5. \/ request' = IF request = "absent" THEN "created" ELSE request
      \/ request' = request
  BY DEF Reserve
<1>6. Later(request, request') /\ request' \in Request  BY <1>2, <1>5 DEF Later, Request
<1>7. CASE NotStarted(w) /\ Fault
  <2>1. Exit(w, "record", ret[w])  BY <1>7, Exits DEF NotStarted
  <2>2. WorkTrue("record", x, ret[w], request', reports)  BY ThrowsTrue
  <2> QED  BY <1>1, <1>2, <1>4, <1>6, <1>7, <2>1, <2>2, CallKeeps
<1>8. CASE Proceed(w, "execute") /\ NoFault /\ request' = IF request = "absent" THEN "created" ELSE request
  <2>1. "execute" \in Handler  BY DEF Handler
  <2>2. Exit(w, "execute", ret[w])  BY <1>8, <2>1, Exits
  <2>3. request' # "absent"  BY <1>8
  <2>4. WorkTrue("execute", x, ret[w], request', reports)  BY <1>3, <2>3 DEF WorkTrue
  <2> QED  BY <1>1, <1>2, <1>4, <1>6, <1>8, <2>1, <2>2, <2>4, CallKeeps
<1> QED  BY <1>7, <1>8 DEF Reserve

\* No answer is no evidence against what was there before the call.
LEMMA NoAnswerExits ==
    ASSUME TInv, NEW w \in Worker, NoAnswer(w), NEW r, r # "absent"
    PROVE  /\ Fault
           /\ \E label \in Handler \cup {"record"} : \E found \in Found :
                Exit(w, label, found) /\ WorkTrue(label, seen[w], found, r, reports)
<1>1. CASE seen[w].phase = "local_execution"
  <2>1. Exit(w, "commit", "unknown")  BY <1>1, Exits DEF NoAnswer
  <2>2. WorkTrue("commit", seen[w], "unknown", r, reports)  BY <1>1 DEF WorkTrue, FoundTrue
  <2>3. "commit" \in Handler /\ "unknown" \in Found  BY DEF Handler, Found
  <2> QED  BY <2>1, <2>2, <2>3 DEF NoAnswer
<1>2. CASE seen[w].phase # "local_execution"
  <2>1. Exit(w, "record", ret[w])  BY <1>2, Exits DEF NoAnswer
  <2>2. ret[w] \in Found  BY WorkerTyped
  <2> QED  BY <2>1, <2>2, ThrowsTrue DEF NoAnswer
<1> QED  BY <1>1, <1>2

LEMMA CompleteKeeps ==
    ASSUME TInv, NEW w \in Worker, Complete(w)
    PROVE  TInv'
<1> DEFINE x == seen[w]
<1>1. pc[w] = "complete" /\ Handling /\ UNCHANGED <<erasing, reports>> /\ erased' = erased
  BY DEF Complete
<1>2. pc[w] \in Handler /\ ret[w] \in Found /\ request \in Request
  BY <1>1, WorkerTyped DEF Handler
<1>3. x.phase \notin {"none", "callback"} /\ request \in Settled \cup {"committed"}
  BY <1>1, WorkerTyped DEF WorkTrue
<1>4. request' \in Completed \cup {request}  BY DEF Complete
<1>5. /\ Later(request, request') /\ request' \in Request /\ request # "absent" /\ request' # "absent"
      /\ request' \in Completed => request' \in Settled
  BY <1>2, <1>3, <1>4 DEF Later, Request, Completed, Settled
<1>6. CASE request' \in Completed /\ Proceed(w, "deliver") /\ NoFault
  <2>1. "deliver" \in Handler  BY DEF Handler
  <2>2. Exit(w, "deliver", ret[w])  BY <1>6, <2>1, Exits
  <2>3. WorkTrue("deliver", x, ret[w], request', reports)  BY <1>3, <1>5, <1>6 DEF WorkTrue
  <2> QED  BY <1>1, <1>2, <1>5, <1>6, <2>1, <2>2, <2>3, CallKeeps
<1>7. CASE NoAnswer(w)
  <2>1. PICK label \in Handler \cup {"record"}, found \in Found :
            Exit(w, label, found) /\ WorkTrue(label, seen[w], found, request', reports)
    BY <1>5, <1>7, NoAnswerExits
  <2>2. Fault  BY <1>7 DEF NoAnswer
  <2> QED  BY <1>1, <1>2, <1>5, <2>1, <2>2, CallKeeps
<1> QED  BY <1>6, <1>7 DEF Complete

LEMMA DeliverKeeps ==
    ASSUME TInv, NEW w \in Worker, Deliver(w)
    PROVE  TInv'
<1> DEFINE x == seen[w]
<1>1. /\ pc[w] = "deliver" /\ Handling /\ UNCHANGED <<erasing, reports>> /\ erased' = erased
      /\ request' = request
  BY DEF Deliver, outside
<1>2. pc[w] \in Handler /\ ret[w] \in Found /\ request \in Request
  BY <1>1, WorkerTyped DEF Handler
<1>3. x.phase \notin {"none", "callback"} /\ request \in Settled
  BY <1>1, WorkerTyped DEF WorkTrue
<1>4. Later(request, request') /\ request' \in Request /\ request # "absent"
  BY <1>1, <1>2, <1>3 DEF Later, Settled
<1>5. CASE Throw(w) /\ NoFault
  <2>1. Exit(w, "record", ret[w])  BY <1>5, Exits
  <2>2. WorkTrue("record", x, ret[w], request', reports)  BY ThrowsTrue
  <2> QED  BY <1>1, <1>2, <1>4, <1>5, <2>1, <2>2, CallKeeps
<1>6. CASE Return(w, request) /\ NoFault
  <2>1. Exit(w, "commit", request)  BY <1>6, Exits
  <2>2. WorkTrue("commit", x, request, request', reports)
    BY <1>1, <1>3 DEF WorkTrue, FoundTrue, Settled
  <2>3. "commit" \in Handler /\ request \in Found  BY <1>2 DEF Handler, Found
  <2> QED  BY <1>1, <1>2, <1>4, <1>6, <2>1, <2>2, <2>3, CallKeeps
<1>7. CASE NoAnswer(w)
  <2>1. PICK label \in Handler \cup {"record"}, found \in Found :
            Exit(w, label, found) /\ WorkTrue(label, seen[w], found, request', reports)
    BY <1>1, <1>4, <1>7, NoAnswerExits
  <2>2. Fault  BY <1>7 DEF NoAnswer
  <2> QED  BY <1>1, <1>2, <1>4, <2>1, <2>2, CallKeeps
<1> QED  BY <1>5, <1>6, <1>7 DEF Deliver

\* The request under the job's key is executed once, for one subject.
LEMMA ExecuteKeeps ==
    ASSUME TInv, NEW w \in Worker, Execute(w)
    PROVE  TInv'
<1> DEFINE x == seen[w]
           erases == request' = "committed" /\ request = "created"
<1>1. /\ pc[w] = "execute" /\ Handling /\ UNCHANGED <<erasing, reports>>
      /\ request' \in IF request = "created" THEN {"created", "committed", "refused"} ELSE {request}
      /\ erased' = IF erases THEN [erased EXCEPT ![x.subject] = @ + 1] ELSE erased
      /\ (request' # "created" /\ Proceed(w, "complete") /\ NoFault) \/ NoAnswer(w)
  BY DEF Execute
<1>2. /\ pc[w] \in Handler /\ ret[w] \in Found /\ request \in Request /\ x \in Job
      /\ Effects /\ Types
  BY <1>1, WorkerTyped DEF Handler, TInv
<1>3. x.phase \notin {"none", "callback"} /\ request # "absent"
  BY <1>1, WorkerTyped DEF WorkTrue
<1>4. /\ Later(request, request') /\ request' \in Request /\ request' # "absent"
      /\ request' # "created" => request' \in Settled \cup {"committed"}
  BY <1>1, <1>2, <1>3 DEF Later, Request, Settled
<1>5. \E label \in Handler \cup {"record"} : \E found \in Found :
        Exit(w, label, found) /\ WorkTrue(label, seen[w], found, request', reports)
  <2>1. CASE request' # "created" /\ Proceed(w, "complete")
    <3>1. "complete" \in Handler  BY DEF Handler
    <3>2. Exit(w, "complete", ret[w])  BY <2>1, <3>1, Exits
    <3>3. WorkTrue("complete", x, ret[w], request', reports)  BY <1>3, <1>4, <2>1 DEF WorkTrue
    <3> QED  BY <1>2, <3>1, <3>2, <3>3
  <2>2. CASE NoAnswer(w)  BY <1>4, <2>2, NoAnswerExits
  <2> QED  BY <1>1, <2>1, <2>2
<1>6. PICK label \in Handler \cup {"record"}, found \in Found :
        Exit(w, label, found) /\ WorkTrue(label, seen[w], found, request', reports)
  BY <1>5
<1>7. NoFault \/ Fault  BY <1>1 DEF NoAnswer
<1>8. CASE ~erases
  <2>1. erased' = erased  BY <1>1, <1>8
  <2> QED  BY <1>1, <1>2, <1>3, <1>4, <1>6, <1>7, <2>1, CallKeeps
<1>9. CASE erases
  <2>1. erased = [t \in Subject |-> 0]  BY <1>2, <1>9 DEF Effects
  <2>2. x.subject \in Subject \cup {None}  BY <1>2 DEF Job
  <2>3. erased' = [t \in Subject |-> IF t = x.subject THEN 1 ELSE 0]  BY <1>1, <1>9, <2>1
  <2>4. erased' \in [Subject -> Nat]  BY <2>3
  <2>5. request' = "committed" /\ reports' = reports /\ job' = job
    BY <1>1, <1>9 DEF Handling
  <2>6. Effects'
    <3>1. reports' = {}  BY <1>2, <1>9, <2>5 DEF Effects
    <3>2. job'.changed  BY <1>2, <1>3, <2>5 DEF Effects
    <3> QED  BY <2>2, <2>3, <2>5, <3>1, <3>2 DEF Effects
  <2>7. erasing' \in [Worker -> BOOLEAN] /\ faults' \in 0 .. MaxFaults
    BY <1>1, <1>7, WorkerTyped DEF NoFault
  <2>8. reports \subseteq reports' /\ reports' \subseteq {"accepted", "rejected"}
    BY <1>2, <2>5 DEF Types, TypeOK
  <2>9. WorkTrue(label, seen[w], found, request', reports')  BY <1>6, <2>5
  <2> QED  BY <1>1, <1>2, <1>4, <1>6, <2>4, <2>6, <2>7, <2>8, <2>9, HandlerKeeps
<1> QED  BY <1>8, <1>9

\* The provider is told of a completed request.
LEMMA PutKeeps ==
    ASSUME TInv, NEW w \in Worker, Put(w)
    PROVE  TInv'
<1>1. PICK answer \in {"accepted", "rejected"} :
        reports' = reports \cup {answer} /\ (Return(w, answer) \/ Throw(w))
  BY DEF Put
<1>2. /\ pc[w] = "put" /\ Handling /\ erasing' = erasing /\ faults' = faults
      /\ request' = request /\ erased' = erased
  BY DEF Put
<1>3. /\ pc[w] \in Handler /\ ret[w] \in Found /\ request \in Request
      /\ faults' \in 0 .. MaxFaults /\ erasing' \in [Worker -> BOOLEAN]
      /\ Effects /\ Types
  BY <1>2, WorkerTyped DEF Handler, TInv
<1>4. seen[w].phase = "callback"  BY <1>2, WorkerTyped DEF WorkTrue
<1>5. request = "completed"  BY <1>4, WorkerTyped DEF RowTrue
<1>6. Effects'  BY <1>2, <1>3, <1>5 DEF Effects, Handling
<1>7. /\ Later(request, request') /\ request' \in Request /\ erased' \in [Subject -> Nat]
      /\ reports \subseteq reports' /\ reports' \subseteq {"accepted", "rejected"}
  BY <1>1, <1>2, <1>3 DEF Later, Types, TypeOK
<1>8. CASE Return(w, answer)
  <2>1. Exit(w, "commit", answer)  BY <1>8, Exits
  <2>2. WorkTrue("commit", seen[w], answer, request', reports')
    BY <1>1, <1>4 DEF WorkTrue, FoundTrue
  <2>3. "commit" \in Handler /\ answer \in Found  BY DEF Handler, Found
  <2> QED  BY <1>2, <1>3, <1>6, <1>7, <2>1, <2>2, <2>3, HandlerKeeps
<1>9. CASE Throw(w)
  <2>1. Exit(w, "record", ret[w])  BY <1>9, Exits
  <2>2. WorkTrue("record", seen[w], ret[w], request', reports')  BY ThrowsTrue
  <2> QED  BY <1>2, <1>3, <1>6, <1>7, <2>1, <2>2, HandlerKeeps
<1> QED  BY <1>1, <1>8, <1>9

-----------------------------------------------------------------------------
(* The queue *)

LEMMA ClaimKeeps ==
    ASSUME TInv, NEW w \in Worker, Claim(w)
    PROVE  TInv'
<1>1. /\ job.state = "queued" /\ lock' = w /\ current' = current \cup {w}
      /\ pc' = [pc EXCEPT ![w] = "handle"] /\ seen' = [seen EXCEPT ![w] = job]
      /\ UNCHANGED <<job, expired, outside, delivery, accepted, erasing, ret, retries, faults>>
  BY DEF Claim, Goto, receiver
<1>2. Types /\ Claims /\ Receipts  BY DEF TInv
<1>3. /\ \A p \in Receiver \cup Worker : pc'[p] = IF p = w THEN "handle" ELSE pc[p]
      /\ \A v \in Worker : seen'[v] = IF v = w THEN job ELSE seen[v]
      /\ current \subseteq Worker /\ job \in Job
  BY <1>1, <1>2 DEF Types, TypeOK
<1>4. job.changed => job'.changed  BY <1>1
<1>5. /\ Later(request, request') /\ reports \subseteq reports' /\ Effects'
      /\ request' = request /\ reports' = reports /\ erased' \in [Subject -> Nat]
  BY <1>1, <1>4, OutsideSame
<1>6. Types'
  <2>1. pc' \in [Receiver \cup Worker ->
                   Handler \cup {"idle", "record", "get", "resolve", "submit", "winner"}]
    BY <1>1, <1>2 DEF Types, Handler
  <2>2. seen' \in [Worker -> Job]  BY <1>1, <1>2, <1>3 DEF Types, TypeOK
  <2>3. TypeOK'  BY <1>1, <1>2, <1>3, <1>5, <2>2 DEF Types, TypeOK
  <2> QED  BY <1>1, <1>2, <2>1, <2>3 DEF Types
<1>7. Claims'
  BY <1>1, <1>2, <1>3 DEF Claims, Handler
<1>8. Receipts'
  <2>1. \A r \in Receiver : pc'[r] = pc[r]  BY <1>3, ConstantsOK
  <2> QED  BY <1>1, <1>2, <2>1 DEF Receipts
<1>9. RowTrue(job', request', reports')  BY <1>1, <1>5 DEF TInv
<1>10. Works(w)'
  <2>1. seen'[w] = job' /\ pc'[w] = "handle"  BY <1>1, <1>3
  <2>2. WorkTrue("handle", seen'[w], ret'[w], request', reports')  BY ThrowsTrue
  <2> QED  BY <1>9, <2>1, <2>2 DEF Works
<1> DEFINE W == {w}
<1>11. \A v \in W : Works(v)'  BY <1>10
<1>12. /\ W \subseteq Worker
       /\ \A v \in Worker \ W : pc'[v] = pc[v] /\ seen'[v] = seen[v] /\ ret'[v] = ret[v]
  BY <1>1, <1>3
<1> HIDE DEF W
<1> QED  BY <1>4, <1>5, <1>6, <1>7, <1>8, <1>9, <1>11, <1>12, StepKeeps

LEMMA NoJobTrue ==
    ASSUME NEW r, NEW told
    PROVE  NoJob \in Job /\ RowTrue(NoJob, r, told) /\ ~NoJob.changed
<1>1. NoResult \in Result /\ NoResult.status = "none" /\ NoResult.data = FALSE
      /\ NoResult.provider = "none"
  BY NoResultTyped
<1> QED  BY <1>1 DEF NoJob, Job, RowTrue

\* What the end of a page has to show.
LEMMA EndKeeps ==
    ASSUME TInv, NEW w \in Worker, EndPage(w), UNCHANGED <<outside, receiver, expired, retries>>,
           faults' \in 0 .. MaxFaults,
           job' \in Job, job.changed => job'.changed, RowTrue(job', request, reports),
           job.state # "absent" => job'.state # "absent",
           job.state = "absent" => job' = job,
           job'.print = job.print \/ job'.print = None,
           current' \subseteq current \ {w}, current' # {} => job' = job,
           lock' # None => lock' = lock /\ lock # w /\ lock \in current' /\ job' = job,
           lock' \in Worker \cup {None}
    PROVE  TInv'
<1>1. /\ pc' = [pc EXCEPT ![w] = "idle"] /\ seen' = [seen EXCEPT ![w] = NoJob]
      /\ erasing' = [erasing EXCEPT ![w] = FALSE] /\ ret' = [ret EXCEPT ![w] = "none"]
      /\ UNCHANGED <<delivery, accepted>>
  BY DEF EndPage, Goto, receiver
<1>2. Types /\ Claims /\ Receipts  BY DEF TInv
<1>3. /\ \A p \in Receiver \cup Worker : pc'[p] = IF p = w THEN "idle" ELSE pc[p]
      /\ \A v \in Worker : seen'[v] = IF v = w THEN NoJob ELSE seen[v]
      /\ \A v \in Worker : v # w => ret'[v] = ret[v]
      /\ current \subseteq Worker
  BY <1>1, <1>2 DEF Types, TypeOK
<1>4. NoJob \in Job /\ RowTrue(NoJob, request', reports') /\ ~NoJob.changed  BY NoJobTrue
<1>5. /\ Later(request, request') /\ reports \subseteq reports' /\ Effects'
      /\ request' = request /\ reports' = reports /\ erased' \in [Subject -> Nat]
  BY OutsideSame
<1>6. Types'
  <2>1. pc' \in [Receiver \cup Worker ->
                   Handler \cup {"idle", "record", "get", "resolve", "submit", "winner"}]
    BY <1>1, <1>2 DEF Types
  <2>2. seen' \in [Worker -> Job] /\ erasing' \in [Worker -> BOOLEAN]
    BY <1>1, <1>2, <1>4 DEF Types, TypeOK
  <2>3. ret' \in [Worker -> Found]  BY <1>1, <1>2 DEF Types, Found
  <2>4. TypeOK'  BY <1>1, <1>2, <1>3, <1>5, <2>2 DEF Types, TypeOK
  <2> QED  BY <1>1, <1>2, <2>1, <2>3, <2>4 DEF Types
<1>7. Claims'
  <2>1. ASSUME NEW v \in current' PROVE seen'[v] = job' /\ pc'[v] # "idle"
    <3>1. v \in current /\ v # w /\ v \in Worker /\ job' = job  BY <1>3
    <3> QED  BY <1>2, <1>3, <3>1 DEF Claims
  <2>2. ASSUME lock' # None
        PROVE  lock' \in current' /\ job'.state = "queued" /\ pc'[lock'] \in Handler
    <3>1. lock' = lock /\ lock # w /\ lock \in current' /\ job' = job  BY <2>2
    <3>2. lock \in Worker  BY <1>3, <3>1
    <3> QED  BY <1>2, <1>3, <2>2, <3>1, <3>2 DEF Claims
  <2> QED  BY <2>1, <2>2 DEF Claims
<1>8. Receipts'
  <2>1. \A r \in Receiver : pc'[r] = pc[r]  BY <1>3, ConstantsOK
  <2> QED  BY <1>1, <1>2, <2>1 DEF Receipts
<1>9. RowTrue(job', request', reports')  BY <1>5
<1>10. Works(w)'
  <2>1. seen'[w] = NoJob /\ pc'[w] = "idle"  BY <1>3
  <2>2. WorkTrue("idle", seen'[w], ret'[w], request', reports')  BY ThrowsTrue
  <2> QED  BY <1>4, <2>1, <2>2 DEF Works
<1> DEFINE W == {w}
<1>11. \A v \in W : Works(v)'  BY <1>10
<1>12. /\ W \subseteq Worker
       /\ \A v \in Worker \ W : pc'[v] = pc[v] /\ seen'[v] = seen[v] /\ ret'[v] = ret[v]
  BY <1>3
<1> HIDE DEF W
<1> QED  BY <1>5, <1>6, <1>7, <1>8, <1>9, <1>11, <1>12, StepKeeps

LEMMA JobTyped ==
    ASSUME TInv
    PROVE  /\ job \in Job /\ lock \in Worker \cup {None} /\ current \subseteq Worker
           /\ faults \in 0 .. MaxFaults /\ retries \in 0 .. MaxRetries /\ expired \in BOOLEAN
           /\ RowTrue(job, request, reports)
           /\ lock # None => lock \in current /\ job.state = "queued"
           /\ job.state = "absent" => lock = None
           /\ None \notin Worker
BY ConstantsOK DEF TInv, Types, TypeOK, Claims

LEMMA CommitPageKeeps ==
    ASSUME TInv, NEW w \in Worker, CommitPage(w)
    PROVE  TInv'
<1> DEFINE y == Stepped(seen[w], ret[w])
<1>1. /\ pc[w] = "commit" /\ lock = w /\ job' = y /\ current' = {} /\ lock' = None
      /\ EndPage(w) /\ UNCHANGED <<outside, receiver, expired, retries>> /\ faults' = faults
  BY DEF CommitPage, Write, Release
<1>2. w \in current /\ job.state = "queued" /\ seen[w] = job
  BY <1>1, JobTyped DEF TInv, Claims
<1>3. FoundTrue(job, ret[w], request, reports)
  BY <1>1, <1>2, WorkerTyped DEF WorkTrue
<1>4. job \in Job /\ ret[w] \in Found /\ RowTrue(job, request, reports)
  BY JobTyped, WorkerTyped
<1>5. /\ y \in Job /\ y.state \in {"queued", "completed"} /\ y.print = job.print
      /\ job.changed => y.changed
      /\ RowTrue(y, request, reports)
  BY <1>2, <1>3, <1>4, SteppedTrue
<1> HIDE DEF y
<1>6. y.state # "absent" /\ job.state # "absent"  BY <1>2, <1>5
<1>7. current' \subseteq current \ {w} /\ faults' \in 0 .. MaxFaults  BY <1>1, JobTyped
<1> QED  BY <1>1, <1>5, <1>6, <1>7, EndKeeps

\* A row that an operation, a failure or retention makes of the row x.
Changes(y, x) ==
    /\ y \in Job /\ y.state # "absent" /\ (x.changed => y.changed)
    /\ y.print \in {x.print, None}

LEMMA PurgedTrue ==
    ASSUME TInv, job.state # "absent"
    PROVE  Changes(Purged, job) /\ RowTrue(Purged, request, reports)
<1>1. job \in Job  BY JobTyped
<1>2. NoResult \in Result /\ NoResult.status = "none" /\ NoResult.data = FALSE
      /\ NoResult.provider = "none"
  BY NoResultTyped
<1>3. /\ Purged \in Job /\ Purged.state # "absent" /\ Purged.changed = job.changed
      /\ Purged.print = None /\ Purged.phase = "none" /\ Purged.named = FALSE
      /\ Purged.result = NoResult
  BY <1>1, <1>2 DEF Purged, Job
<1> QED  BY <1>2, <1>3 DEF Changes, RowTrue

\* A row in another state, or with other attempts.
LEMMA MovedTrue ==
    ASSUME TInv, NEW state \in {"queued", "failed", "cancelled"}, NEW attempts \in Nat,
           NEW y, y = [job EXCEPT !.state = state, !.attempts = attempts]
    PROVE  Changes(y, job) /\ RowTrue(y, request, reports)
<1>1. job \in Job /\ RowTrue(job, request, reports)  BY JobTyped
<1>2. /\ y \in Job /\ y.state = state /\ y.changed = job.changed /\ y.print = job.print
      /\ y.phase = job.phase /\ y.named = job.named /\ y.result = job.result
  BY <1>1 DEF Job
<1> QED  BY <1>1, <1>2 DEF Changes, RowTrue

LEMMA RecordFailureKeeps ==
    ASSUME TInv, NEW w \in Worker, RecordFailure(w)
    PROVE  TInv'
<1>1. /\ lock = None /\ lock' = lock /\ EndPage(w) /\ faults' = faults
      /\ UNCHANGED <<outside, receiver, expired, retries>>
  BY DEF RecordFailure, Free
<1>2. faults' \in 0 .. MaxFaults /\ job \in Job /\ RowTrue(job, request, reports)
      /\ lock' \in Worker \cup {None}
  BY <1>1, JobTyped
<1>3. CASE UNCHANGED job /\ current' = current \ {w}
  BY <1>1, <1>2, <1>3, EndKeeps
<1>4. ASSUME w \in current, job.state = "queued",
             NEW y, job' = y, current' = {}, Changes(y, job), RowTrue(y, request, reports)
      PROVE  TInv'
  <2>1. job.state # "absent"  BY <1>4
  <2>2. current' \subseteq current \ {w}  BY <1>4
  <2> QED  BY <1>1, <1>2, <1>4, <2>1, <2>2, EndKeeps DEF Changes
<1>5. CASE w \in current /\ job.state = "queued" /\ expired /\ Write(Purged)
  <2>1. Changes(Purged, job) /\ RowTrue(Purged, request, reports)  BY <1>5, PurgedTrue
  <2> QED  BY <1>4, <1>5, <2>1 DEF Write
<1>6. CASE /\ w \in current /\ job.state = "queued"
           /\ Write([job EXCEPT !.attempts = @ + 1,
                       !.state = IF job.attempts + 1 >= MaxAttempts THEN "failed" ELSE @])
  <2> DEFINE state == IF job.attempts + 1 >= MaxAttempts THEN "failed" ELSE job.state
             y == [job EXCEPT !.state = state, !.attempts = job.attempts + 1]
  <2>1. job.attempts + 1 \in Nat /\ state \in {"queued", "failed", "cancelled"}
    BY <1>2, <1>6 DEF Job
  <2>2. job' = y /\ current' = {}  BY <1>2, <1>6 DEF Write, Job
  <2>3. Changes(y, job) /\ RowTrue(y, request, reports)  BY <2>1, MovedTrue
  <2> HIDE DEF y
  <2> QED  BY <1>4, <1>6, <2>2, <2>3
<1> QED  BY <1>3, <1>5, <1>6 DEF RecordFailure

LEMMA LosePageKeeps ==
    ASSUME TInv, NEW w \in Worker, LosePage(w)
    PROVE  TInv'
<1>1. /\ Fault /\ EndPage(w) /\ UNCHANGED <<outside, receiver, expired, retries>>
      /\ job' = job /\ current' = current \ {w} /\ lock' = IF lock = w THEN None ELSE lock
  BY DEF LosePage, Release
<1>2. /\ faults' \in 0 .. MaxFaults /\ job \in Job /\ RowTrue(job, request, reports)
      /\ lock \in Worker \cup {None} /\ (lock # None => lock \in current)
  BY <1>1, JobTyped, WorkerTyped
<1>3. lock' # None => lock' = lock /\ lock # w /\ lock \in current'  BY <1>1, <1>2
<1>4. lock' \in Worker \cup {None}  BY <1>1, <1>2
<1> QED  BY <1>1, <1>2, <1>3, <1>4, EndKeeps

\* What a step of no process has to show.
LEMMA ElseKeeps ==
    ASSUME TInv, UNCHANGED <<pc, receiver, worker>>, TypeOK', Claims', Receipts', Effects',
           Later(request, request'), reports \subseteq reports',
           RowTrue(job', request', reports'), job.changed => job'.changed
    PROVE  TInv'
<1>1. UNCHANGED <<delivery, accepted, seen, erasing, ret>>  BY DEF receiver, worker
<1>2. Types'  BY <1>1 DEF TInv, Types
<1> DEFINE W == {}
<1>3. /\ W \subseteq Worker /\ \A v \in W : Works(v)'
      /\ \A v \in Worker \ W : pc'[v] = pc[v] /\ seen'[v] = seen[v] /\ ret'[v] = ret[v]
  BY <1>1
<1> HIDE DEF W
<1> QED  BY <1>2, <1>3, StepKeeps

\* An operation on the row.
LEMMA OperateKeeps ==
    ASSUME TInv, lock = None, NEW y, Changes(y, job), RowTrue(y, request, reports),
           job.state # "absent",
           job' = y, current' = {}, retries' \in 0 .. MaxRetries,
           UNCHANGED <<expired, lock, outside, pc, receiver, worker, faults>>
    PROVE  TInv'
<1>1. /\ y \in Job /\ y.state # "absent" /\ (job.changed => y.changed)
      /\ y.print \in {job.print, None}
  BY DEF Changes
<1>2. Types /\ Claims /\ Receipts  BY DEF TInv
<1>3. /\ Later(request, request') /\ reports \subseteq reports' /\ Effects'
      /\ request' = request /\ reports' = reports /\ erased' \in [Subject -> Nat]
  BY <1>1, OutsideSame
<1>4. UNCHANGED <<delivery, accepted, seen, erasing, ret>>  BY DEF receiver, worker
<1>5. TypeOK'  BY <1>1, <1>2, <1>3, <1>4 DEF Types, TypeOK
<1>6. Claims'  BY DEF Claims
<1>7. Receipts'  BY <1>1, <1>2, <1>4 DEF Receipts
<1> QED  BY <1>1, <1>3, <1>5, <1>6, <1>7, ElseKeeps

LEMMA OperationsKeep ==
    ASSUME TInv, Cancel \/ Retry \/ Purge \/ \E w \in Worker : ClaimExpired(w)
    PROVE  TInv'
<1>1. job \in Job /\ retries \in 0 .. MaxRetries /\ MaxRetries \in Nat
  BY JobTyped, ConstantsOK
<1>2. CASE Cancel
  <2> DEFINE y == [job EXCEPT !.state = "cancelled", !.attempts = job.attempts]
  <2>1. /\ lock = None /\ job' = y /\ current' = {} /\ retries' = retries
        /\ job.state # "absent" /\ job.attempts \in Nat
        /\ UNCHANGED <<expired, lock, outside, pc, receiver, worker, faults>>
    BY <1>1, <1>2 DEF Cancel, Operate, Free, Write, Job
  <2>2. Changes(y, job) /\ RowTrue(y, request, reports)  BY <2>1, MovedTrue
  <2> HIDE DEF y
  <2> QED  BY <1>1, <2>1, <2>2, OperateKeeps
<1>3. CASE Retry
  <2> DEFINE y == [job EXCEPT !.state = "queued", !.attempts = 0]
  <2>1. /\ lock = None /\ job' = y /\ current' = {} /\ retries' = retries + 1
        /\ job.state # "absent" /\ retries < MaxRetries
        /\ UNCHANGED <<expired, lock, outside, pc, receiver, worker, faults>>
    BY <1>3 DEF Retry, Operate, Free, Write
  <2>2. Changes(y, job) /\ RowTrue(y, request, reports)  BY MovedTrue
  <2>3. retries' \in 0 .. MaxRetries  BY <1>1, <2>1
  <2> HIDE DEF y
  <2> QED  BY <2>1, <2>2, <2>3, OperateKeeps
<1>4. ASSUME Free, Write(Purged), job.state # "absent", retries' = retries,
             UNCHANGED <<expired, lock, outside, pc, receiver, worker, faults>>
      PROVE  TInv'
  <2>1. Changes(Purged, job) /\ RowTrue(Purged, request, reports)  BY <1>4, PurgedTrue
  <2> QED  BY <1>1, <1>4, <2>1, OperateKeeps DEF Free, Write
<1>5. CASE Purge
  <2>1. job.state # "absent"  BY <1>5 DEF Purge, TInv, Receipts, NoJob
  <2> QED  BY <1>4, <1>5, <2>1 DEF Purge
<1>6. CASE \E w \in Worker : ClaimExpired(w)  BY <1>4, <1>6 DEF ClaimExpired
<1> QED  BY <1>2, <1>3, <1>5, <1>6

\* The job is there, with the fingerprint of the delivery.
LEMMA SubmitKeeps ==
    ASSUME TInv, NEW r \in Receiver, Submit(r)
    PROVE  TInv'
<1> DEFINE x == [NoJob EXCEPT !.state = "queued", !.print = delivery[r].print,
                              !.subject = delivery[r].subject]
<1>1. /\ pc[r] = "submit" /\ UNCHANGED <<expired, lock, outside, worker, retries>>
  BY DEF Submit
<1>2. Types /\ Claims /\ Receipts /\ delivery[r].print \in Fingerprint
  BY <1>1, DeliveryTyped DEF TInv
<1>3. faults' \in 0 .. MaxFaults
  <2>1. NoFault \/ Fault  BY DEF Submit
  <2>2. faults \in 0 .. MaxFaults /\ MaxFaults \in Nat  BY JobTyped, ConstantsOK
  <2> QED  BY <2>1, <2>2 DEF NoFault, Fault
<1>4. CASE Goto(r, "winner") /\ UNCHANGED <<job, current, receiver>>
  <2>1. \A p \in Receiver \cup Worker : pc'[p] = IF p = r THEN "winner" ELSE pc[p]
    BY <1>2, <1>4 DEF Types, Goto
  <2>2. UNCHANGED <<job, current, delivery, accepted, seen, erasing, ret, expired, lock>>
    BY <1>1, <1>4 DEF receiver, worker
  <2>3. /\ Later(request, request') /\ reports \subseteq reports' /\ Effects'
        /\ request' = request /\ reports' = reports /\ erased' \in [Subject -> Nat]
    BY <1>1, <2>2, OutsideSame
  <2>4. Types'
    <3>1. pc' \in [Receiver \cup Worker ->
                     Handler \cup {"idle", "record", "get", "resolve", "submit", "winner"}]
      BY <1>2, <1>4 DEF Types, Goto
    <3>2. TypeOK'  BY <1>1, <1>2, <1>3, <2>2, <2>3 DEF Types, TypeOK
    <3> QED  BY <1>2, <2>2, <3>1, <3>2 DEF Types
  <2>5. \A v \in Worker : pc'[v] = pc[v]  BY <2>1, ConstantsOK
  <2>6. Claims'
    <3>1. current \subseteq Worker /\ lock \in Worker \cup {None}  BY JobTyped
    <3> QED  BY <1>2, <2>2, <2>5, <3>1 DEF Claims
  <2>7. Receipts'  BY <1>2, <2>1, <2>2 DEF Receipts
  <2> DEFINE W == {}
  <2>8. /\ W \subseteq Worker /\ \A v \in W : Works(v)'
        /\ \A v \in Worker \ W : pc'[v] = pc[v] /\ seen'[v] = seen[v] /\ ret'[v] = ret[v]
    BY <2>2, <2>5
  <2>9. RowTrue(job', request', reports') /\ (job.changed => job'.changed)
    BY <2>2, <2>3, JobTyped
  <2> HIDE DEF W
  <2> QED  BY <2>3, <2>4, <2>6, <2>7, <2>8, <2>9, StepKeeps
<1>5. CASE job.state = "absent" /\ Write(x)
  <2>1. /\ job = NoJob /\ accepted = {} /\ lock = None /\ job' = x /\ current' = {}
    BY <1>2, <1>5, JobTyped DEF Receipts, Write
  <2>2. /\ x \in Job /\ x.state = "queued" /\ x.print = delivery[r].print
        /\ x.changed = NoJob.changed /\ x.phase = NoJob.phase /\ x.named = NoJob.named
        /\ x.result = NoJob.result
    <3>1. NoJob \in Job  BY NoJobTrue
    <3>2. delivery[r].subject \in Subject \cup {None}  BY DeliveryTyped
    <3> QED  BY <1>2, <3>1, <3>2 DEF Job
  <2>3. RowTrue(x, request, reports) /\ (job.changed => x.changed)
    BY <2>1, <2>2, JobTyped DEF RowTrue
  <2>4. UNCHANGED <<seen, erasing, ret, expired, lock>>  BY <1>1 DEF worker
  <2>5. /\ Later(request, request') /\ reports \subseteq reports' /\ Effects'
        /\ request' = request /\ reports' = reports /\ erased' \in [Subject -> Nat]
    BY <1>1, <2>1, <2>3, OutsideSame
  <2>6. \/ /\ pc' = [pc EXCEPT ![r] = "idle"] /\ accepted' = {x.print}
           /\ delivery' = [delivery EXCEPT ![r] = [print |-> None, subject |-> None]]
        \/ pc' = [pc EXCEPT ![r] = "winner"] /\ accepted' = {} /\ delivery' = delivery
    <3> HIDE DEF x
    <3> QED  BY <1>5, <2>1, <2>2 DEF Submit, Respond, Goto, receiver
  <2> HIDE DEF x
  <2>7. accepted' \subseteq {x.print} /\ x.print \in Fingerprint  BY <1>2, <2>2, <2>6
  <2>8. Types'
    <3>1. pc' \in [Receiver \cup Worker ->
                     Handler \cup {"idle", "record", "get", "resolve", "submit", "winner"}]
      BY <1>2, <2>6 DEF Types
    <3>2. delivery' \in [Receiver -> [print: Fingerprint \cup {None}, subject: Subject \cup {None}]]
      BY <1>2, <2>6 DEF Types
    <3>3. TypeOK'  BY <1>1, <1>2, <1>3, <2>1, <2>2, <2>4, <2>5, <2>7 DEF Types, TypeOK
    <3> QED  BY <1>2, <2>4, <3>1, <3>2, <3>3 DEF Types
  <2>9. Claims'  BY <2>1, <2>4 DEF Claims
  <2>10. /\ \A v \in Worker : pc'[v] = pc[v]
         /\ \A q \in Receiver : q # r => pc'[q] = pc[q] /\ delivery'[q] = delivery[q]
         /\ pc'[r] # "idle" => delivery'[r] = delivery[r]
    <3>1. r \notin Worker  BY ConstantsOK
    <3> QED  BY <1>2, <2>6, <3>1 DEF Types
  <2>11. Receipts'
    <3>1. \A q \in Receiver : pc'[q] # "idle" => delivery'[q].print \in Fingerprint
      BY <1>2, <2>10 DEF Receipts
    <3> QED  BY <2>1, <2>2, <2>7, <3>1 DEF Receipts
  <2> DEFINE W == {}
  <2>12. /\ W \subseteq Worker /\ \A v \in W : Works(v)'
         /\ \A v \in Worker \ W : pc'[v] = pc[v] /\ seen'[v] = seen[v] /\ ret'[v] = ret[v]
    BY <2>4, <2>10
  <2>13. RowTrue(job', request', reports') /\ (job.changed => job'.changed)
    BY <2>1, <2>3, <2>5
  <2> HIDE DEF W
  <2> QED  BY <2>5, <2>8, <2>9, <2>11, <2>12, <2>13, StepKeeps
<1> QED  BY <1>4, <1>5 DEF Submit

\* The row and the outside stay as they are; a page may have timed out.
LEMMA ClockKeeps ==
    ASSUME TInv, TimeOut \/ Expire
    PROVE  TInv'
<1>1. /\ UNCHANGED <<job, current, outside, pc, receiver, worker, retries>>
      /\ lock' \in {lock, None} /\ expired' \in BOOLEAN /\ faults' \in 0 .. MaxFaults
  <2>1. faults \in 0 .. MaxFaults /\ MaxFaults \in Nat /\ expired \in BOOLEAN
    BY JobTyped, ConstantsOK
  <2>2. CASE TimeOut  BY <2>1, <2>2 DEF TimeOut, Fault
  <2>3. CASE Expire  BY <2>1, <2>3 DEF Expire
  <2> QED  BY <2>2, <2>3
<1>2. Types /\ Claims /\ Receipts  BY DEF TInv
<1>3. UNCHANGED <<delivery, accepted, seen, erasing, ret>>  BY <1>1 DEF receiver, worker
<1>4. /\ Later(request, request') /\ reports \subseteq reports' /\ Effects'
      /\ request' = request /\ reports' = reports /\ erased' \in [Subject -> Nat]
  BY <1>1, OutsideSame
<1>5. TypeOK'  BY <1>1, <1>2, <1>3, <1>4 DEF Types, TypeOK
<1>6. Claims'  BY <1>1, <1>2, <1>3 DEF Claims
<1>7. Receipts'  BY <1>1, <1>2, <1>3 DEF Receipts
<1>8. RowTrue(job', request', reports') /\ (job.changed => job'.changed)
  BY <1>1, <1>4, JobTyped
<1> QED  BY <1>1, <1>4, <1>5, <1>6, <1>7, <1>8, ElseKeeps

LEMMA CompleteElsewhereKeeps ==
    ASSUME TInv, CompleteElsewhere
    PROVE  TInv'
<1>1. /\ UNCHANGED <<job, expired, lock, current, reports, erased, pc, receiver, worker, retries, faults>>
      /\ request' \in Completed \ {request}
  BY DEF CompleteElsewhere, queue
<1>2. Types /\ Claims /\ Receipts  BY DEF TInv
<1>3. UNCHANGED <<delivery, accepted, seen, erasing, ret>>  BY <1>1 DEF receiver, worker
<1>4. Later(request, request') /\ request' \in Request /\ request # "absent"
  BY <1>1 DEF Completed, Later, Request
<1>5. Effects' /\ erased' \in [Subject -> Nat] /\ reports' \subseteq {"accepted", "rejected"}
  BY <1>1, <1>4, EffectsMove
<1>6. TypeOK'  BY <1>1, <1>2, <1>3, <1>4, <1>5 DEF Types, TypeOK
<1>7. Claims' /\ Receipts'  BY <1>1, <1>2, <1>3 DEF Claims, Receipts
<1>8. RowTrue(job', request', reports')
  <2>1. RowTrue(job, request, reports)  BY JobTyped
  <2>2. RowTrue(job, request', reports)  BY <1>4, <2>1, RowStaysTrue
  <2> QED  BY <1>1, <2>2
<1> QED  BY <1>1, <1>4, <1>5, <1>6, <1>7, <1>8, ElseKeeps

-----------------------------------------------------------------------------
(* The theorems *)

LEMMA TInvInit == Init => TInv
<1> SUFFICES ASSUME Init PROVE TInv  OBVIOUS
<1>1. /\ NoJob \in Job /\ RowTrue(NoJob, "absent", {}) /\ ~NoJob.changed
      /\ NoJob.state = "absent" /\ NoJob.print = None
  BY NoJobTrue DEF NoJob
<1>2. Types
  <2>1. /\ pc \in [Receiver \cup Worker ->
                     Handler \cup {"idle", "record", "get", "resolve", "submit", "winner"}]
        /\ delivery \in [Receiver -> [print: Fingerprint \cup {None}, subject: Subject \cup {None}]]
        /\ ret \in [Worker -> Found]
    BY DEF Init, Found
  <2>2. /\ seen \in [Worker -> Job] /\ erasing \in [Worker -> BOOLEAN] /\ job \in Job
        /\ erased \in [Subject -> Nat]
    BY <1>1 DEF Init
  <2>3. MaxRetries \in Nat /\ MaxFaults \in Nat  BY ConstantsOK
  <2>4. /\ expired \in BOOLEAN /\ lock \in Worker \cup {None} /\ current \subseteq Worker
        /\ request \in Request /\ reports \subseteq {"accepted", "rejected"}
        /\ accepted \subseteq Fingerprint
    BY DEF Init, Request
  <2>5. retries \in 0 .. MaxRetries /\ faults \in 0 .. MaxFaults
    <3>1. retries = 0 /\ faults = 0  BY DEF Init
    <3> QED  BY <2>3, <3>1
  <2>6. TypeOK  BY <2>2, <2>4, <2>5 DEF TypeOK
  <2> QED  BY <2>1, <2>6 DEF Types
<1>3. Claims  BY DEF Init, Claims
<1>4. Receipts  BY <1>1 DEF Init, Receipts
<1>5. Effects
  <2>1. erased = [t \in Subject |-> 0] /\ request = "absent" /\ reports = {}  BY DEF Init
  <2>2. erased = [t \in Subject |-> IF t = None THEN 1 ELSE 0]  BY <2>1, ConstantsOK
  <2> QED  BY <2>1, <2>2 DEF Effects
<1>6. ASSUME NEW w \in Worker PROVE Works(w)
  <2>1. seen[w] = NoJob /\ pc[w] = "idle" /\ request = "absent" /\ reports = {}  BY DEF Init
  <2>2. WorkTrue("idle", seen[w], ret[w], request, reports)  BY ThrowsTrue
  <2> QED  BY <1>1, <2>1, <2>2 DEF Works
<1>7. RowTrue(job, request, reports)  BY <1>1 DEF Init
<1> QED  BY <1>2, <1>3, <1>4, <1>5, <1>6, <1>7 DEF TInv

LEMMA TInvNext == TInv /\ [Next]_vars => TInv'
<1> SUFFICES ASSUME TInv, [Next]_vars PROVE TInv'  OBVIOUS
<1>1. ASSUME NEW r \in Receiver, Serve(r) PROVE TInv'
  BY <1>1, ReceiveKeeps, GetExistingKeeps, ResolveKeeps, SubmitKeeps, AfterConflictKeeps DEF Serve
<1>2. ASSUME NEW w \in Worker, Work(w) PROVE TInv'
  <2>1. CASE Claim(w) \/ CommitPage(w) \/ RecordFailure(w)
    BY <2>1, ClaimKeeps, CommitPageKeeps, RecordFailureKeeps
  <2>2. CASE ClaimExpired(w)  BY <2>2, OperationsKeep
  <2>3. CASE BeginPage(w) \/ FailPage(w) \/ Reserve(w) \/ Execute(w)
    BY <2>3, BeginPageKeeps, FailPageKeeps, ReserveKeeps, ExecuteKeeps
  <2>4. CASE Complete(w) \/ Deliver(w) \/ Put(w)
    BY <2>4, CompleteKeeps, DeliverKeeps, PutKeeps
  <2> QED  BY <1>2, <2>1, <2>2, <2>3, <2>4 DEF Work
<1>3. ASSUME NEW w \in Worker, LosePage(w) PROVE TInv'  BY <1>3, LosePageKeeps
<1>4. CASE TimeOut \/ Expire  BY <1>4, ClockKeeps
<1>5. CASE Cancel \/ Retry \/ Purge  BY <1>5, OperationsKeep
<1>6. CASE CompleteElsewhere  BY <1>6, CompleteElsewhereKeeps
<1>7. CASE UNCHANGED vars
  <2>1. /\ UNCHANGED <<pc, receiver, worker, outside, job, expired, lock, current, retries, faults>>
        /\ UNCHANGED <<delivery, accepted, seen, erasing, ret>>
    BY <1>7 DEF vars, queue, receiver, worker
  <2>2. /\ Later(request, request') /\ reports \subseteq reports' /\ Effects'
        /\ request' = request /\ reports' = reports /\ erased' \in [Subject -> Nat]
    BY <2>1, OutsideSame
  <2>3. TypeOK' /\ Claims' /\ Receipts'
    BY <2>1, <2>2 DEF TInv, Types, TypeOK, Claims, Receipts
  <2>4. RowTrue(job', request', reports') /\ (job.changed => job'.changed)
    BY <2>1, <2>2, JobTyped
  <2> QED  BY <2>1, <2>2, <2>3, <2>4, ElseKeeps
<1> QED  BY <1>1, <1>2, <1>3, <1>4, <1>5, <1>6, <1>7 DEF Next

\* The inductive invariant: what rows, workers, receivers and the provider have is true of the
\* durable request, at every point of receive and processStep.
THEOREM TranscendInvariant == Spec => []TInv
<1> QED  BY TInvInit, TInvNext, PTL DEF Spec

\* receive and processStep erase one subject at most, once, and acknowledge only
\* deliveries that agree.
THEOREM ErasedOnce == Spec => []OneErasure
<1>1. TInv => OneErasure
  <2> SUFFICES ASSUME TInv PROVE OneErasure  OBVIOUS
  <2>1. Effects /\ Receipts  BY DEF TInv
  <2>2. PICK u \in Subject \cup {None} : erased = [t \in Subject |-> IF t = u THEN 1 ELSE 0]
    BY <2>1 DEF Effects
  <2>3. ASSUME NEW s \in Subject, NEW t \in Subject
        PROVE  erased[s] + (IF s = t THEN 0 ELSE erased[t]) <= 1
    <3>1. /\ erased[s] = IF s = u THEN 1 ELSE 0
          /\ erased[t] = IF t = u THEN 1 ELSE 0
      BY <2>2
    <3> QED  BY <3>1
  <2>4. Cardinality(accepted) <= 1
    <3>1. CASE accepted = {}
      <4>1. Cardinality(accepted) = 0  BY <3>1, FS_EmptySet
      <4> QED  BY <4>1
    <3>2. CASE accepted # {}
      <4>1. PICK f \in accepted : TRUE  BY <3>2
      <4>2. accepted = {f}  BY <2>1, <4>1 DEF Receipts
      <4>3. Cardinality(accepted) = 1  BY <4>2, FS_Singleton
      <4> QED  BY <4>3
    <3> QED  BY <3>1, <3>2
  <2> QED  BY <2>1, <2>3, <2>4 DEF OneErasure, Receipts
<1> QED  BY <1>1, TranscendInvariant, PTL

\* The fence precedes every local change: a job whose request exists says that it may have
\* changed data, whatever has become of it.
THEOREM ChangesFenced == Spec => []ChangesAreFenced
<1>1. TInv => ChangesAreFenced  BY DEF TInv, Effects, ChangesAreFenced
<1> QED  BY <1>1, TranscendInvariant, PTL

\* No checkpoint, result or report says more than is true of the durable request.
THEOREM ResultsTrue == Spec => []ResultsAreTrue
<1>1. TInv => ResultsAreTrue
  BY DEF TInv, Types, Effects, RowTrue, ResultsAreTrue
<1> QED  BY <1>1, TranscendInvariant, PTL
===============================================================================
