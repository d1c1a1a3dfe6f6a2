---------------------------- MODULE ArtifactBucket ----------------------------
(***************************************************************************)
(* The reference artifact storage on a private S3 bucket:                   *)
(* PrivateS3ArtifactStorage (examples/private-artifacts/                    *)
(* private-s3-storage.ts) behind AuthorizedArtifactDownloads                *)
(* (authorized-downloads.ts), with the S3 operations of s3-transport.ts.    *)
(*                                                                         *)
(* Workers upload what they built for a request, and the host then          *)
(* completes it; readers download a completed artifact or ask for a link;   *)
(* cleanups go through the bucket.  Each answer of S3 or of the host comes  *)
(* some time after the last, and may be lost.  Time is counted in ticks, of *)
(* which a second of a signature has several.                               *)
(***************************************************************************)
EXTENDS Integers, FiniteSets

CONSTANTS
    Req,           \* requests, by the place of their keys in a listing
    Old,           \* of these, the ones abandoned before, which left their artifacts
    Worker, Reader, Cleaner,
    Content,       \* artifacts, and so their hashes and their ETags
    Retention,     \* from the creation of a request to the expiry of its artifact
    Grace,         \* orphanGraceMs
    Second,        \* ticks in a second
    Asked,         \* the seconds that callers ask a link for
    Start,         \* when the workers start: requests are created until then
    MaxTime,       \* bound on the clock
    MaxFaults,     \* bound on failures of S3 and the host, and on lost answers
    None

ASSUME ConstantsOK ==
    /\ Req \subseteq Nat /\ IsFiniteSet(Req) /\ Old \subseteq Req
    /\ Retention \in Nat \ {0} /\ Second \in Nat \ {0} /\ Grace \in Nat
    /\ Asked \subseteq Nat \ {0} /\ Start \in Nat /\ MaxTime \in Nat /\ MaxFaults \in Nat
    /\ None \notin Content /\ None \notin Req
    /\ None \notin [hash : Content, created : Nat, expires : Nat]

VARIABLES
    now,
    created,   \* createdAt: when the host created each request
    host,      \* what the host stores of a request: its state, and the artifact's hash
    object,    \* the bucket
    pc, at,    \* the step of each process, and the request it is about
    hash,      \* the hash a process works with: of its upload, or the one it expects
    seen,      \* the object whose metadata or body a process got last
    until,     \* when the link that is being signed ends
    given,     \* history: what a reader was given last, and when
    link,      \* the last link that a reader was given
    faults

Proc    == Worker \cup Reader \cup Cleaner
locals  == <<pc, at, hash, seen, until>>
results == <<given, link>>
vars    == <<now, created, host, object, locals, results, faults>>

Expiry(r)     == created[r] + Retention
Object(r, c)  == [hash |-> c, created |-> created[r], expires |-> Expiry(r)]
Expired(o)    == o.expires <= now
Min2(a, b)    == IF a < b THEN a ELSE b

Init ==
    /\ now = Start /\ created \in [Req -> 0 .. Start] /\ \A r \in Old : created[r] = 0
    /\ host = [r \in Req |-> [state |-> IF r \in Old THEN "abandoned" ELSE "open", hash |-> None]]
    /\ \E c \in Content : object = [r \in Req |-> IF r \in Old THEN Object(r, c) ELSE None]
    /\ pc = [p \in Proc |-> "idle"] /\ at = [p \in Proc |-> None]
    /\ hash = [p \in Proc |-> None] /\ seen = [p \in Proc |-> None]
    /\ until = [p \in Reader |-> 0]
    /\ given = [p \in Reader |-> None] /\ link = [p \in Reader |-> None]
    /\ faults = 0

\* Process p goes on at a label, for the same request.
Goto(p, label) == pc' = [pc EXCEPT ![p] = label]

\* It returns or throws, and forgets its locals.
Return(p) ==
    /\ Goto(p, "idle") /\ at' = [at EXCEPT ![p] = None]
    /\ hash' = [hash EXCEPT ![p] = None] /\ seen' = [seen EXCEPT ![p] = None]

\* A call fails, or its answer is lost: what the environment may do to a process.
Fault == faults < MaxFaults /\ faults' = faults + 1
NoFault == faults' = faults

-----------------------------------------------------------------------------
(* put, by a worker that then completes the request *)

\* Nothing stops a worker from building an artifact again, with other content.
Put(p, r, c) ==
    /\ pc[p] = "idle" /\ host[r].state = "open"
    /\ now < Expiry(r)
    /\ Goto(p, "put") /\ at' = [at EXCEPT ![p] = r] /\ hash' = [hash EXCEPT ![p] = c]
    /\ UNCHANGED <<now, created, host, object, seen, until, results, faults>>

\* If-None-Match: *, so an object is never replaced.  An answer that says so, no answer,
\* and a failure look alike.
Upload(p) ==
    LET r == at[p]
    IN  /\ pc[p] = "put"
        /\ \/ object[r] = None /\ object' = [object EXCEPT ![r] = Object(r, hash[p])]
              /\ \/ Goto(p, "complete") /\ NoFault
                 \/ Goto(p, "look") /\ Fault
           \/ object[r] # None /\ Goto(p, "look") /\ NoFault /\ UNCHANGED object
           \/ object[r] = None /\ Goto(p, "look") /\ Fault /\ UNCHANGED object
        /\ UNCHANGED <<now, created, host, at, hash, seen, until, results>>

\* After an ambiguous error the object decides; it is never deleted.
Same(p, o) ==
    o # None /\ o.hash = hash[p] /\ o.created = created[at[p]] /\ ~Expired(o)

\* Mutant: what a failed upload may have stored is deleted.
AfterErrorCleared(p, o) ==
    IF Same(p, o) THEN Goto(p, "complete") /\ UNCHANGED <<at, hash, seen, object>>
    ELSE Return(p) /\ object' = [object EXCEPT ![at[p]] = None]

AfterError(p, o) ==
    /\ IF Same(p, o) THEN Goto(p, "complete") /\ UNCHANGED <<at, hash, seen>> ELSE Return(p)
    /\ UNCHANGED object

Look(p) ==
    /\ pc[p] = "look"
    /\ \/ AfterError(p, object[at[p]]) /\ NoFault
       \/ Return(p) /\ Fault /\ UNCHANGED object
    /\ UNCHANGED <<now, created, host, until, results>>

\* The host completes the request, unless another worker or an abandonment came first.
Complete(p) ==
    LET r == at[p]
    IN  /\ pc[p] = "complete"
        /\ \/ host[r].state = "open"
              /\ host' = [host EXCEPT ![r] = [state |-> "completed", hash |-> hash[p]]]
              /\ NoFault
           \/ host[r].state # "open" /\ NoFault /\ UNCHANGED host
           \/ Fault /\ UNCHANGED host
        /\ Return(p) /\ UNCHANGED <<now, created, object, until, results>>

\* The host gives a request up for good.
Abandon(r) ==
    /\ host[r].state = "open" /\ host' = [host EXCEPT ![r].state = "abandoned"]
    /\ UNCHANGED <<now, created, object, locals, results, faults>>

-----------------------------------------------------------------------------
(* AuthorizedArtifactDownloads: download and link, for the subject's own request *)

\* A reader asks until it is given something.
Authorize(p, r, label) ==
    /\ pc[p] = "idle" /\ host[r].state = "completed"
    /\ given[p] = None /\ link[p] = None
    /\ Goto(p, label) /\ at' = [at EXCEPT ![p] = r]
    /\ hash' = [hash EXCEPT ![p] = host[r].hash]
    /\ UNCHANGED <<now, created, host, object, seen, until, results, faults>>

\* A look at the object that ends the call if there is nothing to give.  For a link, expiry
\* is up to Sign.
Usable(p, o, next) == o # None /\ o.hash = hash[p] /\ (next = "fetch" => ~Expired(o))

Head(p, label, next) ==
    /\ pc[p] = label
    /\ IF Usable(p, object[at[p]], next)
       THEN Goto(p, next) /\ seen' = [seen EXCEPT ![p] = object[at[p]]] /\ UNCHANGED <<at, hash>>
       ELSE Return(p)
    /\ UNCHANGED <<now, created, host, object, until, results, faults>>

\* get with If-Match: the body, or an error if the object is gone.
Fetch(p) ==
    /\ pc[p] = "fetch"
    /\ IF object[at[p]] # None /\ object[at[p]].hash = seen[p].hash
       THEN Goto(p, "body") /\ seen' = [seen EXCEPT ![p] = object[at[p]]] /\ UNCHANGED <<at, hash>>
       ELSE Return(p)
    /\ UNCHANGED <<now, created, host, object, until, results, faults>>

\* The answer may have taken long: expiry and hash are checked once more.
Fetched(p, o) == o.hash = hash[p] /\ ~Expired(o)

Give(p) ==
    /\ pc[p] = "body"
    /\ given' = IF Fetched(p, seen[p])
                THEN [given EXCEPT ![p] = [req |-> at[p], hash |-> seen[p].hash, at |-> now]]
                ELSE given
    /\ Return(p) /\ UNCHANGED <<now, created, host, object, until, link, faults>>

\* Mutant: the seconds that remain are rounded up.
RemainingUp(o) == (o.expires - now + Second - 1) \div Second

\* A signature is dated in whole seconds, and its link ends so many seconds later.
Remaining(o)       == (o.expires - now) \div Second
SigningDate        == (now \div Second) * Second
LinkEnd(o, wanted) == SigningDate + Min2(wanted, Remaining(o)) * Second

Sign(p, wanted) ==
    /\ pc[p] = "sign"
    /\ IF Remaining(seen[p]) >= 1
       THEN /\ Goto(p, "signed") /\ until' = [until EXCEPT ![p] = LinkEnd(seen[p], wanted)]
            /\ UNCHANGED <<at, hash, seen>>
       ELSE Return(p) /\ UNCHANGED until
    /\ UNCHANGED <<now, created, host, object, results, faults>>

\* Credentials may take long to resolve: a link that has ended is not given.
Signed(p) ==
    /\ pc[p] = "signed"
    /\ link' = IF now < until[p] THEN [link EXCEPT ![p] = [req |-> at[p], until |-> until[p]]]
               ELSE link
    /\ Return(p) /\ UNCHANGED <<now, created, host, object, until, given, faults>>

-----------------------------------------------------------------------------
(* cleanup *)

\* A listing of one key a page.  `at` is the key that was listed last, and stands for the
\* continuation token.
Later(p) == {r \in Req : object[r] # None /\ (at[p] # None => r > at[p])}

List(p) ==
    /\ pc[p] \in {"idle", "next"}
    /\ \E r \in Later(p) : (\A s \in Later(p) : r <= s) /\ at' = [at EXCEPT ![p] = r]
    /\ Goto(p, "inspect")
    /\ UNCHANGED <<now, created, host, object, hash, seen, until, results, faults>>

\* The listing ends, or S3 fails it, or repeats a token: then the cleanup throws.
ListEnds(p) ==
    /\ pc[p] = "next"
    /\ \/ Later(p) = {} /\ NoFault
       \/ Fault
    /\ Return(p) /\ UNCHANGED <<now, created, host, object, until, results>>

\* Skipped, deleted, or reported as failed: on to the next key.
Skip(p) == Goto(p, "next") /\ seen' = [seen EXCEPT ![p] = None]

MayClassify(o) == o.created + Grace <= now

\* Mutant: after the grace the host is always asked.
VerdictOfHost(o) ==
    CASE MayClassify(o) -> "classify"
      [] ~MayClassify(o) /\ Expired(o) -> "delete"
      [] OTHER -> "next"

\* Expiry needs no classification, and an object is not classified before its grace is over.
Verdict(o) ==
    CASE Expired(o) -> "delete"
      [] ~Expired(o) /\ MayClassify(o) -> "classify"
      [] OTHER -> "next"

Inspect(p) ==
    LET o == object[at[p]]
    IN  /\ pc[p] = "inspect"
        /\ \/ /\ o # None /\ Verdict(o) # "next"
              /\ Goto(p, Verdict(o)) /\ seen' = [seen EXCEPT ![p] = o] /\ NoFault
           \/ (o # None => Verdict(o) = "next") /\ Skip(p) /\ NoFault
           \/ Skip(p) /\ Fault
        /\ UNCHANGED <<now, created, host, object, at, hash, until, results>>

\* classify: the host knows that nobody will complete the request any more.
Orphaned(r) == host[r].state = "abandoned"

Classify(p) ==
    /\ pc[p] = "classify"
    /\ \/ Orphaned(at[p]) /\ Goto(p, "delete") /\ NoFault /\ UNCHANGED seen
       \/ ~Orphaned(at[p]) /\ Skip(p) /\ NoFault
       \/ Skip(p) /\ Fault
    /\ UNCHANGED <<now, created, host, object, at, hash, until, results>>

\* delete with If-Match; it may fail with or without an effect.
Delete(p) ==
    LET r == at[p]
    IN  /\ pc[p] = "delete"
        /\ \/ /\ object[r] # None /\ object[r].hash = seen[p].hash
              /\ object' = [object EXCEPT ![r] = None]
              /\ NoFault
           \/ (object[r] # None => object[r].hash # seen[p].hash) /\ NoFault /\ UNCHANGED object
           \/ Fault /\ UNCHANGED object
        /\ Skip(p) /\ UNCHANGED <<now, created, host, at, hash, until, results>>

-----------------------------------------------------------------------------
Tick ==
    /\ now < MaxTime /\ now' = now + 1
    /\ UNCHANGED <<created, host, object, locals, results, faults>>

\* The process that runs an operation dies.
Crash(p) ==
    /\ pc[p] # "idle" /\ Fault /\ Return(p)
    /\ UNCHANGED <<now, created, host, object, until, results>>

Clean(p) == List(p) \/ ListEnds(p) \/ Inspect(p) \/ Classify(p) \/ Delete(p)

Next ==
    \/ Tick
    \/ \E r \in Req : Abandon(r)
    \/ \E p \in Worker :
        \/ \E r \in Req, c \in Content : Put(p, r, c)
        \/ Upload(p) \/ Look(p) \/ Complete(p)
    \/ \E p \in Reader :
        \/ \E r \in Req : Authorize(p, r, "head") \/ Authorize(p, r, "headlink")
        \/ Head(p, "head", "fetch") \/ Head(p, "headlink", "sign")
        \/ Fetch(p) \/ Give(p)
        \/ \E wanted \in Asked : Sign(p, wanted)
        \/ Signed(p)
    \/ \E p \in Cleaner : Clean(p)
    \/ \E p \in Proc : Crash(p)

Spec == Init /\ [][Next]_vars

\* The host schedules cleanups, which run on; nobody else is obliged to do anything.
FairSpec == Spec /\ \A p \in Cleaner : WF_vars(Clean(p))

-----------------------------------------------------------------------------
(* Properties *)

\* Types; and the artifact of a completed request is in the bucket, as the request
\* recorded it, until it expires: though uploads race, answers get lost, and cleanups
\* delete what other requests left behind.
ArtifactsAreKept ==
    /\ host \in [Req -> [state : {"open", "completed", "abandoned"}, hash : Content \cup {None}]]
    /\ pc \in [Proc -> {"idle", "put", "look", "complete", "head", "headlink", "fetch", "body",
                        "sign", "signed", "next", "inspect", "classify", "delete"}]
    /\ at \in [Proc -> Req \cup {None}] /\ now \in Nat /\ faults \in 0 .. MaxFaults
    /\ \A r \in Req :
        host[r].state = "completed" /\ now < Expiry(r) => object[r] = Object(r, host[r].hash)

\* Nobody is given an artifact that has expired or that its request did not record, and
\* no link works longer than its artifact is kept, or finds anything else.
NothingOutlivesExpiry ==
    \A p \in Reader :
        /\ given[p] # None =>
            given[p].at < Expiry(given[p].req) /\ given[p].hash = host[given[p].req].hash
        /\ link[p] # None =>
            /\ link[p].until <= Expiry(link[p].req)
            /\ now < link[p].until =>
                object[link[p].req] = Object(link[p].req, host[link[p].req].hash)

\* What has expired is deleted for good, and so is what an abandoned request left, once
\* its grace is over, though an upload may have been under way.
LeftoversAreRemoved ==
    \A r \in Req :
        now >= Expiry(r) \/ (Orphaned(r) /\ now >= created[r] + Grace)
            ~> [](object[r] = None)
===============================================================================
