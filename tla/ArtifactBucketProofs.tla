-------------------------- MODULE ArtifactBucketProofs --------------------------
(***************************************************************************)
(* That artifacts are kept, and nothing is given out, until they expire,    *)
(* for any requests, processes, contents, times and faults.                 *)
(*                                                                         *)
(* Neither property is inductive.  A deletion is harmless because of what   *)
(* the cleanup saw before (Cleaning), which stays true: what has expired    *)
(* stays so, and an abandoned request stays abandoned.  A completion is     *)
(* true because of what its worker stored or found (Storing), and a link    *)
(* because of the time at which it was signed (Reading).                    *)
(***************************************************************************)
EXTENDS ArtifactBucket, TLAPS

Stored == [hash : Content, created : Nat, expires : Nat]

Label == {"idle", "put", "look", "complete", "head", "headlink", "fetch", "body",
          "sign", "signed", "next", "inspect", "classify", "delete"}

Types ==
    /\ now \in Nat /\ created \in [Req -> Nat] /\ faults \in 0 .. MaxFaults
    /\ host \in [Req -> [state : {"open", "completed", "abandoned"}, hash : Content \cup {None}]]
    /\ object \in [Req -> Stored \cup {None}] /\ seen \in [Proc -> Stored \cup {None}]
    /\ pc \in [Proc -> Label] /\ at \in [Proc -> Req \cup {None}]
    /\ hash \in [Proc -> Content \cup {None}] /\ until \in [Reader -> Int]
    /\ given \in [Reader -> [req : Req, hash : Content, at : Nat] \cup {None}]
    /\ link \in [Reader -> [req : Req, until : Int] \cup {None}]

\* An object is of the request whose key it has.
Objects ==
    \A r \in Req : object[r] # None =>
        object[r].created = created[r] /\ object[r].expires = Expiry(r)

\* The artifact that the host has recorded, or is about to record.
Kept(r, h) == now < Expiry(r) => object[r] = Object(r, h)

Hosts ==
    \A r \in Req : host[r].state = "completed" => host[r].hash \in Content /\ Kept(r, host[r].hash)

Storing(p) ==
    pc[p] \in {"put", "look", "complete"} =>
        /\ at[p] \in Req /\ hash[p] \in Content
        /\ pc[p] = "complete" /\ host[at[p]].state = "open" => Kept(at[p], hash[p])

Reading(p) ==
    pc[p] \in {"head", "headlink", "fetch", "body", "sign", "signed"} =>
        /\ p \in Reader /\ at[p] \in Req /\ host[at[p]].state = "completed"
        /\ hash[p] = host[at[p]].hash
        /\ pc[p] \in {"fetch", "body", "sign"} =>
              seen[p] # None /\ seen[p].hash = hash[p] /\ seen[p].expires = Expiry(at[p])
        /\ pc[p] = "signed" => until[p] <= Expiry(at[p])

Cleaning(p) ==
    pc[p] \in {"inspect", "classify", "delete"} =>
        /\ at[p] \in Req
        /\ pc[p] # "inspect" => seen[p] # None /\ seen[p].expires = Expiry(at[p])
        /\ pc[p] = "delete" => Expiry(at[p]) <= now \/ Orphaned(at[p])

Given(p) ==
    /\ given[p] # None =>
        /\ given[p].at < Expiry(given[p].req) /\ host[given[p].req].state = "completed"
        /\ given[p].hash = host[given[p].req].hash
    /\ link[p] # None =>
        link[p].until <= Expiry(link[p].req) /\ host[link[p].req].state = "completed"

BInv ==
    /\ Types /\ Objects /\ Hosts
    /\ \A p \in Proc : Storing(p) /\ Reading(p) /\ Cleaning(p)
    /\ \A p \in Reader : Given(p)

-----------------------------------------------------------------------------
(* Time *)

LEMMA WholeSeconds ==
    ASSUME NEW n \in Int, NEW s \in Nat \ {0}
    PROVE  (n \div s) \in Int /\ (n \div s) * s <= n
<1> DEFINE q == n \div s
<1>1. q \in Int /\ s * q <= n  OBVIOUS
<1> HIDE DEF q
<1>2. q * s <= n  BY <1>1
<1> QED  BY <1>1, <1>2 DEF q

LEMMA Monotone ==
    ASSUME NEW a \in Int, NEW b \in Int, NEW s \in Nat, a <= b
    PROVE  a * s \in Int /\ b * s \in Int /\ a * s <= b * s
OBVIOUS

\* However a signature is dated, and however long a link was asked for, it ends in time.
LEMMA LinksEnd ==
    ASSUME Types, NEW o \in Stored, NEW wanted \in Asked, Remaining(o) >= 1
    PROVE  LinkEnd(o, wanted) \in Int /\ LinkEnd(o, wanted) <= o.expires
<1> DEFINE left == o.expires - now
           k == left \div Second
           d == now \div Second
           m == Min2(wanted, k)
<1>1. o.expires \in Nat /\ now \in Nat /\ Second \in Nat \ {0} /\ wanted \in Nat
  BY ConstantsOK DEF Types, Stored
<1>2. left \in Int /\ now \in Int  BY <1>1
<1>3. k \in Int /\ k * Second <= left
  <2> HIDE DEF left
  <2> QED  BY <1>1, <1>2, WholeSeconds
<1>4. d \in Int /\ d * Second <= now  BY <1>1, <1>2, WholeSeconds
<1>5. m \in Int /\ m <= k
  <2> HIDE DEF k
  <2> QED  BY <1>1, <1>3 DEF Min2
<1>6. LinkEnd(o, wanted) = d * Second + m * Second  BY DEF LinkEnd, SigningDate, Remaining
<1> HIDE DEF left, k, d, m
<1>7. m * Second \in Int /\ k * Second \in Int /\ m * Second <= k * Second /\ d * Second \in Int
  BY <1>1, <1>3, <1>4, <1>5, Monotone
<1>8. d * Second + m * Second \in Int /\ d * Second + m * Second <= now + left
  BY <1>2, <1>3, <1>4, <1>7
<1>9. now + left = o.expires  BY <1>1 DEF left
<1> QED  BY <1>6, <1>8, <1>9

LEMMA ExpiryType == ASSUME Types, NEW r \in Req PROVE Expiry(r) \in Nat
BY ConstantsOK DEF Types, Expiry

LEMMA ObjectType ==
    ASSUME Types, NEW r \in Req, NEW c \in Content
    PROVE  Object(r, c) \in Stored /\ Object(r, c) # None /\ Expiry(r) \in Nat
<1>1. created[r] \in Nat /\ Expiry(r) \in Nat  BY ConstantsOK DEF Types, Expiry
<1> QED  BY <1>1, ConstantsOK DEF Object, Stored

-----------------------------------------------------------------------------
(* The steps *)

\* A step of process p alone.
Only(p) ==
    /\ UNCHANGED <<now, created>>
    /\ \A q \in Proc \ {p} :
        pc'[q] = pc[q] /\ at'[q] = at[q] /\ hash'[q] = hash[q] /\ seen'[q] = seen[q]
    /\ \A q \in Reader \ {p} : until'[q] = until[q]

\* What it does to a request leaves the claims of the others alone if no host takes a
\* completion or an abandonment back, and an artifact that is to be kept stays.
Safe(p) ==
    /\ Only(p)
    /\ \A r \in Req : host[r].state # "open" => host'[r] = host[r]
    /\ \A r \in Req :
        host'[r].state # "abandoned" /\ now < Expiry(r) /\ object[r] # None => object'[r] = object[r]

LEMMA OthersKeep ==
    ASSUME BInv, NEW p, Safe(p), NEW q \in Proc \ {p}
    PROVE  Storing(q)' /\ Reading(q)' /\ Cleaning(q)'
<1>1. /\ Storing(q) /\ Reading(q) /\ Cleaning(q) /\ Types /\ now' = now /\ created' = created
      /\ pc'[q] = pc[q] /\ at'[q] = at[q] /\ hash'[q] = hash[q] /\ seen'[q] = seen[q]
      /\ \A r \in Req : host[r].state # "open" => host'[r] = host[r]
  BY DEF BInv, Safe, Only
<1>2. Expiry(at[q])' = Expiry(at[q])  BY <1>1 DEF Expiry
<1>3. Storing(q)'
  <2> SUFFICES ASSUME pc[q] \in {"put", "look", "complete"}
               PROVE  /\ at[q] \in Req /\ hash[q] \in Content
                      /\ pc[q] = "complete" /\ host'[at[q]].state = "open" /\ now < Expiry(at[q]) =>
                            object'[at[q]] = Object(at[q], hash[q])
    BY <1>1 DEF Storing, Kept, Object, Expiry
  <2>1. at[q] \in Req /\ hash[q] \in Content  BY <1>1 DEF Storing
  <2>2. ASSUME pc[q] = "complete", host'[at[q]].state = "open", now < Expiry(at[q])
        PROVE  object'[at[q]] = Object(at[q], hash[q])
    <3>1. host[at[q]].state = "open"  BY <1>1, <2>1, <2>2
    <3>2. object[at[q]] = Object(at[q], hash[q])  BY <1>1, <2>2, <3>1 DEF Storing, Kept
    <3>3. object[at[q]] # None  BY <1>1, <2>1, <3>2, ObjectType
    <3> QED  BY <2>1, <2>2, <3>2, <3>3 DEF Safe, Only
  <2> QED  BY <2>1, <2>2
<1>4. Reading(q)'
  <2>1. q \in Reader => until'[q] = until[q]  BY DEF Safe, Only
  <2> QED  BY <1>1, <1>2, <2>1 DEF Reading, Expiry
<1>5. Cleaning(q)'  BY <1>1, <1>2 DEF Cleaning, Orphaned, Expiry
<1> QED  BY <1>3, <1>4, <1>5

LEMMA GivenKeeps ==
    ASSUME BInv, NEW p, Safe(p), NEW q \in Reader, given'[q] = given[q], link'[q] = link[q]
    PROVE  Given(q)'
<1>1. /\ Given(q) /\ Types /\ now' = now /\ created' = created
      /\ \A r \in Req : host[r].state # "open" => host'[r] = host[r]
  BY DEF BInv, Safe, Only
<1>2. given[q] \in [req : Req, hash : Content, at : Nat] \cup {None}
      /\ link[q] \in [req : Req, until : Int] \cup {None}
  BY <1>1 DEF Types
<1> QED  BY <1>1, <1>2 DEF Given, Expiry

LEMMA HostsKeep ==
    ASSUME BInv, NEW p, Safe(p),
           \A r \in Req : host[r].state = "open" /\ host'[r].state = "completed" =>
               /\ host'[r].hash \in Content
               /\ now < Expiry(r) => object'[r] = Object(r, host'[r].hash)
    PROVE  Hosts'
<1> SUFFICES ASSUME NEW r \in Req, host'[r].state = "completed"
             PROVE  /\ host'[r].hash \in Content
                    /\ now < Expiry(r) => object'[r] = Object(r, host'[r].hash)
  BY DEF Hosts, Kept, Object, Expiry, Safe, Only
<1>1. CASE host[r].state = "open"  BY <1>1
<1>2. CASE host[r].state # "open"
  <2>1. host'[r] = host[r]  BY <1>2 DEF Safe, Only
  <2>2. host[r].hash \in Content /\ (now < Expiry(r) => object[r] = Object(r, host[r].hash))
    BY <2>1 DEF BInv, Hosts, Kept
  <2>3. now < Expiry(r) => object[r] # None  BY <2>2, ObjectType DEF BInv
  <2> QED  BY <2>1, <2>2, <2>3 DEF Safe, Only
<1> QED  BY <1>1, <1>2

\* A step whose process stays true to its own claims keeps the invariant.
LEMMA StepKeeps ==
    ASSUME BInv, NEW p, Safe(p), Types', Objects', Hosts',
           p \in Proc => Storing(p)' /\ Reading(p)' /\ Cleaning(p)',
           \A q \in Reader : Given(q)' \/ (given'[q] = given[q] /\ link'[q] = link[q])
    PROVE  BInv'
<1>1. \A q \in Proc : Storing(q)' /\ Reading(q)' /\ Cleaning(q)'  BY OthersKeep
<1>2. \A q \in Reader : Given(q)'  BY GivenKeeps
<1>3. Proc' = Proc  BY DEF Proc
<1> QED  BY <1>1, <1>2, <1>3 DEF BInv

\* A step that changes neither the bucket nor the host's record nor what was given.
Quiet(p) == Only(p) /\ UNCHANGED <<host, object, given, link>>

LEMMA QuietKeeps ==
    ASSUME BInv, NEW p \in Proc, Quiet(p), Types', Storing(p)' /\ Reading(p)' /\ Cleaning(p)'
    PROVE  BInv'
<1>1. Safe(p)  BY DEF Quiet, Safe
<1>2. Objects'  BY DEF BInv, Objects, Quiet, Only, Expiry
<1>3. Hosts'  BY <1>1, HostsKeep DEF Quiet
<1> QED  BY <1>1, <1>2, <1>3, StepKeeps DEF Quiet

\* A process that does nothing claims nothing.
LEMMA IdleKeeps ==
    ASSUME NEW p, pc'[p] \in {"idle", "next"}
    PROVE  Storing(p)' /\ Reading(p)' /\ Cleaning(p)'
BY DEF Storing, Reading, Cleaning

LEMMA Members == Worker \subseteq Proc /\ Reader \subseteq Proc /\ Cleaner \subseteq Proc
BY DEF Proc

\* A call that returns or throws, and has changed nothing.
LEMMA ReturnKeeps ==
    ASSUME BInv, NEW p \in Proc, Return(p), faults' \in 0 .. MaxFaults,
           UNCHANGED <<now, created, host, object, until, given, link>>
    PROVE  BInv'
<1>1. Types'  BY DEF BInv, Types, Return, Goto, Label
<1>2. pc'[p] = "idle" /\ Quiet(p)  BY DEF BInv, Types, Return, Goto, Quiet, Only
<1> QED  BY <1>1, <1>2, IdleKeeps, QuietKeeps

\* A cleanup that goes on to the next key, and has changed nothing.
LEMMA SkipKeeps ==
    ASSUME BInv, NEW p \in Proc, Skip(p), faults' \in 0 .. MaxFaults,
           UNCHANGED <<now, created, host, object, at, hash, until, given, link>>
    PROVE  BInv'
<1>1. Types'  BY DEF BInv, Types, Skip, Goto, Label
<1>2. pc'[p] = "next" /\ Quiet(p)  BY DEF BInv, Types, Skip, Goto, Quiet, Only
<1> QED  BY <1>1, <1>2, IdleKeeps, QuietKeeps

LEMMA FaultsCount == ASSUME Types, Fault \/ NoFault PROVE faults' \in 0 .. MaxFaults
BY ConstantsOK DEF Types, Fault, NoFault

-----------------------------------------------------------------------------
(* Workers *)

LEMMA PutKeeps ==
    ASSUME BInv, NEW p \in Worker, NEW r \in Req, NEW c \in Content, Put(p, r, c) PROVE BInv'
<1>1. p \in Proc  BY Members
<1>2. Types'  BY <1>1 DEF BInv, Types, Put, Goto, Label, locals, results
<1>3. Quiet(p) /\ pc'[p] = "put" /\ at'[p] = r /\ hash'[p] = c
  BY <1>1 DEF BInv, Types, Put, Goto, Quiet, Only, results
<1>4. Storing(p)' /\ Reading(p)' /\ Cleaning(p)'  BY <1>3 DEF Storing, Reading, Cleaning
<1> QED  BY <1>1, <1>2, <1>3, <1>4, QuietKeeps

LEMMA UploadKeeps == ASSUME BInv, NEW p \in Worker, Upload(p) PROVE BInv'
<1> DEFINE r == at[p]
<1>1. p \in Proc /\ Types  BY Members DEF BInv
<1>2. r \in Req /\ hash[p] \in Content  BY <1>1 DEF BInv, Storing, Upload
<1>3. /\ pc[p] = "put" /\ faults' \in 0 .. MaxFaults
      /\ \/ /\ object[r] = None /\ object' = [object EXCEPT ![r] = Object(r, hash[p])]
            /\ pc' = [pc EXCEPT ![p] = "complete"] \/ pc' = [pc EXCEPT ![p] = "look"]
         \/ object' = object /\ pc' = [pc EXCEPT ![p] = "look"]
      /\ UNCHANGED <<now, created, host, at, hash, seen, until, given, link>>
  BY <1>1, FaultsCount DEF Upload, Goto, results
<1>4. Object(r, hash[p]) \in Stored /\ Object(r, hash[p]) # None  BY <1>1, <1>2, ObjectType
<1>5. Types'
  <2>1. object' \in [Req -> Stored \cup {None}]  BY <1>1, <1>3, <1>4 DEF Types
  <2>2. pc' \in [Proc -> Label]  BY <1>1, <1>3 DEF Types, Label
  <2> QED  BY <1>1, <1>3, <2>1, <2>2 DEF Types
<1>6. Safe(p)  BY <1>1, <1>3 DEF Types, Safe, Only
<1>7. Objects'
  BY <1>1, <1>2, <1>3 DEF BInv, Types, Objects, Expiry, Object
<1>8. Hosts'  BY <1>3, <1>6, HostsKeep
<1>9. Storing(p)'
  <2>1. CASE pc'[p] = "complete"
    BY <1>1, <1>2, <1>3, <2>1 DEF Types, Storing, Kept, Object, Expiry
  <2>2. CASE pc'[p] = "look"  BY <1>2, <1>3, <2>2 DEF Storing
  <2> QED  BY <1>1, <1>3, <2>1, <2>2 DEF Types
<1>10. Reading(p)' /\ Cleaning(p)'  BY <1>1, <1>3 DEF Types, Reading, Cleaning
<1> QED  BY <1>3, <1>5, <1>6, <1>7, <1>8, <1>9, <1>10, StepKeeps

\* Two objects of one request with one hash are one.
LEMMA SameObject ==
    ASSUME BInv, NEW r \in Req, NEW c \in Content, object[r] # None, object[r].hash = c
    PROVE  object[r] = Object(r, c)
<1>1. object[r] \in Stored /\ object[r].created = created[r] /\ object[r].expires = Expiry(r)
  BY DEF BInv, Types, Objects
<1> QED  BY <1>1 DEF Stored, Object

LEMMA LookKeeps == ASSUME BInv, NEW p \in Worker, Look(p) PROVE BInv'
<1>1. p \in Proc /\ Types /\ faults' \in 0 .. MaxFaults  BY Members, FaultsCount DEF BInv, Look
<1>2. UNCHANGED <<now, created, host, object, until, given, link>>
  BY DEF Look, AfterError, results
<1>3. CASE Return(p)  BY <1>1, <1>2, <1>3, ReturnKeeps
<1>4. CASE Same(p, object[at[p]]) /\ Goto(p, "complete") /\ UNCHANGED <<at, hash, seen>>
  <2>1. at[p] \in Req /\ hash[p] \in Content  BY <1>1 DEF BInv, Storing, Look
  <2>2. object[at[p]] = Object(at[p], hash[p])  BY <2>1, <1>4, SameObject DEF Same
  <2>3. Types'  BY <1>1, <1>2, <1>4 DEF Types, Goto, Label
  <2>4. Quiet(p) /\ pc'[p] = "complete"  BY <1>1, <1>2, <1>4 DEF Types, Goto, Quiet, Only
  <2>5. Storing(p)'  BY <2>1, <2>2, <1>2, <1>4 DEF Storing, Kept, Object, Expiry
  <2>6. Reading(p)' /\ Cleaning(p)'  BY <2>4 DEF Reading, Cleaning
  <2> QED  BY <1>1, <2>3, <2>4, <2>5, <2>6, QuietKeeps
<1> QED  BY <1>3, <1>4 DEF Look, AfterError

LEMMA CompleteKeeps == ASSUME BInv, NEW p \in Worker, Complete(p) PROVE BInv'
<1> DEFINE r == at[p]
<1>1. p \in Proc /\ Types /\ faults' \in 0 .. MaxFaults  BY Members, FaultsCount DEF BInv, Complete
<1>2. /\ r \in Req /\ hash[p] \in Content
      /\ host[r].state = "open" /\ now < Expiry(r) => object[r] = Object(r, hash[p])
  BY <1>1 DEF BInv, Storing, Complete, Kept
<1>3. Return(p) /\ UNCHANGED <<now, created, object, until, given, link>>  BY DEF Complete, results
<1>4. CASE UNCHANGED host  BY <1>1, <1>3, <1>4, ReturnKeeps
<1>5. CASE host[r].state = "open" /\ host' = [host EXCEPT ![r] = [state |-> "completed", hash |-> hash[p]]]
  <2>1. Types'  BY <1>1, <1>2, <1>3, <1>5 DEF Types, Return, Goto, Label
  <2>2. Safe(p) /\ pc'[p] = "idle"
    BY <1>1, <1>2, <1>3, <1>5 DEF Types, Return, Goto, Safe, Only
  <2>3. Objects'  BY <1>3 DEF BInv, Objects, Expiry
  <2>4. \A q \in Req : host[q].state = "open" /\ host'[q].state = "completed" =>
            host'[q].hash \in Content /\ (now < Expiry(q) => object'[q] = Object(q, host'[q].hash))
    BY <1>1, <1>2, <1>3, <1>5 DEF Types
  <2>5. Hosts'  BY <2>2, <2>4, HostsKeep
  <2> QED  BY <1>3, <2>1, <2>2, <2>3, <2>5, IdleKeeps, StepKeeps
<1> QED  BY <1>4, <1>5 DEF Complete

\* The host gives a request up: nobody in particular moves.
LEMMA AbandonKeeps == ASSUME BInv, NEW r \in Req, Abandon(r) PROVE BInv'
<1>1. PICK nobody : nobody \notin Proc  BY NoSetContainsEverything
<1>2. /\ Types /\ host[r].state = "open" /\ host' = [host EXCEPT ![r].state = "abandoned"]
      /\ UNCHANGED <<now, created, object, pc, at, hash, seen, until, given, link, faults>>
  BY DEF BInv, Abandon, locals, results
<1>3. Types'  BY <1>2 DEF Types
<1>4. Safe(nobody)  BY <1>2 DEF Types, Safe, Only
<1>5. Objects'  BY <1>2 DEF BInv, Objects, Expiry
<1>6. \A q \in Req : host[q].state = "open" => host'[q].state # "completed"  BY <1>2 DEF Types
<1>7. Hosts'  BY <1>4, <1>6, HostsKeep
<1> QED  BY <1>1, <1>2, <1>3, <1>4, <1>5, <1>7, StepKeeps

-----------------------------------------------------------------------------
(* Readers *)

LEMMA AuthorizeKeeps ==
    ASSUME BInv, NEW p \in Reader, NEW r \in Req, NEW label \in {"head", "headlink"},
           Authorize(p, r, label)
    PROVE  BInv'
<1>1. p \in Proc /\ Types  BY Members DEF BInv
<1>2. Types'  BY <1>1 DEF Types, Authorize, Goto, Label, results
<1>3. /\ Quiet(p) /\ pc'[p] = label /\ at'[p] = r /\ hash'[p] = host[r].hash
      /\ host[r].state = "completed" /\ UNCHANGED host
  BY <1>1 DEF Types, Authorize, Goto, Quiet, Only, results
<1>4. Storing(p)' /\ Reading(p)' /\ Cleaning(p)'  BY <1>3 DEF Storing, Reading, Cleaning
<1> QED  BY <1>1, <1>2, <1>3, <1>4, QuietKeeps

\* What a reader saw under its key has the hash that it expects and expires with the request.
LEMMA SawIt ==
    ASSUME BInv, NEW p \in Reader, NEW label \in {"fetch", "body", "sign"},
           pc[p] \in {"head", "headlink", "fetch"},
           object[at[p]] # None, object[at[p]].hash = hash[p],
           Goto(p, label), seen' = [seen EXCEPT ![p] = object[at[p]]],
           UNCHANGED <<now, created, host, object, at, hash, until, given, link, faults>>
    PROVE  BInv'
<1>1. p \in Proc /\ Types  BY Members DEF BInv
<1>2. /\ at[p] \in Req /\ host[at[p]].state = "completed" /\ hash[p] = host[at[p]].hash
      /\ object[at[p]] \in Stored /\ object[at[p]].expires = Expiry(at[p])
  BY <1>1 DEF BInv, Reading, Objects, Types
<1>3. Types'  BY <1>1, <1>2 DEF Types, Goto, Label
<1>4. Quiet(p) /\ pc'[p] = label /\ seen'[p] = object[at[p]] /\ UNCHANGED <<at, hash, host>>
  BY <1>1 DEF Types, Goto, Quiet, Only
<1>5. Storing(p)' /\ Cleaning(p)'  BY <1>4 DEF Storing, Cleaning
<1>6. Reading(p)'  BY <1>2, <1>4 DEF Reading, Expiry
<1> QED  BY <1>1, <1>3, <1>4, <1>5, <1>6, QuietKeeps

LEMMA HeadKeeps ==
    ASSUME BInv, NEW p \in Reader, NEW label \in {"head", "headlink"}, NEW next \in {"fetch", "sign"},
           Head(p, label, next)
    PROVE  BInv'
<1>1. p \in Proc /\ faults' \in 0 .. MaxFaults  BY Members DEF BInv, Types, Head
<1>2. CASE Usable(p, object[at[p]], next)  BY <1>2, SawIt DEF Head, Usable, results
<1>3. CASE ~Usable(p, object[at[p]], next)  BY <1>1, <1>3, ReturnKeeps DEF Head, results
<1> QED  BY <1>2, <1>3

LEMMA FetchKeeps == ASSUME BInv, NEW p \in Reader, Fetch(p) PROVE BInv'
<1>1. p \in Proc /\ faults' \in 0 .. MaxFaults  BY Members DEF BInv, Types, Fetch
<1>2. CASE object[at[p]] # None /\ object[at[p]].hash = seen[p].hash
  <2>1. seen[p].hash = hash[p]  BY <1>1 DEF BInv, Reading, Fetch
  <2> QED  BY <1>2, <2>1, SawIt DEF Fetch, results
<1>3. CASE ~(object[at[p]] # None /\ object[at[p]].hash = seen[p].hash)
  BY <1>1, <1>3, ReturnKeeps DEF Fetch, results
<1> QED  BY <1>2, <1>3

LEMMA GiveKeeps == ASSUME BInv, NEW p \in Reader, Give(p) PROVE BInv'
<1>1. p \in Proc /\ Types  BY Members DEF BInv
<1>2. /\ at[p] \in Req /\ host[at[p]].state = "completed" /\ hash[p] = host[at[p]].hash
      /\ seen[p] \in Stored /\ seen[p].hash = hash[p] /\ seen[p].expires = Expiry(at[p])
  BY <1>1 DEF BInv, Types, Reading, Give
<1>3. Return(p) /\ UNCHANGED <<now, created, host, object, until, link, faults>>  BY DEF Give
<1>4. CASE ~Fetched(p, seen[p])  BY <1>1, <1>3, <1>4, ReturnKeeps DEF Give, Types
<1>5. CASE Fetched(p, seen[p])
  <2> DEFINE o == [req |-> at[p], hash |-> seen[p].hash, at |-> now]
  <2>1. given' = [given EXCEPT ![p] = o]  BY <1>5 DEF Give
  <2>2. o \in [req : Req, hash : Content, at : Nat]  BY <1>1, <1>2 DEF Types, Stored
  <2>3. given'[p] = o /\ link'[p] = link[p] /\ now < Expiry(at[p])
    BY <1>1, <1>2, <1>3, <1>5, <2>1 DEF Types, Fetched, Expired, Expiry, Stored
  <2>4. given' \in [Reader -> [req : Req, hash : Content, at : Nat] \cup {None}]
    BY <1>1, <2>1, <2>2 DEF Types
  <2>5. Types'  BY <1>1, <1>3, <2>4 DEF Types, Return, Goto, Label
  <2>6. Safe(p) /\ pc'[p] = "idle"  BY <1>1, <1>3 DEF Types, Return, Goto, Safe, Only
  <2>7. Objects' /\ Hosts'
    <3>1. Objects'  BY <1>3 DEF BInv, Objects, Expiry
    <3>2. Hosts'  BY <1>3, <2>6, HostsKeep
    <3> QED  BY <3>1, <3>2
  <2>8. Given(p)'  BY <1>2, <1>3, <2>3 DEF BInv, Given, Expiry
  <2>9. \A q \in Reader : q # p => given'[q] = given[q] /\ link'[q] = link[q]
    BY <1>1, <1>3, <2>1 DEF Types
  <2> QED  BY <2>5, <2>6, <2>7, <2>8, <2>9, IdleKeeps, StepKeeps
<1> QED  BY <1>4, <1>5

LEMMA SignKeeps == ASSUME BInv, NEW p \in Reader, NEW wanted \in Asked, Sign(p, wanted) PROVE BInv'
<1>1. p \in Proc /\ Types /\ faults' \in 0 .. MaxFaults  BY Members DEF BInv, Types, Sign
<1>2. /\ at[p] \in Req /\ host[at[p]].state = "completed" /\ hash[p] = host[at[p]].hash
      /\ seen[p] \in Stored /\ seen[p].expires = Expiry(at[p])
  BY <1>1 DEF BInv, Types, Reading, Sign
<1>3. CASE ~(Remaining(seen[p]) >= 1)  BY <1>1, <1>3, ReturnKeeps DEF Sign, results
<1>4. CASE Remaining(seen[p]) >= 1
  <2> DEFINE end == LinkEnd(seen[p], wanted)
  <2>1. end \in Int /\ end <= Expiry(at[p])  BY <1>1, <1>2, <1>4, LinksEnd
  <2> HIDE DEF end
  <2>2. /\ Goto(p, "signed") /\ until' = [until EXCEPT ![p] = end]
        /\ UNCHANGED <<now, created, host, object, at, hash, seen, given, link, faults>>
    BY <1>4 DEF Sign, results, end
  <2>3. Types'  BY <1>1, <2>1, <2>2 DEF Types, Goto, Label
  <2>4. Quiet(p) /\ pc'[p] = "signed" /\ until'[p] = end
    BY <1>1, <2>2 DEF Types, Goto, Quiet, Only
  <2>5. Storing(p)' /\ Cleaning(p)'  BY <2>4 DEF Storing, Cleaning
  <2>6. Reading(p)'  BY <1>2, <2>1, <2>2, <2>4 DEF Reading, Expiry
  <2> QED  BY <1>1, <2>3, <2>4, <2>5, <2>6, QuietKeeps
<1> QED  BY <1>3, <1>4

LEMMA SignedKeeps == ASSUME BInv, NEW p \in Reader, Signed(p) PROVE BInv'
<1>1. p \in Proc /\ Types  BY Members DEF BInv
<1>2. /\ at[p] \in Req /\ host[at[p]].state = "completed" /\ until[p] <= Expiry(at[p])
  BY <1>1 DEF BInv, Types, Reading, Signed
<1>3. Return(p) /\ UNCHANGED <<now, created, host, object, until, given, faults>>  BY DEF Signed
<1>4. CASE ~(now < until[p])  BY <1>1, <1>3, <1>4, ReturnKeeps DEF Signed, Types
<1>5. CASE now < until[p]
  <2> DEFINE o == [req |-> at[p], until |-> until[p]]
  <2>1. link' = [link EXCEPT ![p] = o]  BY <1>5 DEF Signed
  <2>2. o \in [req : Req, until : Int]  BY <1>1, <1>2 DEF Types
  <2>3. link'[p] = o /\ given'[p] = given[p]  BY <1>1, <1>3, <2>1 DEF Types
  <2>4. link' \in [Reader -> [req : Req, until : Int] \cup {None}]  BY <1>1, <2>1, <2>2 DEF Types
  <2>5. Types'  BY <1>1, <1>3, <2>4 DEF Types, Return, Goto, Label
  <2>6. Safe(p) /\ pc'[p] = "idle"  BY <1>1, <1>3 DEF Types, Return, Goto, Safe, Only
  <2>7. Objects'  BY <1>3 DEF BInv, Objects, Expiry
  <2>8. Hosts'  BY <1>3, <2>6, HostsKeep
  <2>9. Given(p)'  BY <1>1, <1>2, <1>3, <2>3 DEF BInv, Types, Given, Expiry
  <2>10. \A q \in Reader : q # p => given'[q] = given[q] /\ link'[q] = link[q]
    BY <1>1, <1>3, <2>1 DEF Types
  <2> QED  BY <2>5, <2>6, <2>7, <2>8, <2>9, <2>10, IdleKeeps, StepKeeps
<1> QED  BY <1>4, <1>5

-----------------------------------------------------------------------------
(* Cleanups *)

LEMMA ListKeeps == ASSUME BInv, NEW p \in Cleaner, List(p) PROVE BInv'
<1>1. p \in Proc /\ Types  BY Members DEF BInv
<1>2. PICK r \in Req : at' = [at EXCEPT ![p] = r]  BY DEF List, Later
<1>3. /\ pc' = [pc EXCEPT ![p] = "inspect"]
      /\ UNCHANGED <<now, created, host, object, hash, seen, until, given, link, faults>>
  BY DEF List, Goto, results
<1>4. Types'  BY <1>1, <1>2, <1>3 DEF Types, Label
<1>5. Quiet(p) /\ pc'[p] = "inspect" /\ at'[p] = r
  BY <1>1, <1>2, <1>3 DEF Types, Quiet, Only
<1>6. Storing(p)' /\ Reading(p)' /\ Cleaning(p)'  BY <1>5 DEF Storing, Reading, Cleaning
<1> QED  BY <1>1, <1>4, <1>5, <1>6, QuietKeeps

LEMMA ListEndsKeeps == ASSUME BInv, NEW p \in Cleaner, ListEnds(p) PROVE BInv'
<1>1. p \in Proc /\ faults' \in 0 .. MaxFaults  BY Members, FaultsCount DEF BInv, ListEnds
<1> QED  BY <1>1, ReturnKeeps DEF ListEnds, results

LEMMA InspectKeeps == ASSUME BInv, NEW p \in Cleaner, Inspect(p) PROVE BInv'
<1> DEFINE o == object[at[p]]
<1>1. p \in Proc /\ Types /\ faults' \in 0 .. MaxFaults
  BY Members, FaultsCount DEF BInv, Inspect
<1>2. at[p] \in Req /\ UNCHANGED <<now, created, host, object, at, hash, until, given, link>>
  BY <1>1 DEF BInv, Cleaning, Inspect, results
<1>3. CASE Skip(p)  BY <1>1, <1>2, <1>3, SkipKeeps
<1>4. CASE o # None /\ Verdict(o) # "next" /\ Goto(p, Verdict(o)) /\ seen' = [seen EXCEPT ![p] = o]
  <2>1. o \in Stored /\ o.expires = Expiry(at[p])  BY <1>1, <1>2, <1>4 DEF BInv, Types, Objects
  <2>2. Verdict(o) \in {"delete", "classify"} /\ (Verdict(o) = "delete" => o.expires <= now)
    BY <1>4 DEF Verdict, Expired
  <2> HIDE DEF o
  <2>3. Types'  BY <1>1, <1>2, <1>4, <2>1, <2>2 DEF Types, Goto, Label
  <2>4. Quiet(p) /\ pc'[p] = Verdict(o) /\ seen'[p] = o
    BY <1>1, <1>2, <1>4 DEF Types, Goto, Quiet, Only
  <2>5. o # None /\ Expiry(at[p])' = Expiry(at[p])  BY <1>2, <1>4 DEF Expiry
  <2>6. Storing(p)' /\ Reading(p)'  BY <2>2, <2>4 DEF Storing, Reading
  <2>7. Cleaning(p)'  BY <1>2, <2>1, <2>2, <2>4, <2>5 DEF Cleaning
  <2> QED  BY <1>1, <2>3, <2>4, <2>6, <2>7, QuietKeeps
<1> QED  BY <1>3, <1>4 DEF Inspect

LEMMA ClassifyKeeps == ASSUME BInv, NEW p \in Cleaner, Classify(p) PROVE BInv'
<1>1. p \in Proc /\ Types /\ faults' \in 0 .. MaxFaults
  BY Members, FaultsCount DEF BInv, Classify
<1>2. UNCHANGED <<now, created, host, object, at, hash, until, given, link>>
  BY DEF Classify, results
<1>3. CASE Skip(p)  BY <1>1, <1>2, <1>3, SkipKeeps
<1>4. CASE Orphaned(at[p]) /\ Goto(p, "delete") /\ UNCHANGED seen
  <2>1. Cleaning(p) /\ pc[p] = "classify"  BY <1>1 DEF BInv, Classify
  <2>2. Types'  BY <1>1, <1>2, <1>4 DEF Types, Goto, Label
  <2>3. Quiet(p) /\ pc'[p] = "delete"  BY <1>1, <1>2, <1>4 DEF Types, Goto, Quiet, Only
  <2>4. Storing(p)' /\ Reading(p)'  BY <2>3 DEF Storing, Reading
  <2>5. Cleaning(p)'  BY <1>2, <1>4, <2>1, <2>3 DEF Cleaning, Orphaned, Expiry
  <2> QED  BY <1>1, <2>2, <2>3, <2>4, <2>5, QuietKeeps
<1> QED  BY <1>3, <1>4 DEF Classify

\* What is deleted has expired, or belongs to a request that nobody will complete.
LEMMA DeleteKeeps == ASSUME BInv, NEW p \in Cleaner, Delete(p) PROVE BInv'
<1> DEFINE r == at[p]
<1>1. p \in Proc /\ Types /\ faults' \in 0 .. MaxFaults
  BY Members, FaultsCount DEF BInv, Delete
<1>2. r \in Req /\ (Expiry(r) <= now \/ host[r].state = "abandoned")
  BY <1>1 DEF BInv, Cleaning, Delete, Orphaned
<1>3. Skip(p) /\ UNCHANGED <<now, created, host, at, hash, until, given, link>>
  BY DEF Delete, results
<1>4. CASE UNCHANGED object  BY <1>1, <1>3, <1>4, SkipKeeps
<1>5. CASE object' = [object EXCEPT ![r] = None]
  <2>1. Types'  BY <1>1, <1>2, <1>3, <1>5 DEF Types, Skip, Goto, Label
  <2>2. Only(p) /\ pc'[p] = "next"  BY <1>1, <1>3 DEF Types, Skip, Goto, Only
  <2>3. now \in Nat /\ Expiry(r) \in Int  BY <1>1, <1>2, ConstantsOK DEF Types, Expiry
  <2>4. \A q \in Req : q # r => object'[q] = object[q]  BY <1>1, <1>5 DEF Types
  <2>5. Safe(p)  BY <1>2, <1>3, <2>2, <2>3, <2>4 DEF Safe
  <2>6. Objects'  BY <1>1, <1>3, <1>5 DEF BInv, Types, Objects, Expiry
  <2>7. Hosts'  BY <1>3, <2>5, HostsKeep
  <2> QED  BY <1>3, <2>1, <2>2, <2>5, <2>6, <2>7, IdleKeeps, StepKeeps
<1> QED  BY <1>4, <1>5 DEF Delete

LEMMA CleanKeeps == ASSUME BInv, NEW p \in Cleaner, Clean(p) PROVE BInv'
BY ListKeeps, ListEndsKeeps, InspectKeeps, ClassifyKeeps, DeleteKeeps DEF Clean

-----------------------------------------------------------------------------
(* The clock, and deaths *)

\* No claim is lost by waiting.
LEMMA TickKeeps == ASSUME BInv, Tick PROVE BInv'
<1>1. /\ now' = now + 1 /\ Types
      /\ UNCHANGED <<created, host, object, pc, at, hash, seen, until, given, link, faults>>
  BY DEF BInv, Tick, locals, results
<1>2. Types'  BY <1>1 DEF Types
<1>3. \A r \in Req : Expiry(r) \in Int /\ Expiry(r)' = Expiry(r)
  BY <1>1, ConstantsOK DEF Types, Expiry
<1>4. now \in Nat /\ now' \in Nat /\ Proc' = Proc  BY <1>1 DEF Types, Proc
<1>5. \A r \in Req : \A h : Kept(r, h) => Kept(r, h)'
  BY <1>1, <1>3, <1>4 DEF Kept, Object, Expiry
<1>6. Objects'  BY <1>1 DEF BInv, Objects, Expiry
<1>7. Hosts'  BY <1>1, <1>5 DEF BInv, Hosts
<1>8. ASSUME NEW p \in Proc PROVE Storing(p)' /\ Reading(p)' /\ Cleaning(p)'
  <2>1. Storing(p) /\ Reading(p) /\ Cleaning(p)  BY <1>8 DEF BInv
  <2>2. Storing(p)'  BY <1>1, <1>5, <2>1 DEF Storing
  <2>3. Reading(p)'  BY <1>1, <2>1 DEF Reading, Expiry
  <2>4. Cleaning(p)'  BY <1>1, <1>3, <1>4, <2>1 DEF Cleaning, Orphaned, Expiry
  <2> QED  BY <2>2, <2>3, <2>4
<1>9. \A p \in Reader : Given(p)'  BY <1>1 DEF BInv, Given, Expiry
<1> QED  BY <1>2, <1>4, <1>6, <1>7, <1>8, <1>9 DEF BInv

LEMMA CrashKeeps == ASSUME BInv, NEW p \in Proc, Crash(p) PROVE BInv'
<1>1. faults' \in 0 .. MaxFaults  BY FaultsCount DEF BInv, Crash
<1> QED  BY <1>1, ReturnKeeps DEF Crash, results

-----------------------------------------------------------------------------
(* The invariant *)

LEMMA Initially == Init => BInv
<1> SUFFICES ASSUME Init PROVE BInv  OBVIOUS
<1>1. PICK c \in Content : object = [r \in Req |-> IF r \in Old THEN Object(r, c) ELSE None]
  BY DEF Init
<1>2. now \in Nat /\ created \in [Req -> Nat]  BY ConstantsOK DEF Init
<1>3. \A r \in Req : Object(r, c) \in Stored /\ Object(r, c).created = created[r]
                     /\ Object(r, c).expires = Expiry(r)
  BY <1>2, ConstantsOK DEF Object, Stored, Expiry
<1>4. object \in [Req -> Stored \cup {None}]  BY <1>1, <1>3
<1>5. host \in [Req -> [state : {"open", "completed", "abandoned"}, hash : Content \cup {None}]]
  BY DEF Init
<1>6. pc \in [Proc -> Label] /\ at \in [Proc -> Req \cup {None}]
      /\ hash \in [Proc -> Content \cup {None}] /\ seen \in [Proc -> Stored \cup {None}]
  BY DEF Init, Label
<1>7. until \in [Reader -> Int] /\ given = [p \in Reader |-> None] /\ link = [p \in Reader |-> None]
      /\ faults \in 0 .. MaxFaults
  BY ConstantsOK DEF Init
<1>8. Types  BY <1>2, <1>4, <1>5, <1>6, <1>7 DEF Types
<1>9. Objects  BY <1>1, <1>3 DEF Objects
<1>10. Hosts  BY DEF Init, Hosts
<1>11. \A p \in Proc : Storing(p) /\ Reading(p) /\ Cleaning(p)
  BY DEF Init, Storing, Reading, Cleaning
<1>12. \A p \in Reader : Given(p)  BY <1>7 DEF Given
<1> QED  BY <1>8, <1>9, <1>10, <1>11, <1>12 DEF BInv

LEMMA StepsKeep == BInv /\ [Next]_vars => BInv'
<1> SUFFICES ASSUME BInv, [Next]_vars PROVE BInv'  OBVIOUS
<1>1. CASE Tick  BY <1>1, TickKeeps
<1>2. ASSUME NEW r \in Req, Abandon(r) PROVE BInv'  BY <1>2, AbandonKeeps
<1>3. ASSUME NEW p \in Worker,
             \/ \E r \in Req, c \in Content : Put(p, r, c)
             \/ Upload(p) \/ Look(p) \/ Complete(p)
      PROVE  BInv'
  BY <1>3, PutKeeps, UploadKeeps, LookKeeps, CompleteKeeps
<1>4. ASSUME NEW p \in Reader,
             \/ \E r \in Req : Authorize(p, r, "head") \/ Authorize(p, r, "headlink")
             \/ Head(p, "head", "fetch") \/ Head(p, "headlink", "sign")
             \/ Fetch(p) \/ Give(p)
             \/ \E wanted \in Asked : Sign(p, wanted)
             \/ Signed(p)
      PROVE  BInv'
  BY <1>4, AuthorizeKeeps, HeadKeeps, FetchKeeps, GiveKeeps, SignKeeps, SignedKeeps
<1>5. ASSUME NEW p \in Cleaner, Clean(p) PROVE BInv'  BY <1>5, CleanKeeps
<1>6. ASSUME NEW p \in Proc, Crash(p) PROVE BInv'  BY <1>6, CrashKeeps
<1>7. CASE UNCHANGED vars
  BY <1>7 DEF vars, locals, results, BInv, Types, Objects, Hosts, Kept, Object, Expiry, Storing,
              Reading, Cleaning, Orphaned, Given
<1> QED  BY <1>1, <1>2, <1>3, <1>4, <1>5, <1>6, <1>7 DEF Next

LEMMA Always == Spec => []BInv
BY Initially, StepsKeep, PTL DEF Spec

\* The artifact of a completed request is in the bucket, as the request recorded it, until
\* it expires: whatever workers, cleanups, faults and times there are.
THEOREM ArtifactsKept == Spec => []ArtifactsAreKept
<1>1. BInv => ArtifactsAreKept
  BY DEF BInv, Types, Label, Hosts, Kept, ArtifactsAreKept
<1> QED  BY <1>1, Always, PTL

\* Nothing that has expired is given out, nor anything but what its request recorded, and
\* no link works after that: however signatures are dated, and however late the answers are.
THEOREM NothingOutlives == Spec => []NothingOutlivesExpiry
<1>1. ASSUME BInv PROVE NothingOutlivesExpiry
  <2> SUFFICES ASSUME NEW p \in Reader, link[p] # None, now < link[p].until
               PROVE  object[link[p].req] = Object(link[p].req, host[link[p].req].hash)
    BY <1>1 DEF BInv, Given, NothingOutlivesExpiry
  <2> DEFINE r == link[p].req
  <2>1. /\ r \in Req /\ link[p].until \in Int /\ link[p].until <= Expiry(r)
        /\ host[r].state = "completed"
    BY <1>1 DEF BInv, Types, Given
  <2>2. now \in Nat /\ Expiry(r) \in Nat  BY <1>1, <2>1, ExpiryType DEF BInv, Types
  <2>3. now < Expiry(r)  BY <2>1, <2>2
  <2> QED  BY <1>1, <2>1, <2>3 DEF BInv, Hosts, Kept
<1> QED  BY <1>1, Always, PTL
===============================================================================
