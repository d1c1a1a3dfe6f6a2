------------------------------ MODULE ErasureRun ------------------------------
(***************************************************************************)
(* One erasure of a subject's rows: EraseRunner (src/src/erase-runner.ts)   *)
(* on a snapshot of captureErasureSnapshot (src/src/erasure-plan.ts), with  *)
(* the executors of fromPrisma (src/src/prisma/from-prisma.ts) or the       *)
(* host's own, and the preview that may have been approved before.          *)
(*                                                                         *)
(* This is the run without a serializable transaction around it: each call  *)
(* of an executor is a step, and between two of them the application writes *)
(* to the same tables and may register further entities.  A database also   *)
(* deletes what refers to a deleted row.  (With DurableExecution the run is *)
(* one step.)                                                               *)
(***************************************************************************)
EXTENDS Naturals, FiniteSets

CONSTANTS
    Entity,           \* entities by their place in Registry.list()
    Id,               \* stable identities of rows
    Rule,             \* the compiled policy of each entity
    Cascade,          \* <<e, f>>: deleting a row of e deletes that row of f
    Identified,       \* entities whose executor has identityField and selectByIds
    MaxEdits,         \* bound on the steps of the application
    None              \* no row, no preview, no entity

\* The subject field, and all others.
Field == {"subject", "name"}

ASSUME ConstantsOK ==
    /\ Entity \subseteq Nat /\ IsFiniteSet(Entity)
    /\ Rule \in [Entity -> [deletes: SUBSET Field, anonymizes: SUBSET Field,
                            retains: SUBSET Field, level: {"delete-row", "delete-fields"}]]
    /\ \A e \in Entity :    \* a field has one strategy
        /\ Rule[e].deletes \cap (Rule[e].anonymizes \cup Rule[e].retains) = {}
        /\ Rule[e].anonymizes \cap Rule[e].retains = {}
    /\ Cascade \subseteq Entity \X Entity /\ Identified \subseteq Entity
    /\ MaxEdits \in Nat

VARIABLES
    table,       \* the rows of the tenant
    registered,  \* the registry; entries are frozen and never removed
    pc, at,      \* the step of the run, for which entity
    purpose,     \* "preview", "erase", or "erase-unverified" (allowUnverified)
    scope,       \* the entities it listed
    seen,        \* the rows it selected, by the fields of the policy
    available,   \* entities whose verification is available
    expected,    \* the approved plan
    residual,    \* entities with rows that failed verification
    reply,       \* how the run ended
    touched,     \* history: rows the application changed since the run looked for them
    due,         \* history: what was registered at the first write
    edits

run     == <<pc, at, purpose, scope, seen, available, residual, reply>>
history == <<touched, due>>
vars    == <<table, registered, run, expected, history, edits>>

-----------------------------------------------------------------------------
(* Policies: classifyPolicy *)

Rewritten(e) == Rule[e].deletes \cup Rule[e].anonymizes
Listed(e)    == Rewritten(e) \cup Rule[e].retains

Strategy(e) ==
    IF Listed(e) # {} /\ Listed(e) = Rule[e].deletes \ (Rule[e].anonymizes \cup Rule[e].retains)
          /\ Rule[e].level = "delete-row"
    THEN "delete-row"
    ELSE IF Rewritten(e) = {} THEN "retain" ELSE "update-fields"

\* The entry of updateMap for a field.
Replacement(e, f) == IF f \in Rule[e].deletes THEN "null" ELSE "anonymous"

-----------------------------------------------------------------------------
(* Executors *)

Row == [Field -> {"own", "other", "null", "anonymous"}]

Present(e) == {i \in Id : table[e][i] # None}

\* select: by subject and tenant.
Select(e) == {i \in Present(e) : table[e][i]["subject"] = "own"}

\* What a deletion in the rows ids of e takes with it.
Deleted(e, ids) ==
    [f \in Entity |-> [i \in Id |->
        IF i \in ids /\ (f = e \/ <<e, f>> \in Cascade) THEN None ELSE table[f][i]]]

\* deleteMany and updateMany, on the rows reached.
Erased(e, ids) ==
    IF Strategy(e) = "delete-row" THEN Deleted(e, ids)
    ELSE [table EXCEPT ![e] = [i \in Id |->
            IF i \in ids
            THEN [f \in Field |-> IF f \in Rewritten(e) THEN Replacement(e, f)
                                  ELSE table[e][i][f]]
            ELSE table[e][i]]]

-----------------------------------------------------------------------------
(* Control *)

Goto(label) == pc' = label

End(how) == Goto("idle") /\ at' = None /\ reply' = how

First(entities) == CHOOSE e \in entities : \A f \in entities : e <= f

Later(e) == {f \in scope : f > e}

\* On to the next entity, or to what comes after the last.
Onward(label, After) ==
    IF Later(at) # {} THEN Goto(label) /\ at' = First(Later(at)) /\ UNCHANGED reply
    ELSE After

\* A phase that goes through the entities in order.
Phase(label) == Goto(label) /\ at' = First(scope) /\ UNCHANGED reply

NothingSeen == [e \in Entity |-> [i \in {} |-> None]]

Init ==
    /\ table \in [Entity -> [Id -> {None, [f \in Field |-> "own"]}]]
    /\ registered \in SUBSET Entity
    /\ pc = "idle" /\ at = None /\ purpose = "erase"
    /\ scope = {} /\ seen = NothingSeen /\ available = {}
    /\ expected = None /\ residual = {} /\ reply = "none"
    /\ touched = [e \in Entity |-> {}] /\ due = {}
    /\ edits = 0

-----------------------------------------------------------------------------
(* captureErasureSnapshot *)

\* A preview, and an erasure; with nothing registered there is nothing to look at.  What
\* has ended is not begun again.
Inspect(why) ==
    /\ pc = "idle" /\ registered # {}
    /\ reply \in (IF why = "preview" THEN {"none"} ELSE {"none", "previewed"})
    /\ purpose' = why /\ scope' = registered
    /\ Goto("select") /\ at' = First(registered)
    /\ seen' = NothingSeen /\ available' = {} /\ residual' = {}
    /\ touched' = [e \in Entity |-> {}]
    /\ reply' = "none"
    /\ UNCHANGED <<table, registered, expected, due, edits>>

\* What the plan has of a row.  One that has no identity is known by all it holds.
Fingerprinted(e) == IF e \in Identified THEN Listed(e) ELSE Field

Fingerprint(e, i) == [f \in Fingerprinted(e) |-> table[e][i][f]]

\* The rows of a plan: by identity, or how many there are of each.
Planned(rows) ==
    [e \in Entity |->
        IF e \in Identified THEN rows[e]
        ELSE [x \in {rows[e][i] : i \in DOMAIN rows[e]} |->
                Cardinality({i \in DOMAIN rows[e] : rows[e][i] = x})]]

\* Mutant: the rows are compared by identity, and not by their values.
ApprovedIdentities(plan) ==
    \/ expected = None
    \/ /\ plan.scope = expected.scope /\ plan.verified = expected.verified
       /\ \A e \in scope : DOMAIN plan.rows[e] = DOMAIN expected.rows[e]

Approved(plan) == expected = None \/ plan = expected

\* One entity is inspected.  After the last, run goes on to its checks, and no other
\* code comes between.
Inspected(rows, entities) ==
    IF Later(at) # {} THEN Onward("select", FALSE) /\ UNCHANGED expected
    ELSE IF registered # scope THEN End("mismatch") /\ UNCHANGED expected
    ELSE LET plan == [scope |-> scope, rows |-> Planned(rows), verified |-> entities]
         IN  \/ purpose = "preview" /\ End("previewed") /\ expected' = plan
             \/ /\ purpose # "preview" /\ UNCHANGED expected
                /\ IF ~Approved(plan) THEN End("mismatch")
                   ELSE IF purpose = "erase" /\ entities # scope THEN End("unavailable")
                   ELSE Goto("announce") /\ UNCHANGED <<at, reply>>

SelectRows ==
    /\ pc = "select"
    /\ LET rows == [seen EXCEPT ![at] = [i \in Select(at) |-> Fingerprint(at, i)]]
       IN  /\ seen' = rows
           /\ IF at \in Identified
              THEN Goto("lookup") /\ UNCHANGED <<at, reply, expected>>
              ELSE Inspected(rows, available)
    /\ touched' = [touched EXCEPT ![at] = {}]
    /\ UNCHANGED <<table, registered, purpose, scope, available, residual, due, edits>>

\* The rows are looked up by identity; by then they may have changed.
Matches(e) ==
    \A i \in DOMAIN seen[e] :
        /\ table[e][i] # None
        /\ Strategy(e) # "delete-row" => \A f \in Listed(e) : table[e][i][f] = seen[e][i][f]

LookUp ==
    /\ pc = "lookup"
    /\ LET entities == IF Matches(at) THEN available \cup {at} ELSE available
       IN  available' = entities /\ Inspected(seen, entities)
    /\ UNCHANGED <<table, registered, purpose, scope, seen, residual, history, edits>>

-----------------------------------------------------------------------------
(* run *)

\* afterPreScan, which may fail, and the check that follows it.
Announce ==
    /\ pc = "announce"
    /\ \/ End("failed") /\ UNCHANGED due
       \/ IF registered # scope THEN End("mismatch") /\ UNCHANGED due
          ELSE Phase("write") /\ due' = registered
    /\ UNCHANGED <<table, registered, purpose, scope, seen, available, residual, expected,
                   touched, edits>>

\* The executor reaches some of the subject's rows, all of them if it is correct, or
\* throws.
Write ==
    /\ pc = "write"
    /\ \E ids \in SUBSET Select(at) :
        /\ Strategy(at) = "retain" => ids = {}
        /\ table' = Erased(at, ids)
    /\ \/ Onward("write", Phase("verify"))
       \/ Strategy(at) # "retain" /\ End("failed")
    /\ UNCHANGED <<registered, purpose, scope, seen, available, residual, expected, history, edits>>

\* Mutant: only the values are compared, of the rows that are found.
FailsIfFound(e, i) ==
    /\ table[e][i] # None
    /\ Strategy(e) # "delete-row" =>
        \E f \in Listed(e) :
            table[e][i][f] # IF f \in Rule[e].retains THEN seen[e][i][f] ELSE Replacement(e, f)

\* verifyEntity: a row of the snapshot is not what its policy wants.
Fails(e, i) ==
    IF Strategy(e) = "delete-row" THEN table[e][i] # None
    ELSE \/ table[e][i] = None
         \/ \E f \in Listed(e) :
                table[e][i][f] # IF f \in Rule[e].retains THEN seen[e][i][f] ELSE Replacement(e, f)

\* The last entity has been verified.
Verified(failed) == IF failed = {} THEN End("erased") ELSE End("residual")

\* 'Verify after ALL writes'.
VerifyRows ==
    /\ pc = "verify"
    /\ LET failed == IF at \in available /\ \E i \in DOMAIN seen[at] : Fails(at, i)
                     THEN residual \cup {at} ELSE residual
       IN  /\ residual' = failed
           /\ IF Strategy(at) = "delete-row" THEN Goto("recheck") /\ UNCHANGED <<at, reply>>
              ELSE Onward("verify", Verified(failed))
    /\ UNCHANGED <<table, registered, purpose, scope, seen, available, expected, history, edits>>

\* Of a deleted entity, no row must remain, whether it was seen or not.
RecheckRows ==
    /\ pc = "recheck"
    /\ LET failed == IF Select(at) # {} THEN residual \cup {at} ELSE residual
       IN  /\ residual' = failed
           /\ Onward("verify", Verified(failed))
    /\ UNCHANGED <<table, registered, purpose, scope, seen, available, expected, history, edits>>

-----------------------------------------------------------------------------
(* The application *)

Edit == edits < MaxEdits /\ edits' = edits + 1

Edited == {x \in [Field -> {"own", "other"}] : \E f \in Field : x[f] = "own"}

\* It inserts a row of the subject, changes a field of one, or makes it someone else's.
PutRow(e, i) ==
    /\ Edit
    /\ \E x \in Edited \ {table[e][i]} : table' = [table EXCEPT ![e][i] = x]
    /\ touched' = [touched EXCEPT ![e] = @ \cup {i}]
    /\ UNCHANGED <<registered, run, expected, due>>

\* It removes one, and what refers to it.
RemoveRow(e, i) ==
    /\ Edit /\ table[e][i] # None
    /\ table' = Deleted(e, {i})
    /\ touched' = [f \in Entity |->
                      IF f = e \/ <<e, f>> \in Cascade THEN touched[f] \cup {i} ELSE touched[f]]
    /\ UNCHANGED <<registered, run, expected, due>>

Register(e) ==
    /\ e \notin registered
    /\ registered' = registered \cup {e}
    /\ UNCHANGED <<table, run, expected, history, edits>>

Application ==
    \E e \in Entity : Register(e) \/ \E i \in Id : PutRow(e, i) \/ RemoveRow(e, i)

-----------------------------------------------------------------------------
Erase ==
    \/ \E why \in {"preview", "erase", "erase-unverified"} : Inspect(why)
    \/ SelectRows \/ LookUp \/ Announce \/ Write \/ VerifyRows \/ RecheckRows

Next == Erase \/ Application

Spec == Init /\ [][Next]_vars

-----------------------------------------------------------------------------
(* Properties *)

\* Types.
TypeOK ==
    /\ table \in [Entity -> [Id -> Row \cup {None}]]
    /\ registered \subseteq Entity /\ scope \subseteq registered
    /\ pc \in {"idle", "select", "lookup", "announce", "write", "verify", "recheck"}
    /\ at \in Entity \cup {None}
    /\ purpose \in {"preview", "erase", "erase-unverified"}
    /\ \A e \in Entity : DOMAIN seen[e] \subseteq Id
    /\ available \subseteq scope \cap Identified /\ residual \subseteq scope
    /\ reply \in {"none", "previewed", "mismatch", "unavailable", "failed", "residual",
                  "erased"}
    /\ touched \in [Entity -> SUBSET Id] /\ due \subseteq Entity
    /\ edits \in 0 .. MaxEdits

\* What the policy promises of row i of e.
Dealt(e, i) ==
    IF Strategy(e) = "delete-row" THEN table[e][i] = None
    ELSE /\ table[e][i] # None
         /\ \A f \in Rewritten(e) : table[e][i][f] = Replacement(e, f)
         /\ \A f \in Rule[e].retains : table[e][i][f] = seen[e][i][f]

\* Rows of the snapshot that the application has left alone.
Untouched(e) == DOMAIN seen[e] \ touched[e]

\* Types; and an erasure that returns has dealt with each row that it saw and the
\* application has left alone since, in every entity that was registered when it began to
\* write: rows to be erased are gone or rewritten, and rows to be retained are still there,
\* though executors may miss rows, others come and go, and the deletions of one entity
\* take rows of another with them.  (In an entity without stable identities, this is
\* promised only for rows to be deleted.)
SuccessIsErased ==
    /\ TypeOK
    /\ reply = "erased" =>
        /\ due \subseteq scope
        /\ \A e \in scope : \A i \in Untouched(e) :
            e \in available \/ Strategy(e) = "delete-row" => Dealt(e, i)

\* The approved preview showed this row, as it is now.
Approves(e, i) ==
    /\ e \in expected.scope
    /\ IF e \in Identified
       THEN i \in DOMAIN expected.rows[e] /\ expected.rows[e][i] = Fingerprint(e, i)
       ELSE Fingerprint(e, i) \in DOMAIN expected.rows[e]

\* The row may be written: the preview showed it so, or the application changed it after
\* the erasure had looked.
May(e, i) == i \in touched'[e] \/ Approves(e, i)

\* An erasure that was approved changes a row only if the preview showed it with the values
\* that it still has, or the application changed it after the erasure had looked; and takes
\* with it only what refers to such a row that it deletes, be it of an entity that was
\* shown or not.  So a row that changed, came or became the subject's between the preview
\* and the erasure is left alone, whichever of the calls of executors comes next.
WritesAreApproved ==
    [][pc = "write" /\ expected # None =>
        \A e \in Entity, i \in Id :
            table'[e][i] # table[e][i] =>
                \/ May(e, i)
                \/ /\ table'[e][i] = None
                   /\ \E f \in Entity : /\ <<f, e>> \in Cascade /\ Strategy(f) = "delete-row"
                                        /\ table[f][i] # None /\ table'[f][i] = None
                                        /\ May(f, i)]_vars
===============================================================================
