---------------------------- MODULE LintedErasure ----------------------------
(***************************************************************************)
(* From policies to tables: entities are registered (Registry, registerDe-  *)
(* finition, compilePolicy), validated against the schema (validateRegistry *)
(* and lintPrismaSchema), and a subject is then erased in the order of      *)
(* list(), as classifyPolicy (src/src/erasure-plan.ts) reads the policies,  *)
(* in a database with foreign keys.                                         *)
(*                                                                         *)
(* The lint promises that no step of such an erasure is refused, or takes   *)
(* with it what another policy keeps.  Each table has one row of the        *)
(* subject, which refers to the subject's rows in its parents; a database   *)
(* that has the rows of other subjects refer to them is not modelled.       *)
(***************************************************************************)
EXTENDS Registry, Integers

CONSTANTS
    Family,     \* sets of schemas with policies to choose from
    None

VARIABLES
    instance,   \* the schema, the policies, and the host's order of registration
    report,     \* of validateRegistry
    row,        \* the subject's row in each table
    erased,     \* how many entities of the list have been written
    refused     \* how a write went wrong

tables == <<report, row, erased, refused>>
vars   == <<registry, instance, tables>>

-----------------------------------------------------------------------------
(* An instance *)

Model       == DOMAIN instance.model     \* the models of the schema
Columns(e)  == instance.model[e].columns
Nullable(e) == instance.model[e].nullable
Rule(e)     == instance.policy[e].rule
Ruled(e)    == DOMAIN Rule(e)

\* Relations of the side that has the foreign key.
Relation == instance.relation
Pair(r)  == 1 .. Len(r.fields)

\* The values of a column: as it was, null, or the replacement of the entity's policy.
Kept == 0
Null == -1
Value(e, c) ==
    IF c \notin Ruled(e) \/ Rule(e)[c] = "retain" THEN Kept
    ELSE IF Rule(e)[c] = "anonymize" THEN e ELSE Null

\* "delete", or anonymize with the replacement null.
WritesNull(e, c)  == c \in Ruled(e) /\ Rule(e)[c] \in {"delete", "null"}

\* deletesRow of the lint, and the same condition of compilePolicy and classifyPolicy.
DeletesRow(e) ==
    /\ instance.policy[e].level = "delete-row"
    /\ Ruled(e) # {} /\ \A c \in Ruled(e) : Rule(e)[c] = "delete"

Before(e) == [c \in Columns(e) |-> Kept]
After(e)  == IF DeletesRow(e) THEN None ELSE [c \in Columns(e) |-> Value(e, c)]

\* What the parser of schemas and the database see to: a relation names columns of both its
\* models, replacements are values of their own, and a row is not None.
InstanceOK(i) ==
    /\ DOMAIN i.model \subseteq Entity
    /\ \A n \in 1 .. Len(i.config) :
        i.config[n] \in Entity /\ i.policy[i.config[n]].dependsOn \subseteq Entity
    /\ \A r \in i.relation :
        /\ {r.child, r.parent} \subseteq DOMAIN i.model
        /\ \A k \in Pair(r) :
            /\ r.fields[k] \in i.model[r.child].columns
            /\ r.references[k] \in i.model[r.parent].columns
    /\ \A e \in DOMAIN i.model : None \notin [i.model[e].columns -> Entity \cup {Kept, Null}]

ASSUME FamilyOK ==
    /\ Kept \notin Entity /\ Null \notin Entity
    /\ \A n \in DOMAIN Family : \A i \in Family[n] : InstanceOK(i)

-----------------------------------------------------------------------------
(* Registration *)

\* compilePolicy: the stable identity is not rewritten.
Compiles(e) ==
    instance.policy[e].id \in Ruled(e) =>
        Rule(e)[instance.policy[e].id] = "retain" \/ DeletesRow(e)

ErasureInit ==
    /\ Init /\ \E n \in DOMAIN Family : instance \in Family[n]
    /\ report = "none" /\ erased = 0 /\ refused = "no"
    /\ row = [e \in DOMAIN instance.model |-> [c \in instance.model[e].columns |-> Kept]]

\* The host registers its definitions in an order of its own before it validates.
RegisterNext ==
    LET n == Len(entries) + 1
    IN  /\ phase = "open" /\ n <= Len(instance.config) /\ Compiles(instance.config[n])
        /\ Register(instance.config[n], instance.policy[instance.config[n]].dependsOn)
        /\ UNCHANGED <<instance, tables>>

ListEntities ==
    /\ report = "none" /\ Len(entries) = Len(instance.config)
    /\ phase \in {"open", "listing"}
    /\ List /\ UNCHANGED <<instance, tables>>

-----------------------------------------------------------------------------
(* lintPrismaSchema, with the strict coverage and the relations of definitions *)

Finding(code, entities) == {[code |-> code, entity |-> e] : e \in entities}

\* Only entities registered by registerDefinition have a definition to check.
Shared  == Registered \cap instance.shared
Checked == Shared \cap Model

NonNullableWrites ==
    {e \in Checked : ~DeletesRow(e) /\ \E c \in Columns(e) \ Nullable(e) : WritesNull(e, c)}

\* Every column needs a policy or a reason, except the ones that select.
Reasoned(e, c) ==
    \/ c \in instance.policy[e].ignored
    \/ c \in instance.policy[e].scope \cup {instance.policy[e].id}

Uncovered ==
    {e \in Checked :
        \/ ~(Ruled(e) \subseteq Columns(e))
        \/ e \notin instance.excluded /\ \E c \in Columns(e) : c \notin Ruled(e) /\ ~Reasoned(e, c)}

IgnoredWithPolicy ==
    {e \in Checked : \E c \in instance.policy[e].ignored : c \notin Columns(e) \/ c \in Ruled(e)}

\* Unless it is excluded with a reason.
Unregistered == (Shared \ Model) \cup (Model \ (Shared \cup instance.excluded))

\* What a depth-first search that finds a node again on its path has found.
Circular(edges) ==
    \E S \in SUBSET Entity : S # {} /\ \A p \in S : \E c \in S : <<c, p>> \in edges

DependencyFindings ==
    Finding("missing dependency", {e \in Shared : ~(dependsOn[e] \subseteq Shared)})
        \cup Finding("cycle",
                {e \in Shared : Circular({edge \in Shared \X Entity : edge[2] \in dependsOn[edge[1]]})})

\* Both ends registered, and the relation declared at the child and at the parent.
Unmapped(r) ==
    \/ r.child \notin Shared \/ r.parent \notin Shared
    \/ ~instance.policy[r.child].declared \/ ~instance.policy[r.parent].declared

\* Mutant: an update of what a child refers to is no change.
ChangedByDeletion(r) == DeletesRow(r.parent)

\* The parent's own write changes what the child refers to.
ParentChanges(r) ==
    \/ DeletesRow(r.parent)
    \/ \E i \in Pair(r) : r.references[i] \in Ruled(r.parent) /\ Rule(r.parent)[r.references[i]] # "retain"

\* MATCH SIMPLE: one component that becomes null detaches the child.
Detaches(r) == \E i \in Pair(r) : r.fields[i] \in Nullable(r.child) /\ WritesNull(r.child, r.fields[i])

Looked(r) == r.child \in Shared \/ r.parent \in Shared

RelationFindings ==
    LET both     == {r \in Relation : r.child \in Shared /\ r.parent \in Shared}
        changing == {r \in both : ParentChanges(r)}
    IN  Finding("unmapped relation", {r.child : r \in {s \in Relation : Looked(s) /\ Unmapped(s)}})
          \cup Finding("dependency order", {r.child : r \in {s \in changing : s.parent \notin dependsOn[s.child]}})
          \cup Finding("conflict", {r.child : r \in {s \in changing : ~DeletesRow(s.child) /\ ~Detaches(s)}})
          \cup Finding("cycle", {e \in Model : Circular({<<r.child, r.parent>> : r \in {s \in Relation : Looked(s)}})})

\* validateRegistry adds that entities registered without a definition cannot be checked.
Findings ==
    Finding("not shared", Registered \ Shared)
        \cup Finding("nonnullable write", NonNullableWrites) \cup Finding("missing policy field", Uncovered)
        \cup Finding("invalid policy", IgnoredWithPolicy) \cup Finding("unregistered model", Unregistered)
        \cup DependencyFindings \cup RelationFindings

Validate ==
    /\ report = "none" /\ phase \in {"missing", "cyclic", "listed"}
    /\ report' = IF phase = "listed" /\ Findings = {} THEN "ok" ELSE "findings"
    /\ UNCHANGED <<registry, instance, row, erased, refused>>

-----------------------------------------------------------------------------
(* The erasure, by a host that has read the report or not *)

\* A foreign key holds if a component is null or the parent's row matches.
Holds(r, rows) ==
    LET child == rows[r.child]  parent == rows[r.parent]
    IN  \/ child = None
        \/ \E i \in Pair(r) : child[r.fields[i]] = Null
        \/ parent # None /\ \A i \in Pair(r) : child[r.fields[i]] = parent[r.references[i]]

\* What the database makes of a child of a row that is deleted or gets other references,
\* if it does not refuse the write.
Detached(r, rows) ==
    [c \in Columns(r.child) |-> IF \E i \in Pair(r) : r.fields[i] = c THEN Null ELSE rows[r.child][c]]

Cascaded(r, rows) ==
    IF rows[r.parent] = None THEN None
    ELSE [c \in Columns(r.child) |->
            IF \E i \in Pair(r) : r.fields[i] = c
            THEN rows[r.parent][r.references[CHOOSE i \in Pair(r) : r.fields[i] = c]]
            ELSE rows[r.child][c]]

\* No column that must not be null becomes null.
Fits(e) == ~DeletesRow(e) => \A c \in Columns(e) \ Nullable(e) : ~WritesNull(e, c)

\* The write of entity e.  An erasure that takes a child along is not followed further.
Erase(e) ==
    LET rows     == [row EXCEPT ![e] = After(e)]
        own      == {r \in Relation : r.child = e /\ ~Holds(r, rows)}
        children == {r \in Relation : r.parent = e /\ r.child # e /\ ~Holds(r, rows)}
    IN  \/ ~Fits(e) /\ refused' = "required" /\ UNCHANGED row
        \/ own # {} /\ refused' = "dangling" /\ UNCHANGED row
        \/ children # {} /\ refused' = "referred" /\ UNCHANGED row
        \/ \E r \in children : \E child \in {Detached(r, rows), Cascaded(r, rows)} :
              row' = [rows EXCEPT ![r.child] = child] /\ refused' = "cascaded"
        \/ Fits(e) /\ own = {} /\ children = {} /\ row' = rows /\ UNCHANGED refused

EraseNext ==
    /\ report # "none" /\ phase = "listed" /\ erased < Len(listed) /\ refused = "no"
    /\ listed[erased + 1] \in Model
    /\ Erase(listed[erased + 1]) /\ erased' = erased + 1
    /\ UNCHANGED <<registry, instance, report>>

ErasureNext == RegisterNext \/ ListEntities \/ Validate \/ EraseNext

ErasureSpec == ErasureInit /\ [][ErasureNext]_vars

-----------------------------------------------------------------------------
(* Properties *)

\* If the lint has no finding, every entity is written as its own policy says and by no
\* other, no write is refused, and no column is left as it was without a reason.  One
\* refusal it does not foresee: a static replacement of a foreign key.
LintIsSound ==
    report = "ok" =>
        /\ refused \in {"no", "dangling"}
        /\ refused = "dangling" =>
            \E r \in Relation : \E i \in Pair(r) : Value(r.child, r.fields[i]) = r.child
        /\ \A i \in 1 .. Len(listed) :
            LET e == listed[i]
            IN  row[e] = IF i < erased \/ (i = erased /\ refused = "no") THEN After(e) ELSE Before(e)
        /\ \A e \in Model : \A c \in Columns(e) :
            erased = Len(listed) /\ refused = "no" /\ row[e] # None /\ row[e][c] = Kept =>
                \/ e \in instance.excluded
                \/ e \in Registered /\ (Reasoned(e, c) \/ Rule(e)[c] = "retain")
===============================================================================
