------------------------------- MODULE Registry -------------------------------
(***************************************************************************)
(* The registry of entities, and the order in which every erasure, export   *)
(* and preview goes through them: Registry (src/src/registry.ts).           *)
(*                                                                         *)
(* An entity names the parents before which it must be erased.  list() puts *)
(* entities out one by one, counting for each how many of its children are  *)
(* still to come; each round of its loop is a step here.                    *)
(***************************************************************************)
EXTENDS Naturals, Sequences, FiniteSets

CONSTANT Entity

ASSUME EntityOK == IsFiniteSet(Entity)

VARIABLES
    entries,     \* the registered entities, in the order of their registration
    dependsOn,   \* the parents of each
    phase,       \* of list(): "open" before it, "listing", or how it ended
    remaining,   \* its count of children for each entity to come
    listed       \* its result so far

registry == <<entries, dependsOn, phase, remaining, listed>>

Registered == {entries[i] : i \in 1 .. Len(entries)}
ToCome     == DOMAIN remaining

Init ==
    /\ entries = <<>> /\ dependsOn = [e \in Entity |-> {}]
    /\ phase = "open" /\ remaining = [e \in {} |-> 0] /\ listed = <<>>

\* Entries are frozen: none is replaced or removed, and no entity is its own parent.
Register(e, parents) ==
    /\ phase # "listing" /\ e \notin Registered /\ e \notin parents
    /\ entries' = Append(entries, e)
    /\ dependsOn' = [dependsOn EXCEPT ![e] = parents]
    /\ phase' = "open" /\ UNCHANGED <<remaining, listed>>

Missing == {e \in Registered : ~(dependsOn[e] \subseteq Registered)}

\* Mutant: parents are counted for children.
ParentsOf(e, entities) == {p \in entities : p \in dependsOn[e]}

ChildrenOf(e, entities) == {c \in entities : e \in dependsOn[c]}

BeginList ==
    /\ phase # "listing"
    /\ IF Missing # {}
       THEN phase' = "missing" /\ UNCHANGED <<remaining, listed>>
       ELSE /\ phase' = "listing" /\ listed' = <<>>
            /\ remaining' = [e \in Registered |-> Cardinality(ChildrenOf(e, Registered))]
    /\ UNCHANGED <<entries, dependsOn>>

Ready == {e \in ToCome : remaining[e] = 0}

\* The first entity in the order of registration that no other has to precede.
IsFirst(e) ==
    \E i \in 1 .. Len(entries) :
        entries[i] = e /\ \A j \in 1 .. i - 1 : entries[j] \notin Ready

\* It leaves the map, and its parents wait for one child less.  A parent that had left the
\* map before would come back to it: ListIsOrdered excludes that.
Counted(e) ==
    [p \in ToCome \ {e} |-> IF p \in dependsOn[e] THEN remaining[p] - 1 ELSE remaining[p]]

ListNext(e) ==
    /\ phase = "listing" /\ e \in Ready /\ IsFirst(e)
    /\ listed' = Append(listed, e) /\ remaining' = Counted(e)
    /\ UNCHANGED <<entries, dependsOn, phase>>

ListEnds ==
    /\ phase = "listing" /\ Ready = {}
    /\ phase' = IF ToCome = {} THEN "listed" ELSE "cyclic"
    /\ UNCHANGED <<entries, dependsOn, remaining, listed>>

List == BeginList \/ (\E e \in Entity : ListNext(e)) \/ ListEnds

Next == List \/ \E e \in Entity, parents \in SUBSET Entity : Register(e, parents)

Spec == Init /\ [][Next]_registry

-----------------------------------------------------------------------------
(* Properties *)

\* Without reference to counts: entities each of which must come after another of them.
Circle(S) == S # {} /\ \A p \in S : \E c \in S : p \in dependsOn[c]

\* list() returns every entity once, and before each of its parents, none of which it
\* lets back into its map; it refuses a missing parent, and a circle of dependencies if
\* there really is one.
ListIsOrdered ==
    /\ phase = "listing" => \A e \in Ready : dependsOn[e] \subseteq ToCome \ {e}
    /\ phase = "listed" =>
        /\ Registered = {listed[i] : i \in 1 .. Len(listed)}
        /\ \A i, j \in 1 .. Len(listed) :
            /\ listed[i] = listed[j] => i = j
            /\ listed[j] \in dependsOn[listed[i]] => i < j
    /\ phase \in {"listed", "cyclic"} => \A e \in Registered : dependsOn[e] \subseteq Registered
    /\ phase = "cyclic" => \E S \in SUBSET Registered : Circle(S)
===============================================================================
