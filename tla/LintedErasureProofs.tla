-------------------------- MODULE LintedErasureProofs --------------------------
(***************************************************************************)
(* That list() of the registry keeps its promise for any set of entities,   *)
(* any dependencies and any order of registration; and that the lint keeps  *)
(* its own for every schema and every set of policies: with no finding, the *)
(* erasure writes every entity as its policy says, is not refused, and      *)
(* takes nothing along.                                                    *)
(*                                                                         *)
(* ListIsOrdered is not inductive: that an entity with count 0 has no       *)
(* parent that left the map before it follows only from what the counts     *)
(* mean (CountsAreTrue), and the order of the result from where the parents *)
(* of each listed entity are (ParentsFollow).                               *)
(*                                                                         *)
(* The argument for the lint is about one relation at a time.  While the    *)
(* erasure goes through the list, each row is as it was or as its policy    *)
(* makes it, and all foreign keys hold (Written).  When a child is written, *)
(* its parent still has the values that it refers to (ParentStands); when a *)
(* parent is written in a way that matters, its children are already gone   *)
(* or detached (ChildIsGone).                                              *)
(***************************************************************************)
EXTENDS LintedErasure, FiniteSetTheorems, TLAPS

Out == {listed[i] : i \in 1 .. Len(listed)}

Types ==
    /\ entries \in Seq(Entity) /\ listed \in Seq(Entity)
    /\ dependsOn \in [Entity -> SUBSET Entity]
    /\ phase \in {"open", "missing", "listing", "listed", "cyclic"}

\* Nothing is lost on the way from the map to the result, and nothing missing.
Whole ==
    /\ ToCome \cup Out = Registered /\ ToCome \cap Out = {}
    /\ \A e \in Registered : dependsOn[e] \subseteq Registered

CountsAreTrue ==
    \A e \in ToCome : remaining[e] = Cardinality(ChildrenOf(e, ToCome))

\* The children of what is listed are listed.
ChildrenPrecede == \A e \in Out : ChildrenOf(e, ToCome) = {}

ParentsFollow ==
    \A i \in 1 .. Len(listed) : \A p \in dependsOn[listed[i]] :
        p \in ToCome \/ \E j \in 1 .. Len(listed) : i < j /\ listed[j] = p

Once == \A i, j \in 1 .. Len(listed) : listed[i] = listed[j] => i = j

Listing ==
    /\ Whole /\ CountsAreTrue /\ ChildrenPrecede /\ ParentsFollow /\ Once
    /\ phase = "listed" => ToCome = {}
    /\ phase = "cyclic" => ToCome # {} /\ Ready = {}

IInv == Types /\ (phase \in {"listing", "listed", "cyclic"} => Listing)

-----------------------------------------------------------------------------
(* What a count of 0 means *)

\* Registered entities are finitely many, so every count is a number.
LEMMA Finite ==
    ASSUME Types, NEW S \in SUBSET Registered
    PROVE  /\ IsFiniteSet(S)
           /\ \A e : IsFiniteSet(ChildrenOf(e, S)) /\ Cardinality(ChildrenOf(e, S)) \in Nat
<1>1. S \subseteq Entity  BY DEF Types, Registered
<1>2. IsFiniteSet(S)  BY <1>1, EntityOK, FS_Subset
<1>3. ASSUME NEW e
      PROVE  IsFiniteSet(ChildrenOf(e, S)) /\ Cardinality(ChildrenOf(e, S)) \in Nat
  <2>1. ChildrenOf(e, S) \subseteq S  BY DEF ChildrenOf
  <2> QED  BY <2>1, <1>2, FS_Subset, FS_CardinalityType
<1> QED  BY <1>2, <1>3

\* An entity with count 0 has no child to come, and all its parents are to come.
LEMMA ReadyIsFree ==
    ASSUME Types, Whole, CountsAreTrue, ChildrenPrecede, NEW e \in Ready
    PROVE  /\ ChildrenOf(e, ToCome) = {}
           /\ dependsOn[e] \subseteq ToCome \ {e}
<1>1. e \in ToCome /\ remaining[e] = 0  BY DEF Ready
<1>2. ToCome \in SUBSET Registered  BY DEF Whole
<1>3. ChildrenOf(e, ToCome) = {}
  BY <1>1, <1>2, Finite, FS_EmptySet DEF CountsAreTrue
<1>4. ASSUME NEW p \in dependsOn[e]  PROVE p \in ToCome \ {e}
  <2>1. p \in ToCome \cup Out  BY <1>1, <1>2 DEF Whole
  <2>2. e \in ChildrenOf(p, ToCome)  BY <1>1 DEF ChildrenOf
  <2>3. p \notin Out  BY <2>2 DEF ChildrenPrecede
  <2>4. p # e  BY <2>2, <1>3
  <2> QED  BY <2>1, <2>3, <2>4
<1> QED  BY <1>3, <1>4

-----------------------------------------------------------------------------
(* The steps of list() *)

LEMMA BeginKeeps == ASSUME IInv, BeginList PROVE IInv'
<1> USE DEF IInv
<1>1. Types'
  <2>1. listed' \in {listed, <<>>} /\ phase' \in {"missing", "listing"}  BY DEF BeginList
  <2>2. entries' = entries /\ dependsOn' = dependsOn  BY DEF BeginList
  <2>3. <<>> \in Seq(Entity)  OBVIOUS
  <2> QED  BY <2>1, <2>2, <2>3 DEF Types
<1>2. CASE Missing # {}  BY <1>1, <1>2 DEF BeginList
<1>3. CASE Missing = {}
  <2>1. /\ phase' = "listing" /\ listed' = <<>> /\ entries' = entries /\ dependsOn' = dependsOn
        /\ remaining' = [e \in Registered |-> Cardinality(ChildrenOf(e, Registered))]
    BY <1>3 DEF BeginList
  <2>2. ToCome' = Registered /\ Registered' = Registered /\ Out' = {}
    BY <2>1 DEF ToCome, Registered, Out
  <2>3. \A e \in Registered : dependsOn[e] \subseteq Registered  BY <1>3 DEF Missing
  <2>4. Whole'  BY <2>1, <2>2, <2>3 DEF Whole
  <2>5. CountsAreTrue'  BY <2>1, <2>2 DEF CountsAreTrue, ChildrenOf
  <2>6. ChildrenPrecede' /\ ParentsFollow' /\ Once'
    BY <2>1, <2>2 DEF ChildrenPrecede, ParentsFollow, Once
  <2> QED  BY <1>1, <2>1, <2>4, <2>5, <2>6 DEF Listing
<1> QED  BY <1>2, <1>3

LEMMA ListNextKeeps == ASSUME IInv, NEW e \in Entity, ListNext(e) PROVE IInv'
<1>1. Types /\ Listing /\ phase = "listing" /\ e \in Ready
  BY DEF ListNext, IInv
<1>2. /\ listed' = Append(listed, e) /\ remaining' = Counted(e)
      /\ entries' = entries /\ dependsOn' = dependsOn /\ phase' = phase
  BY DEF ListNext
<1>3. Whole /\ CountsAreTrue /\ ChildrenPrecede /\ ParentsFollow /\ Once  BY <1>1 DEF Listing
<1>4. ChildrenOf(e, ToCome) = {} /\ dependsOn[e] \subseteq ToCome \ {e}
  BY <1>1, <1>3, ReadyIsFree
<1>5. e \in ToCome /\ ToCome' = ToCome \ {e} /\ Registered' = Registered
  BY <1>1, <1>2 DEF Ready, ToCome, Counted, Registered
<1>6. /\ listed \in Seq(Entity) /\ Len(listed') = Len(listed) + 1 /\ Len(listed) \in Nat
      /\ listed'[Len(listed) + 1] = e
      /\ \A i \in 1 .. Len(listed) : listed'[i] = listed[i]
  BY <1>1, <1>2 DEF Types
<1>7. Out' = Out \cup {e}
  BY <1>6 DEF Out
<1>8. Types'  BY <1>1, <1>2 DEF Types
<1>9. Whole'  BY <1>2, <1>3, <1>5, <1>7 DEF Whole
<1>10. CountsAreTrue'
  <2> SUFFICES ASSUME NEW p \in ToCome \ {e}
               PROVE  remaining'[p] = Cardinality(ChildrenOf(p, ToCome \ {e})')
    BY <1>2, <1>5 DEF CountsAreTrue, ChildrenOf
  <2>1. ChildrenOf(p, ToCome \ {e})' = ChildrenOf(p, ToCome) \ {e}
    BY <1>2, <1>5 DEF ChildrenOf
  <2>2. IsFiniteSet(ChildrenOf(p, ToCome)) /\ Cardinality(ChildrenOf(p, ToCome)) \in Nat
    BY <1>1, <1>3, Finite DEF Whole
  <2>3. CASE p \in dependsOn[e]
    <3>1. e \in ChildrenOf(p, ToCome)  BY <2>3, <1>5 DEF ChildrenOf
    <3>2. Cardinality(ChildrenOf(p, ToCome) \ {e}) = Cardinality(ChildrenOf(p, ToCome)) - 1
      BY <3>1, <2>2, FS_RemoveElement
    <3> QED  BY <3>2, <2>1, <2>3, <1>2, <1>3 DEF Counted, CountsAreTrue
  <2>4. CASE p \notin dependsOn[e]
    <3>1. ChildrenOf(p, ToCome) \ {e} = ChildrenOf(p, ToCome)  BY <2>4 DEF ChildrenOf
    <3> QED  BY <3>1, <2>1, <2>4, <1>2, <1>3 DEF Counted, CountsAreTrue
  <2> QED  BY <2>3, <2>4
<1>11. ChildrenPrecede'
  BY <1>2, <1>3, <1>4, <1>5, <1>7 DEF ChildrenPrecede, ChildrenOf
<1>12. ParentsFollow'
  <2> SUFFICES ASSUME NEW i \in 1 .. Len(listed) + 1, NEW p \in dependsOn[listed'[i]]
               PROVE  \/ p \in ToCome \ {e}
                      \/ \E j \in 1 .. Len(listed) + 1 : i < j /\ listed'[j] = p
    BY <1>2, <1>5, <1>6 DEF ParentsFollow
  <2>1. CASE i = Len(listed) + 1  BY <2>1, <1>4, <1>6
  <2>2. CASE i \in 1 .. Len(listed)
    <3>1. p \in dependsOn[listed[i]]  BY <2>2, <1>6
    <3>2. CASE p \in ToCome
      <4>1. p = e => i < Len(listed) + 1 /\ listed'[Len(listed) + 1] = p  BY <2>2, <1>6
      <4> QED  BY <3>2, <4>1, <1>6
    <3>3. CASE \E j \in 1 .. Len(listed) : i < j /\ listed[j] = p
      BY <3>3, <1>6
    <3> QED  BY <2>2, <3>1, <3>2, <3>3, <1>3 DEF ParentsFollow
  <2> QED  BY <2>1, <2>2, <1>6
<1>13. Once'
  <2>1. \A i \in 1 .. Len(listed) : listed[i] # e  BY <1>3, <1>5 DEF Whole, Out
  <2> SUFFICES ASSUME NEW i \in 1 .. Len(listed) + 1, NEW j \in 1 .. Len(listed) + 1,
                      listed'[i] = listed'[j]
               PROVE  i = j
    BY <1>6 DEF Once
  <2>2. i \in 1 .. Len(listed) \/ i = Len(listed) + 1  BY <1>6
  <2>3. j \in 1 .. Len(listed) \/ j = Len(listed) + 1  BY <1>6
  <2> QED  BY <2>1, <2>2, <2>3, <1>3, <1>6 DEF Once
<1> QED  BY <1>1, <1>2, <1>8, <1>9, <1>10, <1>11, <1>12, <1>13 DEF IInv, Listing

LEMMA ListEndsKeeps == ASSUME IInv, ListEnds PROVE IInv'
<1>1. Types /\ Listing /\ phase = "listing" /\ Ready = {}  BY DEF ListEnds, IInv
<1>2. /\ phase' = IF ToCome = {} THEN "listed" ELSE "cyclic"
      /\ UNCHANGED <<entries, dependsOn, remaining, listed>>
  BY DEF ListEnds
<1>3. Types'  BY <1>1, <1>2 DEF Types
<1>4. ToCome' = ToCome /\ Out' = Out /\ Registered' = Registered /\ Ready' = Ready
      /\ \A e : ChildrenOf(e, ToCome)' = ChildrenOf(e, ToCome)
  BY <1>2 DEF ToCome, Out, Registered, Ready, ChildrenOf
<1>5. Whole' /\ CountsAreTrue'
  BY <1>1, <1>2, <1>4 DEF Listing, Whole, CountsAreTrue
<1>6. ChildrenPrecede' /\ ParentsFollow' /\ Once'
  BY <1>1, <1>2, <1>4 DEF Listing, ChildrenPrecede, ParentsFollow, Once
<1> QED  BY <1>1, <1>2, <1>3, <1>4, <1>5, <1>6 DEF IInv, Listing

\* A registration takes back that anything is listed.
LEMMA RegisterKeeps ==
    ASSUME IInv, NEW e \in Entity, NEW parents \in SUBSET Entity, Register(e, parents)
    PROVE  IInv'
<1>1. Types'  BY DEF Register, IInv, Types
<1>2. phase' = "open"  BY DEF Register
<1> QED  BY <1>1, <1>2 DEF IInv

LEMMA StepsKeep == ASSUME IInv, [Next]_registry PROVE IInv'
<1>1. CASE BeginList  BY <1>1, BeginKeeps
<1>2. CASE \E e \in Entity : ListNext(e)  BY <1>2, ListNextKeeps
<1>3. CASE ListEnds  BY <1>3, ListEndsKeeps
<1>4. CASE \E e \in Entity, parents \in SUBSET Entity : Register(e, parents)
  BY <1>4, RegisterKeeps
<1>5. CASE UNCHANGED registry
  BY <1>5 DEF registry, IInv, Types, Listing, Whole, CountsAreTrue, ChildrenPrecede,
              ParentsFollow, Once, ToCome, Out, Registered, ChildrenOf, Ready
<1> QED  BY <1>1, <1>2, <1>3, <1>4, <1>5 DEF Next, List

LEMMA StartsTrue == Init => IInv
BY DEF Init, IInv, Types

-----------------------------------------------------------------------------
(* The theorem *)

LEMMA Implied == ASSUME IInv PROVE ListIsOrdered
<1>1. ASSUME phase = "listing", NEW e \in Ready  PROVE dependsOn[e] \subseteq ToCome \ {e}
  BY <1>1, ReadyIsFree DEF IInv, Listing
<1>2. ASSUME phase = "listed"  PROVE Registered = Out /\ Once /\ ToCome = {} /\ ParentsFollow
  BY <1>2 DEF IInv, Listing, Whole
<1>3. ASSUME phase = "listed", NEW i \in 1 .. Len(listed), NEW j \in 1 .. Len(listed),
             listed[j] \in dependsOn[listed[i]]
      PROVE  i < j
  <2>1. PICK k \in 1 .. Len(listed) : i < k /\ listed[k] = listed[j]
    BY <1>2, <1>3 DEF ParentsFollow
  <2> QED  BY <2>1, <1>2, <1>3 DEF Once
<1>4. ASSUME phase \in {"listed", "cyclic"}
      PROVE  \A e \in Registered : dependsOn[e] \subseteq Registered
  BY <1>4 DEF IInv, Listing, Whole
<1>5. ASSUME phase = "cyclic"  PROVE \E S \in SUBSET Registered : Circle(S)
  <2>1. Types /\ Whole /\ CountsAreTrue /\ ToCome # {} /\ Ready = {}  BY <1>5 DEF IInv, Listing
  <2>2. ToCome \in SUBSET Registered  BY <2>1 DEF Whole
  <2>3. ASSUME NEW p \in ToCome  PROVE \E c \in ToCome : p \in dependsOn[c]
    <3>1. remaining[p] # 0  BY <2>1 DEF Ready
    <3>2. ChildrenOf(p, ToCome) # {}  BY <3>1, <2>1, FS_EmptySet DEF CountsAreTrue
    <3> QED  BY <3>2 DEF ChildrenOf
  <2> QED  BY <2>1, <2>2, <2>3 DEF Circle
<1> QED  BY <1>1, <1>2, <1>3, <1>4, <1>5 DEF ListIsOrdered, Once, Out

\* Whatever is registered in whatever order, list() puts every entity out once and before
\* its parents, and refuses only a missing parent or a real circle.
THEOREM ListOrder == Spec => []ListIsOrdered
<1>1. IInv /\ [Next]_registry => IInv'  BY StepsKeep
<1>2. IInv => ListIsOrdered  BY Implied
<1> QED  BY StartsTrue, <1>1, <1>2, PTL DEF Spec

-----------------------------------------------------------------------------
(* The erasure *)

\* The entities whose write has taken effect.
Done == {listed[i] : i \in {k \in 1 .. Len(listed) : k < erased \/ (k = erased /\ refused = "no")}}

Foreseen ==
    /\ refused \in {"no", "dangling"}
    /\ refused = "dangling" =>
        \E r \in Relation : \E i \in Pair(r) : Value(r.child, r.fields[i]) = r.child

Untouched == row = [e \in Model |-> Before(e)] /\ erased = 0 /\ refused = "no"

Written ==
    /\ erased \in 0 .. Len(listed) /\ Foreseen
    /\ row = [e \in Model |-> IF e \in Done THEN After(e) ELSE Before(e)]
    /\ \A r \in Relation : Holds(r, row)

LInv ==
    /\ IInv /\ InstanceOK(instance)
    /\ report \in {"none", "ok", "findings"}
    /\ report = "none" => Untouched
    /\ report # "none" => phase \in {"missing", "cyclic", "listed"}
    /\ report = "ok" => phase = "listed" /\ Findings = {} /\ Written

-----------------------------------------------------------------------------
(* What a report without findings says *)

LEMMA NoFinding == ASSUME NEW code, NEW S, Finding(code, S) = {} PROVE S = {}
BY DEF Finding

\* Everything registered has a definition and a model.
LEMMA AllChecked ==
    ASSUME Findings = {}
    PROVE  Registered \subseteq Shared /\ Shared \subseteq Model /\ Checked = Registered
<1>1. Finding("not shared", Registered \ Shared) = {} /\ Finding("unregistered model", Unregistered) = {}
  BY DEF Findings
<1>2. Registered \ Shared = {} /\ Unregistered = {}  BY <1>1, NoFinding
<1> QED  BY <1>2 DEF Unregistered, Shared, Checked

LEMMA NoNullTrouble == ASSUME Findings = {}, NEW e \in Registered PROVE Fits(e)
<1>1. Finding("nonnullable write", NonNullableWrites) = {}  BY DEF Findings
<1>2. NonNullableWrites = {}  BY <1>1, NoFinding
<1> QED  BY <1>2, AllChecked DEF NonNullableWrites, Fits

\* Of a relation of a registered entity: both ends are registered and different; and if the
\* parent's write matters to the child, the child comes first, and goes or is detached.
LEMMA RelationsAreSafe ==
    ASSUME Findings = {}, InstanceOK(instance), NEW r \in Relation,
           r.child \in Registered \/ r.parent \in Registered
    PROVE  /\ r.child \in Registered /\ r.parent \in Registered /\ r.child # r.parent
           /\ ParentChanges(r) => /\ r.parent \in dependsOn[r.child]
                                  /\ DeletesRow(r.child) \/ Detaches(r)
<1> DEFINE both     == {s \in Relation : s.child \in Shared /\ s.parent \in Shared}
           changing == {s \in both : ParentChanges(s)}
           edges    == {<<s.child, s.parent>> : s \in {t \in Relation : Looked(t)}}
<1>1. RelationFindings = {}  BY DEF Findings
<1>2. /\ Finding("unmapped relation", {s.child : s \in {t \in Relation : Looked(t) /\ Unmapped(t)}}) = {}
      /\ Finding("dependency order", {s.child : s \in {t \in changing : t.parent \notin dependsOn[t.child]}}) = {}
      /\ Finding("conflict", {s.child : s \in {t \in changing : ~DeletesRow(t.child) /\ ~Detaches(t)}}) = {}
      /\ Finding("cycle", {e \in Model : Circular(edges)}) = {}
  BY <1>1, Zenon DEF RelationFindings
<1>3. /\ {s.child : s \in {t \in Relation : Looked(t) /\ Unmapped(t)}} = {}
      /\ {s.child : s \in {t \in changing : t.parent \notin dependsOn[t.child]}} = {}
      /\ {s.child : s \in {t \in changing : ~DeletesRow(t.child) /\ ~Detaches(t)}} = {}
      /\ {e \in Model : Circular(edges)} = {}
  <2> HIDE DEF changing, edges
  <2> QED  BY <1>2, NoFinding
<1>4. Registered = Shared  BY AllChecked DEF Shared
<1>5. Looked(r)  BY <1>4 DEF Looked
<1>6. r \in both  BY <1>3, <1>5 DEF Unmapped
<1>7. r.child # r.parent
  <2> SUFFICES ASSUME r.child = r.parent PROVE FALSE  OBVIOUS
  <2>1. r.child \in Model /\ r.child \in Entity  BY DEF InstanceOK, Relation, Model
  <2>2. <<r.child, r.child>> \in edges  BY <1>5
  <2>3. Circular(edges)
    <3>1. {r.child} # {} /\ {r.child} \in SUBSET Entity  BY <2>1
    <3>2. \A p \in {r.child} : \E c \in {r.child} : <<c, p>> \in edges  BY <2>2
    <3> HIDE DEF edges
    <3> QED  BY <3>1, <3>2 DEF Circular
  <2> QED  BY <2>1, <2>3, <1>3
<1>8. ParentChanges(r) => r \in changing  BY <1>6
<1> QED  BY <1>3, <1>4, <1>6, <1>7, <1>8

\* No model is left out, and no column, without a reason.
LEMMA AllCovered ==
    ASSUME Findings = {}, NEW e \in Model, e \notin instance.excluded
    PROVE  e \in Registered /\ \A c \in Columns(e) : c \in Ruled(e) \/ Reasoned(e, c)
<1>1. Finding("unregistered model", Unregistered) = {} /\ Finding("missing policy field", Uncovered) = {}
  BY DEF Findings
<1>2. Unregistered = {} /\ Uncovered = {}  BY <1>1, NoFinding
<1>3. e \in Shared  BY <1>2 DEF Unregistered
<1> QED  BY <1>2, <1>3 DEF Uncovered, Checked, Shared

-----------------------------------------------------------------------------
(* One relation at a time *)

\* The value that a parent's write leaves alone.
LEMMA KeptValue ==
    ASSUME NEW e, NEW c, ~(c \in Ruled(e) /\ Rule(e)[c] # "retain")
    PROVE  Value(e, c) = Kept
BY DEF Value

\* The null that a child's write puts in.
LEMMA NullValue ==
    ASSUME NEW e, NEW c, WritesNull(e, c)
    PROVE  Value(e, c) = Null
BY DEF Value, WritesNull

\* A row that its policy rewrites is a row.
LEMMA RowIsThere ==
    ASSUME InstanceOK(instance), FamilyOK, NEW e \in Model
    PROVE  /\ Before(e) # None
           /\ ~DeletesRow(e) => After(e) # None
<1>1. e \in Entity /\ None \notin [Columns(e) -> Entity \cup {Kept, Null}]
  BY DEF InstanceOK, Model, Columns
<1>2. Before(e) \in [Columns(e) -> Entity \cup {Kept, Null}]  BY DEF Before
<1>3. [c \in Columns(e) |-> Value(e, c)] \in [Columns(e) -> Entity \cup {Kept, Null}]
  BY <1>1 DEF Value
<1> QED  BY <1>1, <1>2, <1>3 DEF After

\* A parent that has been written shows a child of it the values of before, unless its
\* write matters to the child.
LEMMA ParentStands ==
    ASSUME LInv, FamilyOK, NEW r \in Relation, r.parent \in Done => ~ParentChanges(r)
    PROVE  report = "ok" => /\ row[r.parent] # None
                            /\ \A i \in Pair(r) : row[r.parent][r.references[i]] = Kept
<1> SUFFICES ASSUME report = "ok"
             PROVE  /\ row[r.parent] # None
                    /\ \A i \in Pair(r) : row[r.parent][r.references[i]] = Kept
  OBVIOUS
<1> DEFINE p == r.parent
<1>1. /\ InstanceOK(instance) /\ p \in Model /\ \A i \in Pair(r) : r.references[i] \in Columns(p)
      /\ row[p] = IF p \in Done THEN After(p) ELSE Before(p)
  BY DEF LInv, Written, InstanceOK, Relation, Model, Columns
<1>2. CASE p \notin Done  BY <1>1, <1>2, RowIsThere DEF Before
<1>3. CASE p \in Done
  <2>1. ~DeletesRow(p) /\ \A i \in Pair(r) : ~(r.references[i] \in Ruled(p) /\ Rule(p)[r.references[i]] # "retain")
    BY <1>3 DEF ParentChanges
  <2>2. \A i \in Pair(r) : Value(p, r.references[i]) = Kept  BY <2>1, KeptValue
  <2>3. row[p] = [c \in Columns(p) |-> Value(p, c)]  BY <1>1, <1>3, <2>1 DEF After
  <2> QED  BY <1>1, <1>3, <2>1, <2>2, <2>3, RowIsThere
<1> QED  BY <1>2, <1>3

\* A child that has been written, and was to go or to be detached, holds without its parent.
LEMMA ChildIsGone ==
    ASSUME LInv, report = "ok", NEW r \in Relation, r.child \in Done,
           DeletesRow(r.child) \/ Detaches(r), NEW rows, rows[r.child] = row[r.child]
    PROVE  Holds(r, rows)
<1> DEFINE c == r.child
<1>1. /\ c \in Model /\ \A i \in Pair(r) : r.fields[i] \in Columns(c)
      /\ row[c] = After(c)
  BY DEF LInv, Written, InstanceOK, Relation, Model, Columns
<1>2. CASE DeletesRow(c)  BY <1>1, <1>2 DEF After, Holds
<1>3. CASE Detaches(r) /\ ~DeletesRow(c)
  <2>1. PICK i \in Pair(r) : WritesNull(c, r.fields[i])  BY <1>3 DEF Detaches
  <2>2. row[c][r.fields[i]] = Null  BY <1>1, <1>3, <2>1, NullValue DEF After
  <2> QED  BY <2>2 DEF Holds
<1> QED  BY <1>2, <1>3

-----------------------------------------------------------------------------
(* The erasure *)

\* Where the write of an entity finds the list.
LEMMA Position ==
    ASSUME LInv, report = "ok", EraseNext
    PROVE  /\ listed[erased + 1] \in Registered /\ listed[erased + 1] \notin Done
           /\ erased + 1 \in 1 .. Len(listed) /\ refused = "no"
           /\ Done = {listed[k] : k \in 1 .. erased}
           /\ \A c \in Registered : listed[erased + 1] \in dependsOn[c] => c \in Done
           /\ \A p \in dependsOn[listed[erased + 1]] : p \notin Done
<1>1. /\ erased \in 0 .. Len(listed) /\ refused = "no" /\ erased < Len(listed) /\ phase = "listed"
      /\ Len(listed) \in Nat
  BY DEF LInv, Written, EraseNext, IInv, Types
<1>2. Out = Registered /\ ToCome = {} /\ Once /\ ParentsFollow
  BY <1>1 DEF LInv, IInv, Listing, Whole
<1>3. Done = {listed[k] : k \in 1 .. erased}  BY <1>1 DEF Done
<1>4. listed[erased + 1] \in Registered /\ listed[erased + 1] \notin Done /\ erased + 1 \in 1 .. Len(listed)
  BY <1>1, <1>2, <1>3 DEF Once, Out
<1>5. ASSUME NEW c \in Registered, listed[erased + 1] \in dependsOn[c]  PROVE c \in Done
  <2>1. PICK i \in 1 .. Len(listed) : listed[i] = c  BY <1>2 DEF Out
  <2>2. PICK j \in 1 .. Len(listed) : i < j /\ listed[j] = listed[erased + 1]
    BY <1>2, <1>5, <2>1 DEF ParentsFollow
  <2>3. j = erased + 1  BY <2>2, <1>2, <1>4 DEF Once
  <2> QED  BY <2>1, <2>2, <2>3, <1>1, <1>3
<1>6. ASSUME NEW p \in dependsOn[listed[erased + 1]]  PROVE p \notin Done
  <2>1. PICK j \in 1 .. Len(listed) : erased + 1 < j /\ listed[j] = p
    BY <1>2, <1>4, <1>6 DEF ParentsFollow
  <2> QED  BY <2>1, <1>1, <1>2, <1>3 DEF Once
<1> QED  BY <1>1, <1>3, <1>4, <1>5, <1>6

\* The write of an entity after a report without findings.
LEMMA EraseKeeps == ASSUME LInv, FamilyOK, report = "ok", EraseNext PROVE Written'
<1> DEFINE e        == listed[erased + 1]
           rows     == [row EXCEPT ![e] = After(e)]
           own      == {r \in Relation : r.child = e /\ ~Holds(r, rows)}
           children == {r \in Relation : r.parent = e /\ r.child # e /\ ~Holds(r, rows)}
<1>1. /\ e \in Registered /\ e \notin Done /\ erased + 1 \in 1 .. Len(listed) /\ refused = "no"
      /\ Done = {listed[k] : k \in 1 .. erased}
      /\ \A c \in Registered : e \in dependsOn[c] => c \in Done
      /\ \A p \in dependsOn[e] : p \notin Done
  BY Position
<1>2. /\ Findings = {} /\ InstanceOK(instance) /\ erased \in 0 .. Len(listed)
      /\ row = [f \in Model |-> IF f \in Done THEN After(f) ELSE Before(f)]
      /\ \A r \in Relation : Holds(r, row)
      /\ erased' = erased + 1 /\ UNCHANGED <<registry, instance>> /\ e \in Model /\ Erase(e)
      /\ Len(listed) \in Nat
  BY DEF LInv, Written, EraseNext, IInv, Types
<1>3. rows[e] = After(e) /\ \A f \in Model : f # e => rows[f] = row[f]  BY <1>2
<1>4. UNCHANGED <<listed, instance>>  BY <1>2 DEF registry
<1>5. Fits(e)  BY <1>1, <1>2, NoNullTrouble
<1>6. \A r \in Relation : r.child \in Model /\ r.parent \in Model
  BY <1>2 DEF InstanceOK, Relation, Model
\* When a parent is written, its children do not notice, or are gone.
<1>7. children = {}
  <2> SUFFICES ASSUME NEW r \in Relation, r.parent = e, r.child # e  PROVE Holds(r, rows)
    OBVIOUS
  <2>1. r.child \in Registered /\ (ParentChanges(r) => e \in dependsOn[r.child] /\ (DeletesRow(r.child) \/ Detaches(r)))
    BY <1>1, <1>2, RelationsAreSafe
  <2>2. rows[r.child] = row[r.child]  BY <1>3, <1>6
  <2>3. CASE ParentChanges(r)
    BY <2>1, <2>2, <2>3, <1>1, ChildIsGone
  <2>4. CASE ~ParentChanges(r)
    <3>1. row[e] # None /\ \A i \in Pair(r) : row[e][r.references[i]] = Kept
      BY <2>4, ParentStands
    <3>2. ~DeletesRow(e) /\ \A i \in Pair(r) : ~(r.references[i] \in Ruled(e) /\ Rule(e)[r.references[i]] # "retain")
      BY <2>4 DEF ParentChanges
    <3>3. \A i \in Pair(r) : r.references[i] \in Columns(e) /\ Value(e, r.references[i]) = Kept
      BY <3>2, <1>2, KeptValue DEF InstanceOK, Relation, Columns
    <3>4. rows[e] # None /\ \A i \in Pair(r) : rows[e][r.references[i]] = Kept
      BY <3>2, <3>3, <1>2, <1>3, RowIsThere DEF After
    <3>5. Holds(r, row)  BY <1>2
    <3> QED  BY <2>2, <3>1, <3>4, <3>5 DEF Holds
  <2> QED  BY <2>3, <2>4
\* When a child is written, its parent stands: only a replacement can miss it.
<1>8. ASSUME NEW r \in own  PROVE \E i \in Pair(r) : Value(e, r.fields[i]) = e
  <2>1. r \in Relation /\ r.child = e /\ ~Holds(r, rows)  OBVIOUS
  <2>2. r.parent # e /\ (ParentChanges(r) => r.parent \in dependsOn[e])
    BY <2>1, <1>1, <1>2, RelationsAreSafe
  <2>3. /\ rows[r.parent] # None
        /\ \A i \in Pair(r) : rows[r.parent][r.references[i]] = Kept
    BY <2>1, <2>2, <1>1, <1>3, <1>6, ParentStands
  <2>4. ~DeletesRow(e)  BY <2>1, <1>3 DEF Holds, After
  <2>5. \A i \in Pair(r) : r.fields[i] \in Columns(e)
    BY <2>1, <1>2 DEF InstanceOK, Relation, Columns
  <2>6. \A i \in Pair(r) : rows[e][r.fields[i]] = Value(e, r.fields[i])
    BY <2>4, <2>5, <1>3 DEF After
  <2>7. PICK i \in Pair(r) : rows[e][r.fields[i]] # Kept
    BY <2>1, <2>3 DEF Holds
  <2>8. rows[e][r.fields[i]] # Null  BY <2>1 DEF Holds
  <2> QED  BY <2>6, <2>7, <2>8 DEF Value
<1>9. ASSUME Foreseen', row' = [f \in Model |-> IF f \in Done' THEN After(f) ELSE Before(f)],
             \A r \in Relation : Holds(r, row')
       PROVE  Written'
  <2>1. (\A r \in Relation : Holds(r, row))'  BY <1>4, <1>9 DEF Holds, Relation, Pair
  <2>2. (row = [f \in Model |-> IF f \in Done THEN After(f) ELSE Before(f)])'
    BY <1>4, <1>9 DEF Model, After, Before, DeletesRow, Ruled, Rule, Value, Columns
  <2>3. erased' \in 0 .. Len(listed')  BY <1>1, <1>2, <1>4
  <2> QED  BY <1>9, <2>1, <2>2, <2>3 DEF Written
<1>10. CASE own # {} /\ refused' = "dangling" /\ UNCHANGED row
  <2>1. PICK r \in own : \E i \in Pair(r) : Value(e, r.fields[i]) = e  BY <1>8, <1>10
  <2>2. \E i \in Pair(r) : Value(r.child, r.fields[i]) = r.child  BY <2>1
  <2>3. Foreseen'
    BY <2>2, <1>4, <1>10 DEF Foreseen, Relation, Pair, Value, Ruled, Rule
  <2>4. Done' = Done
    <3>1. refused' # "no" /\ erased \in Nat /\ erased + 1 <= Len(listed) /\ Len(listed) \in Nat
      BY <1>1, <1>2, <1>10
    <3>2. {k \in 1 .. Len(listed) : k < erased + 1 \/ (k = erased + 1 /\ refused' = "no")} = 1 .. erased
      BY <3>1
    <3> QED  BY <3>2, <1>1, <1>2, <1>4 DEF Done
  <2>5. /\ row' = [f \in Model |-> IF f \in Done THEN After(f) ELSE Before(f)]
        /\ \A r1 \in Relation : Holds(r1, row')
    BY <1>2, <1>10
  <2>6. row' = [f \in Model |-> IF f \in Done' THEN After(f) ELSE Before(f)]  BY <2>4, <2>5
  <2> QED  BY <2>3, <2>5, <2>6, <1>9
<1>11. CASE own = {} /\ row' = rows /\ UNCHANGED refused
  <2>1. Foreseen'
    BY <1>1, <1>11 DEF Foreseen
  <2>2. Done' = Done \cup {e}
    <3>1. {k \in 1 .. Len(listed) : k < erased + 1 \/ (k = erased + 1 /\ refused' = "no")}
            = 1 .. erased + 1
      BY <1>1, <1>2, <1>11
    <3>2. 1 .. erased + 1 = (1 .. erased) \cup {erased + 1}  BY <1>1, <1>2
    <3> QED  BY <3>1, <3>2, <1>1, <1>2, <1>4 DEF Done
  <2>3. row' = [f \in Model |-> IF f \in Done \cup {e} THEN After(f) ELSE Before(f)]
    BY <1>2, <1>11
  <2>4. ASSUME NEW r \in Relation  PROVE Holds(r, rows)
    <3>1. CASE r.child = e \/ r.parent = e  BY <3>1, <1>7, <1>11
    <3>2. CASE r.child # e /\ r.parent # e
      <4>1. rows[r.child] = row[r.child] /\ rows[r.parent] = row[r.parent]  BY <3>2, <1>3, <1>6
      <4>2. Holds(r, row)  BY <1>2
      <4> QED  BY <4>1, <4>2 DEF Holds
    <3> QED  BY <3>1, <3>2
  <2>5. \A r \in Relation : Holds(r, row')  BY <2>4, <1>11
  <2>6. row' = [f \in Model |-> IF f \in Done' THEN After(f) ELSE Before(f)]  BY <2>2, <2>3
  <2> QED  BY <2>1, <2>5, <2>6, <1>9
<1>12. \/ own # {} /\ refused' = "dangling" /\ UNCHANGED row
       \/ own = {} /\ row' = rows /\ UNCHANGED refused
  BY <1>2, <1>5, <1>7 DEF Erase
<1> QED  BY <1>10, <1>11, <1>12
-----------------------------------------------------------------------------
(* The theorems *)

\* Every step of the composition is one of the registry's, or leaves it alone.
LEMMA RegistrySteps ==
    ASSUME IInv, InstanceOK(instance), ErasureNext PROVE [Next]_registry
<1>1. CASE RegisterNext
  BY <1>1 DEF RegisterNext, InstanceOK, Next
<1>2. CASE ListEntities  BY <1>2 DEF ListEntities, Next
<1>3. CASE Validate \/ EraseNext  BY <1>3 DEF Validate, EraseNext
<1> QED  BY <1>1, <1>2, <1>3 DEF ErasureNext

LEMMA LInitially == ASSUME ErasureInit, FamilyOK PROVE LInv
<1>1. IInv  BY StartsTrue DEF ErasureInit
<1>2. InstanceOK(instance)  BY DEF ErasureInit, FamilyOK
<1> QED  BY <1>1, <1>2 DEF ErasureInit, LInv, Untouched, Before, Model, Columns, Kept

LEMMA SameFindings == ASSUME UNCHANGED <<registry, instance>> PROVE Findings' = Findings
<1>1. UNCHANGED <<entries, dependsOn, instance>>  BY DEF registry
<1>2. Registered' = Registered /\ Shared' = Shared /\ Model' = Model /\ Checked' = Checked /\ Relation' = Relation
  BY <1>1 DEF Registered, Shared, Model, Checked, Relation
<1>3. /\ NonNullableWrites' = NonNullableWrites /\ Uncovered' = Uncovered
      /\ IgnoredWithPolicy' = IgnoredWithPolicy /\ Unregistered' = Unregistered
  BY <1>1, <1>2 DEF NonNullableWrites, Uncovered, IgnoredWithPolicy, Unregistered, DeletesRow, Columns,
     Nullable, Rule, Ruled, WritesNull, Reasoned
<1>4. DependencyFindings' = DependencyFindings
  BY <1>1, <1>2 DEF DependencyFindings, Circular, Finding
<1>5. RelationFindings' = RelationFindings
  BY <1>1, <1>2 DEF RelationFindings, Circular, Finding, Looked, Unmapped, ParentChanges, Detaches, Pair,
     DeletesRow, Nullable, Rule, Ruled, WritesNull
<1> QED  BY <1>2, <1>3, <1>4, <1>5 DEF Findings, Finding

\* Until the erasure starts, all foreign keys hold.
LEMMA StartsWritten ==
    ASSUME Untouched, InstanceOK(instance), IInv, FamilyOK PROVE Written
<1>1. erased = 0 /\ refused = "no" /\ row = [e \in Model |-> Before(e)]  BY DEF Untouched
<1>2. Done = {} /\ erased \in 0 .. Len(listed)  BY <1>1 DEF Done, IInv, Types
<1>3. ASSUME NEW r \in Relation  PROVE Holds(r, row)
  <2>1. /\ r.child \in Model /\ r.parent \in Model
        /\ \A i \in Pair(r) : r.fields[i] \in Columns(r.child) /\ r.references[i] \in Columns(r.parent)
    BY DEF InstanceOK, Relation, Model, Columns
  <2> QED  BY <1>1, <2>1, RowIsThere DEF Holds, Before
<1> QED  BY <1>1, <1>2, <1>3 DEF Written, Foreseen

\* What Written says is of the instance, the listing and the tables alone.
LEMMA SameWritten ==
    ASSUME Written, UNCHANGED <<instance, listed, row, erased, refused>>
    PROVE  Written'
<1>1. Done' = Done /\ Relation' = Relation /\ Model' = Model  BY DEF Done, Relation, Model
<1>2. ASSUME NEW e PROVE After(e)' = After(e) /\ Before(e)' = Before(e)
  <2>1. Rule(e)' = Rule(e) /\ Columns(e)' = Columns(e)  BY DEF Rule, Columns
  <2>2. DeletesRow(e)' <=> DeletesRow(e)  BY <2>1 DEF DeletesRow, Ruled
  <2>3. ASSUME NEW c PROVE Value(e, c)' = Value(e, c)  BY <2>1 DEF Value, Ruled
  <2> QED  BY <2>1, <2>2, <2>3 DEF After, Before
<1>3. Foreseen'
  <2>1. ASSUME NEW e, NEW c PROVE Value(e, c)' = Value(e, c)  BY DEF Value, Ruled, Rule
  <2>2. ASSUME NEW r PROVE Pair(r)' = Pair(r)  BY DEF Pair
  <2> QED  BY <1>1, <2>1, <2>2 DEF Written, Foreseen
<1>4. \A r \in Relation : Holds(r, row)'
  <2>1. ASSUME NEW r PROVE Holds(r, row)' <=> Holds(r, row)  BY DEF Holds, Pair
  <2> QED  BY <2>1 DEF Written
<1>5. row' = [e \in Model |-> IF e \in Done THEN After(e)' ELSE Before(e)']
  BY <1>2 DEF Written
<1> QED  BY <1>1, <1>3, <1>4, <1>5 DEF Written

LEMMA LStep == ASSUME LInv, [ErasureNext]_vars, FamilyOK PROVE LInv'
<1>1. CASE UNCHANGED vars
  <2>1. UNCHANGED <<registry, instance, report, row, erased, refused, listed, phase>>
    BY <1>1 DEF vars, registry, tables
  <2>2. IInv' /\ InstanceOK(instance)'  BY <2>1, StepsKeep DEF LInv, InstanceOK, Pair
  <2>3. Findings' = Findings  BY <2>1, SameFindings
  <2>4. Untouched => Untouched'  BY <2>1 DEF Untouched, Model, Before, Columns
  <2>5. Written => Written'  BY <2>1, SameWritten
  <2> QED  BY <2>1, <2>2, <2>3, <2>4, <2>5 DEF LInv
<1>2. CASE ErasureNext
  <2>1. IInv' /\ UNCHANGED instance /\ InstanceOK(instance)'
    BY <1>2, RegistrySteps, StepsKeep DEF LInv, ErasureNext, RegisterNext, ListEntities, Validate, EraseNext,
       InstanceOK, Pair
  <2>2. CASE RegisterNext \/ ListEntities
    <3>1. report = "none" /\ UNCHANGED <<report, row, erased, refused>>
      BY <2>2 DEF RegisterNext, ListEntities, LInv, tables
    <3>2. Untouched'  BY <3>1, <2>1 DEF LInv, Untouched, Model, Before, Columns
    <3> QED  BY <3>1, <3>2, <2>1 DEF LInv
  <2>3. CASE Validate
    <3>1. /\ report = "none" /\ UNCHANGED <<registry, instance, row, erased, refused, listed, phase>>
          /\ phase \in {"missing", "cyclic", "listed"}
          /\ report' = IF phase = "listed" /\ Findings = {} THEN "ok" ELSE "findings"
      BY <2>3 DEF Validate, registry
    <3>2. Findings' = Findings  BY <3>1, SameFindings
    <3>3. Written  BY <3>1, StartsWritten DEF LInv
    <3>4. Written'  BY <3>1, <3>3, SameWritten
    <3> QED  BY <3>1, <3>2, <3>4, <2>1 DEF LInv
  <2>4. CASE EraseNext
    <3>1. UNCHANGED <<registry, instance, report, phase>> /\ report # "none"
      BY <2>4 DEF EraseNext, registry
    <3>2. Findings' = Findings  BY <3>1, SameFindings
    <3>3. report = "ok" => Written'  BY <2>4, EraseKeeps
    <3> QED  BY <3>1, <3>2, <3>3, <2>1 DEF LInv
  <2> QED  BY <1>2, <2>2, <2>3, <2>4 DEF ErasureNext
<1> QED  BY <1>1, <1>2

LEMMA LintImplied == ASSUME LInv, FamilyOK PROVE LintIsSound
<1> SUFFICES ASSUME report = "ok" PROVE LintIsSound  BY DEF LintIsSound
<1>1. /\ Foreseen /\ Findings = {} /\ InstanceOK(instance) /\ erased \in 0 .. Len(listed)
      /\ row = [e \in Model |-> IF e \in Done THEN After(e) ELSE Before(e)]
      /\ Once /\ Out = Registered /\ Len(listed) \in Nat
  <2>1. Written /\ Findings = {} /\ InstanceOK(instance) /\ phase = "listed" /\ IInv  BY DEF LInv
  <2>2. Types /\ Whole /\ Once /\ ToCome = {}  BY <2>1 DEF IInv, Listing
  <2> QED  BY <2>1, <2>2 DEF Written, Types, Whole
<1>2. ASSUME NEW i \in 1 .. Len(listed)
      PROVE  row[listed[i]] = IF i < erased \/ (i = erased /\ refused = "no")
                              THEN After(listed[i]) ELSE Before(listed[i])
  <2>1. listed[i] \in Model  BY <1>1, AllChecked DEF Out
  <2>2. listed[i] \in Done <=> (i < erased \/ (i = erased /\ refused = "no"))
    BY <1>1 DEF Done, Once
  <2> QED  BY <1>1, <2>1, <2>2
<1>3. ASSUME NEW e \in Model, NEW c \in Columns(e), erased = Len(listed), refused = "no",
             row[e] # None, row[e][c] = Kept, e \notin instance.excluded
      PROVE  e \in Registered /\ (Reasoned(e, c) \/ Rule(e)[c] = "retain")
  <2>1. CASE c \notin Ruled(e)  BY <1>1, <1>3, <2>1, AllCovered
  <2>2. CASE c \in Ruled(e)
    <3>1. e \in Registered  BY <1>1, <1>3, AllCovered
    <3>2. e \in Done  BY <1>1, <1>3, <3>1 DEF Done, Out
    <3>3. Value(e, c) = Kept  BY <1>1, <1>3, <3>2 DEF After
    <3> QED  BY <3>1, <3>3, <2>2, <1>1 DEF Value, Kept, Null, InstanceOK, Model
  <2> QED  BY <2>1, <2>2
<1> QED  BY <1>1, <1>2, <1>3 DEF LintIsSound, Foreseen

\* In the composition, too, whatever the host registers, list() keeps its promise.
THEOREM ComposedListOrder == ErasureSpec => []ListIsOrdered
<1>1. FamilyOK  BY FamilyOK
<1>2. ErasureInit => LInv  BY <1>1, LInitially
<1>3. LInv /\ [ErasureNext]_vars => LInv'  BY <1>1, LStep
<1>4. LInv => ListIsOrdered  BY Implied DEF LInv
<1> QED  BY <1>2, <1>3, <1>4, PTL DEF ErasureSpec

\* For every schema, all policies, any order of registration and whatever the database
\* does on a broken foreign key: no finding, no refusal but the one that LintIsSound names,
\* nothing taken along, nothing left out.
THEOREM LintSoundness == ErasureSpec => []LintIsSound
<1>1. FamilyOK  BY FamilyOK
<1>2. ErasureInit => LInv  BY <1>1, LInitially
<1>3. LInv /\ [ErasureNext]_vars => LInv'  BY <1>1, LStep
<1>4. LInv => LintIsSound  BY <1>1, LintImplied
<1> QED  BY <1>2, <1>3, <1>4, PTL DEF ErasureSpec
===============================================================================
