-------------------------- MODULE PagedPrivacyProofs --------------------------
(***************************************************************************)
(* What is proved of paged erasure and export, for any keys, policies and   *)
(* size of a page.                                                          *)
(*                                                                         *)
(* The inductive invariant PInv says where the job Stands at its checkpoint *)
(* by two relations: of the rows in scope to the tables (ScopeOK), and of   *)
(* the chunks to both (ChunksOK).  The heart of the proof is PageSkipsNone: *)
(* a page ends the entity, or moves the cursor, past a row only if it has   *)
(* taken the row.  It follows from two facts about the least keys of a      *)
(* finite set: they are taken in order (FirstInOrder), and a page that      *)
(* leaves a key out is full (FirstIsFull).  RowsStand and AppendStands      *)
(* carry it over to the tables and to the chunks.                           *)
(*                                                                         *)
(* NInv says that what the checkpoint counts Agrees with the job and with   *)
(* the chunks.  It rests on what a sum over a finite set is, proved here of *)
(* the folds of the community modules: that no sum depends on the order in  *)
(* which its terms are taken (SumsSplit), by the least set that would be a  *)
(* counterexample.                                                          *)
(***************************************************************************)
EXTENDS PagedPrivacy, FiniteSetTheorems, TLAPS

-----------------------------------------------------------------------------
(* The invariant *)

\* The rule has been carried out on a row.
Dealt(rule, value) ==
    \/ rule.row = "no-op"
    \/ rule.row = "delete-row" /\ value = "absent"
    \/ rule.row = "update-fields" /\ value = "clean"

\* A row in scope is within its entity's bound; as long as the job has not dealt with it,
\* it is there to be found; and behind checkpoint c it has been dealt with.
ScopeOK(c, scope, t) ==
    \A e \in Entity : \A i \in scope[e] :
        /\ e \in DOMAIN policy
        /\ c.through[e] # None /\ i <= c.through[e]
        /\ type = "export" \/ ~Behind(c, e, i) => t[e][i] # "absent"
        /\ type = "erase" /\ Behind(c, e, i) => Dealt(policy[e], t[e][i])

Holds(chunk, e, i) == chunk.entity = e /\ i \in chunk.ids

\* A chunk holds rows that checkpoint c has left behind, of an entity that exports; no two
\* hold the same row; and a row in scope that is behind is in some chunk.
ChunksOK(c, scope, ch) ==
    /\ \A k \in DOMAIN ch : \A i \in ch[k].ids :
        /\ type = "export" /\ ch[k].entity \in DOMAIN policy
        /\ policy[ch[k].entity].exports
        /\ Behind(c, ch[k].entity, i)
    /\ \A e \in Entity : \A i \in Id : \A k, l \in DOMAIN ch :
        Holds(ch[k], e, i) /\ Holds(ch[l], e, i) => k = l
    /\ type = "export" =>
        \A e \in Entity : \A i \in scope[e] :
            Behind(c, e, i) => \E k \in DOMAIN ch : Holds(ch[k], e, i)

\* An export asks for a bound only where something is exported.
BoundsOK(c) ==
    type = "export" => \A e \in DOMAIN policy : c.through[e] # None => policy[e].exports

\* Where the job stands at checkpoint c.
Stands(c, scope, t, ch) ==
    /\ c \in Checkpoint(policy)
    /\ ScopeOK(c, scope, t) /\ ChunksOK(c, scope, ch) /\ BoundsOK(c)

PInv ==
    /\ TypeOK
    /\ state = "absent" => checkpoint = None
    /\ state # "absent" => policy \in Policies
    /\ checkpoint = None => chunks = <<>> /\ \A e \in Entity : untouched[e] = {}
    /\ checkpoint # None => Stands(checkpoint, untouched, table, chunks)

-----------------------------------------------------------------------------
(* Finite sets of keys *)

LEMMA LeastKey ==
    ASSUME NEW S, S \subseteq Nat, IsFiniteSet(S), S # {}
    PROVE  \E m \in S : \A y \in S : m <= y
<1> DEFINE Below(i) == {y \in S : y < i}
           T == {Below(i) : i \in S}
           R == StrictSubsetOrdering(S)
<1>1. IsWellFoundedOn(R, SUBSET S)
  BY FS_StrictSubsetOrderingWellFounded, FS_FiniteSubsetsOfFinite
<1>2. T \subseteq SUBSET S /\ T # {}  OBVIOUS
<1>3. PICK x \in T : \A y \in T : <<y, x>> \notin R
  <2> HIDE DEF T, R
  <2> QED  BY <1>1, <1>2, WFMin
<1>4. PICK m \in S : x = Below(m)  OBVIOUS
<1>5. ASSUME NEW y \in S, ~(m <= y) PROVE FALSE
  <2>1. Below(y) \subseteq Below(m) /\ Below(y) # Below(m)
    <3>1. y \in Below(m) /\ y \notin Below(y)  BY <1>5
    <3>2. ASSUME NEW z \in Below(y) PROVE z \in Below(m)  BY <1>5
    <3> QED  BY <3>1, <3>2
  <2>2. Below(y) \in SUBSET S /\ Below(m) \in SUBSET S /\ Below(y) \in T  OBVIOUS
  <2>3. <<Below(y), Below(m)>> \in R
    <3> HIDE DEF Below
    <3> QED  BY <2>1, <2>2 DEF StrictSubsetOrdering
  <2> QED  BY <1>3, <1>4, <2>2, <2>3
<1> QED  BY <1>5

LEMMA GreatestKey ==
    ASSUME NEW S, S \subseteq Nat, IsFiniteSet(S), S # {}
    PROVE  \E m \in S : \A y \in S : m >= y
<1> DEFINE Above(i) == {y \in S : y > i}
           T == {Above(i) : i \in S}
           R == StrictSubsetOrdering(S)
<1>1. IsWellFoundedOn(R, SUBSET S)
  BY FS_StrictSubsetOrderingWellFounded, FS_FiniteSubsetsOfFinite
<1>2. T \subseteq SUBSET S /\ T # {}  OBVIOUS
<1>3. PICK x \in T : \A y \in T : <<y, x>> \notin R
  <2> HIDE DEF T, R
  <2> QED  BY <1>1, <1>2, WFMin
<1>4. PICK m \in S : x = Above(m)  OBVIOUS
<1>5. ASSUME NEW y \in S, ~(m >= y) PROVE FALSE
  <2>1. Above(y) \subseteq Above(m) /\ Above(y) # Above(m)
    <3>1. y \in Above(m) /\ y \notin Above(y)  BY <1>5
    <3>2. ASSUME NEW z \in Above(y) PROVE z \in Above(m)  BY <1>5
    <3> QED  BY <3>1, <3>2
  <2>2. Above(y) \in SUBSET S /\ Above(m) \in SUBSET S /\ Above(y) \in T  OBVIOUS
  <2>3. <<Above(y), Above(m)>> \in R
    <3> HIDE DEF Above
    <3> QED  BY <2>1, <2>2 DEF StrictSubsetOrdering
  <2> QED  BY <1>3, <1>4, <2>2, <2>3
<1> QED  BY <1>5

\* Max is the largest.
LEMMA MaxIsLargest ==
    ASSUME NEW S, S \subseteq Nat, IsFiniteSet(S), S # {}
    PROVE  Max(S) \in S /\ \A y \in S : y <= Max(S)
<1>1. PICK m \in S : \A y \in S : m >= y  BY GreatestKey
<1>2. Max(S) \in S /\ \A y \in S : Max(S) >= y  BY <1>1 DEF Max
<1> QED  BY <1>2

\* How many keys of S are smaller can be counted, and is not less for a larger key.
LEMMA SmallerKeys ==
    ASSUME NEW S, S \subseteq Nat, IsFiniteSet(S), NEW i \in Nat, NEW h \in Nat, i <= h
    PROVE  /\ Cardinality({y \in S : y < i}) \in Nat /\ Cardinality({y \in S : y < h}) \in Nat
           /\ Cardinality({y \in S : y < i}) <= Cardinality({y \in S : y < h})
<1> DEFINE A == {y \in S : y < i}
           B == {y \in S : y < h}
<1>1. A \in SUBSET S /\ B \in SUBSET S  OBVIOUS
<1>2. A \in SUBSET B
  <2> SUFFICES ASSUME NEW y \in A PROVE y \in B  OBVIOUS
  <2> QED  OBVIOUS
<1>3. IsFiniteSet(A) /\ IsFiniteSet(B)  BY <1>1, FS_Subset
<1> HIDE DEF A, B
<1>4. Cardinality(A) \in Nat /\ Cardinality(B) \in Nat  BY <1>3, FS_CardinalityType
<1>5. Cardinality(A) <= Cardinality(B)  BY <1>2, <1>3, FS_Subset
<1> QED  BY <1>4, <1>5 DEF A, B

\* A page takes the keys in order.
LEMMA FirstInOrder ==
    ASSUME NEW S, S \subseteq Nat, IsFiniteSet(S), NEW h \in First(S), NEW i \in S, i \notin First(S)
    PROVE  h < i
<1>1. h \in S /\ h \in Nat /\ i \in Nat /\ Batch \in Nat  BY ConstantsOK DEF First
<1>2. ASSUME i <= h PROVE FALSE
  <2> DEFINE a == Cardinality({y \in S : y < i})
             b == Cardinality({y \in S : y < h})
  <2>1. a \in Nat /\ b \in Nat /\ a <= b  BY <1>1, <1>2, SmallerKeys
  <2>2. b < Batch  BY DEF First
  <2>3. ~(a < Batch)  BY DEF First
  <2> HIDE DEF a, b
  <2> QED  BY <1>1, <2>1, <2>2, <2>3
<1> QED  BY <1>1, <1>2

\* A page that leaves a key out is full.
LEMMA FirstIsFull ==
    ASSUME NEW S, S \subseteq Nat, IsFiniteSet(S), S \ First(S) # {}
    PROVE  ~(Cardinality(First(S)) < Batch)
<1>1. First(S) \in SUBSET S  BY DEF First
<1>2. IsFiniteSet(First(S)) /\ IsFiniteSet(S \ First(S))
  <2>1. S \ First(S) \in SUBSET S  OBVIOUS
  <2> QED  BY <1>1, <2>1, FS_Subset
<1>3. PICK m \in S \ First(S) : \A y \in S \ First(S) : m <= y  BY <1>2, LeastKey
<1> DEFINE A == {y \in S : y < m}
<1>4. A \in SUBSET First(S)
  <2> SUFFICES ASSUME NEW y \in S, y < m PROVE y \in First(S)  OBVIOUS
  <2>1. y \in Nat /\ m \in Nat  BY <1>3
  <2> QED  BY <1>3, <2>1
<1>5. ~(Cardinality(A) < Batch)  BY <1>3 DEF First
<1>6. IsFiniteSet(A) /\ Cardinality(A) <= Cardinality(First(S))  BY <1>2, <1>4, FS_Subset
<1>7. Cardinality(A) \in Nat /\ Cardinality(First(S)) \in Nat /\ Batch \in Nat
  BY <1>2, <1>6, FS_CardinalityType, ConstantsOK
<1> HIDE DEF A
<1> QED  BY <1>5, <1>6, <1>7

-----------------------------------------------------------------------------
(* Sums over finite sets *)

\* The sum over a set, as the community modules define it: function g has the sum over each
\* of its subsets.
Sums(g, f, S) ==
    g = [s \in SUBSET S |-> IF s = {} THEN 0
                            ELSE LET x == CHOOSE x \in s : TRUE IN f[x] + g[s \ {x}]]

\* The sum of f over S.
Total(f, S) == (CHOOSE g : Sums(g, f, S))[S]

\* f gives numbers.
Counts(f, S) == \A x \in S : f[x] \in Nat

\* The element that a sum begins with.
One(s) == CHOOSE x \in s : TRUE

\* Functions sums by Total.
LEMMA SumIsTotal == ASSUME NEW f PROVE SumFunction(f) = Total(f, DOMAIN f)
BY DEF SumFunction, SumFunctionOnSet, FoldFunctionOnSet, MapThenFoldSet, Total, Sums

\* Of subsets of a finite set, some is the least.
LEMMA LeastSet ==
    ASSUME NEW S, IsFiniteSet(S), NEW T, T \subseteq SUBSET S, T # {}
    PROVE  \E t \in T : \A s \in T : s \subseteq t => s = t
<1> DEFINE R == StrictSubsetOrdering(S)
<1>1. IsWellFoundedOn(R, SUBSET S)
  BY FS_StrictSubsetOrderingWellFounded, FS_FiniteSubsetsOfFinite
<1>2. PICK t \in T : \A s \in T : <<s, t>> \notin R
  <2> HIDE DEF R
  <2> QED  BY <1>1, WFMin
<1>3. ASSUME NEW s \in T, s \subseteq t PROVE s = t
  <2>1. s \in SUBSET S /\ t \in SUBSET S  OBVIOUS
  <2>2. <<s, t>> \notin R  BY <1>2
  <2> QED  BY <1>3, <2>1, <2>2 DEF StrictSubsetOrdering
<1> QED  BY <1>3

\* A sum, unfolded once.
LEMMA SumsFields ==
    ASSUME NEW g, NEW f, NEW S, Sums(g, f, S)
    PROVE  /\ g[{}] = 0
           /\ \A s \in SUBSET S : s # {} => One(s) \in s /\ g[s] = f[One(s)] + g[s \ {One(s)}]
<1>1. {} \in SUBSET S  OBVIOUS
<1>2. g[{}] = 0  BY <1>1 DEF Sums
<1>3. ASSUME NEW s \in SUBSET S, s # {}
      PROVE  One(s) \in s /\ g[s] = f[One(s)] + g[s \ {One(s)}]
  <2>1. One(s) \in s  BY <1>3 DEF One
  <2>2. g[s] = IF s = {} THEN 0
                         ELSE LET x == CHOOSE x \in s : TRUE IN f[x] + g[s \ {x}]
    BY DEF Sums
  <2> QED  BY <1>3, <2>1, <2>2 DEF One
<1> QED  BY <1>2, <1>3

\* What the sum over a set is does not depend on what lies outside.
LEMMA SumsAgree ==
    ASSUME NEW g, NEW f, NEW A, Sums(g, f, A), NEW h, NEW e, NEW B, Sums(h, e, B),
           NEW S, IsFiniteSet(S), S \subseteq A, S \subseteq B, \A x \in S : f[x] = e[x]
    PROVE  g[S] = h[S]
<1> DEFINE T == {s \in SUBSET S : g[s] # h[s]}
<1>1. SUFFICES ASSUME T # {} PROVE FALSE  OBVIOUS
<1>2. T \subseteq SUBSET S  OBVIOUS
<1>3. PICK t \in T : \A s \in T : s \subseteq t => s = t
  <2> HIDE DEF T
  <2> QED  BY <1>1, <1>2, LeastSet
<1>4. t \in SUBSET A /\ t \in SUBSET B /\ t \in SUBSET S /\ g[t] # h[t]  OBVIOUS
<1>5. t # {}  BY <1>4, SumsFields
<1> DEFINE x == One(t)
<1>6. x \in t /\ g[t] = f[x] + g[t \ {x}] /\ h[t] = e[x] + h[t \ {x}]
  <2>1. \A s \in SUBSET A : s # {} => One(s) \in s /\ g[s] = f[One(s)] + g[s \ {One(s)}]
    BY SumsFields
  <2>2. \A s \in SUBSET B : s # {} => One(s) \in s /\ h[s] = e[One(s)] + h[s \ {One(s)}]
    BY SumsFields
  <2> HIDE DEF T
  <2> QED  BY <1>4, <1>5, <2>1, <2>2
<1> HIDE DEF x
<1>7. t \ {x} \in SUBSET S /\ t \ {x} # t /\ t \ {x} \subseteq t  BY <1>4, <1>6
<1>8. g[t \ {x}] = h[t \ {x}]  BY <1>3, <1>7
<1> QED  BY <1>4, <1>6, <1>8

\* There is such a function.
LEMMA SumsExist ==
    ASSUME NEW f, NEW S, IsFiniteSet(S)
    PROVE  Sums(CHOOSE g : Sums(g, f, S), f, S)
<1> DEFINE T == {s \in SUBSET S : ~(\E g : Sums(g, f, s))}
<1>1. SUFFICES ASSUME T # {} PROVE FALSE
  <2>1. S \in SUBSET S /\ S \notin T  BY <1>1
  <2>2. \E g : Sums(g, f, S)  BY <2>1
  <2> QED  BY <2>2
<1>2. T \subseteq SUBSET S  OBVIOUS
<1>3. PICK t \in T : \A s \in T : s \subseteq t => s = t
  <2> HIDE DEF T
  <2> QED  BY <1>1, <1>2, LeastSet
<1>4. t \in SUBSET S /\ ~(\E g : Sums(g, f, t))  OBVIOUS
<1> DEFINE Chosen(u) == CHOOSE g : Sums(g, f, u)
<1>5. ASSUME NEW u \in SUBSET t, u # t PROVE Sums(Chosen(u), f, u)
  <2>1. u \in SUBSET S /\ u \notin T  BY <1>3, <1>4, <1>5
  <2>2. \E g : Sums(g, f, u)  BY <2>1
  <2> QED  BY <2>2
<1> HIDE DEF T
<1> DEFINE h == [s \in SUBSET t |-> IF s = {} THEN 0
                                    ELSE f[One(s)] + Total(f, s \ {One(s)})]
<1>6. ASSUME NEW u \in SUBSET t, u # t PROVE h[u] = Total(f, u)
  <2>1. Sums(Chosen(u), f, u) /\ Total(f, u) = Chosen(u)[u]  BY <1>5, <1>6 DEF Total
  <2> HIDE DEF Chosen
  <2>2. CASE u = {}
    <3>1. h[u] = 0  BY <2>2
    <3>2. Chosen(u)[u] = 0  BY <2>1, <2>2, SumsFields
    <3> QED  BY <2>1, <3>1, <3>2
  <2>3. CASE u # {}
    <3> DEFINE x == One(u)
               v == u \ {x}
    <3>1. x \in u /\ Chosen(u)[u] = f[x] + Chosen(u)[v]  BY <2>1, <2>3, SumsFields
    <3>2. h[u] = f[x] + Total(f, v)  BY <2>3
    <3> HIDE DEF x, h
    <3>3. v \in SUBSET t /\ v # t /\ v \subseteq u  BY <1>6, <3>1
    <3>4. Sums(Chosen(v), f, v) /\ Total(f, v) = Chosen(v)[v]  BY <1>5, <3>3 DEF Total, Chosen
    <3>5. IsFiniteSet(v)  BY <1>4, <3>3, FS_Subset
    <3> HIDE DEF v
    <3>6. Chosen(v)[v] = Chosen(u)[v]  BY <2>1, <3>3, <3>4, <3>5, SumsAgree
    <3> QED  BY <2>1, <3>1, <3>2, <3>4, <3>6
  <2> QED  BY <2>2, <2>3
<1>7. ASSUME NEW s \in SUBSET t, s # {} PROVE Total(f, s \ {One(s)}) = h[s \ {One(s)}]
  <2>1. One(s) \in s  BY <1>7 DEF One
  <2>2. s \ {One(s)} \in SUBSET t /\ s \ {One(s)} # t  BY <2>1
  <2> HIDE DEF h
  <2> QED  BY <1>6, <2>2
<1>8. h = [s \in SUBSET t |-> IF s = {} THEN 0 ELSE f[One(s)] + h[s \ {One(s)}]]
  BY <1>7
<1>9. Sums(h, f, t)
  <2> HIDE DEF h
  <2> QED  BY <1>8 DEF Sums, One
<1> QED  BY <1>4, <1>9

\* What a sum is depends on nothing but its terms.
LEMMA TotalAgrees ==
    ASSUME NEW S, IsFiniteSet(S), NEW f, NEW e, \A x \in S : f[x] = e[x]
    PROVE  Total(f, S) = Total(e, S)
<1> DEFINE g == CHOOSE g : Sums(g, f, S)
           h == CHOOSE h : Sums(h, e, S)
<1>1. Sums(g, f, S) /\ Sums(h, e, S)  BY SumsExist
<1>2. Total(f, S) = g[S] /\ Total(e, S) = h[S]  BY DEF Total
<1> HIDE DEF g, h
<1> QED  BY <1>1, <1>2, SumsAgree

\* Each member of a set counts once, whichever the sum begins with.
LEMMA SumsSplit ==
    ASSUME NEW S, IsFiniteSet(S), NEW f, Counts(f, S), NEW g, Sums(g, f, S)
    PROVE  \A s \in SUBSET S : g[s] \in Nat /\ \A x \in s : g[s] = f[x] + g[s \ {x}]
<1> DEFINE T == {s \in SUBSET S : ~(g[s] \in Nat /\ \A x \in s : g[s] = f[x] + g[s \ {x}])}
<1>1. SUFFICES ASSUME T # {} PROVE FALSE  OBVIOUS
<1>2. T \subseteq SUBSET S  OBVIOUS
<1>3. PICK t \in T : \A s \in T : s \subseteq t => s = t
  <2> HIDE DEF T
  <2> QED  BY <1>1, <1>2, LeastSet
<1>4. t \in SUBSET S /\ ~(g[t] \in Nat /\ \A x \in t : g[t] = f[x] + g[t \ {x}])  OBVIOUS
<1>5. ASSUME NEW s \in SUBSET t, s # t
      PROVE  g[s] \in Nat /\ \A x \in s : g[s] = f[x] + g[s \ {x}]
  <2>1. s \in SUBSET S /\ s \notin T  BY <1>3, <1>4, <1>5
  <2> QED  BY <2>1
<1> HIDE DEF T
<1>6. t # {}
  <2>1. g[{}] = 0  BY SumsFields
  <2> QED  BY <1>4, <2>1
<1> DEFINE y == One(t)
<1>7. y \in t /\ g[t] = f[y] + g[t \ {y}]
  <2>1. \A s \in SUBSET S : s # {} => One(s) \in s /\ g[s] = f[One(s)] + g[s \ {One(s)}]
    BY SumsFields
  <2> QED  BY <1>4, <1>6, <2>1
<1> HIDE DEF y
<1>8. g[t \ {y}] \in Nat /\ f[y] \in Nat  BY <1>4, <1>5, <1>7 DEF Counts
<1>9. g[t] \in Nat  BY <1>7, <1>8
<1>10. ASSUME NEW x \in t, x # y PROVE g[t] = f[x] + g[t \ {x}]
  <2> DEFINE rest == (t \ {y}) \ {x}
  <2>1. g[t \ {y}] = f[x] + g[rest]  BY <1>5, <1>7, <1>10
  <2>2. (t \ {x}) \ {y} = rest  OBVIOUS
  <2>3. g[t \ {x}] = f[y] + g[(t \ {x}) \ {y}]  BY <1>5, <1>7, <1>10
  <2>4. rest \in SUBSET t /\ rest # t  BY <1>7
  <2>5. g[rest] \in Nat /\ f[x] \in Nat  BY <1>4, <1>5, <2>4 DEF Counts
  <2> HIDE DEF rest
  <2>6. g[t \ {x}] = f[y] + g[rest]  BY <2>2, <2>3
  <2> DEFINE a == g[rest]  b == f[x]  c == f[y]
  <2>7. a \in Nat /\ b \in Nat /\ c \in Nat  BY <1>8, <2>5
  <2>8. g[t] = c + (b + a) /\ g[t \ {x}] = c + a  BY <1>7, <2>1, <2>6
  <2> HIDE DEF a, b, c
  <2>9. c + (b + a) = b + (c + a)  BY <2>7
  <2> QED  BY <2>8, <2>9 DEF b
<1> QED  BY <1>4, <1>7, <1>9, <1>10

\* Each member of S counts once, and the empty sum is 0.
LEMMA TotalIsSum ==
    ASSUME NEW S, IsFiniteSet(S), NEW f, Counts(f, S)
    PROVE  /\ Total(f, S) \in Nat
           /\ \A x \in S : Total(f, S) = f[x] + Total(f, S \ {x})
           /\ S = {} => Total(f, S) = 0
<1> DEFINE g == CHOOSE g : Sums(g, f, S)
<1>1. Sums(g, f, S) /\ Total(f, S) = g[S]  BY SumsExist DEF Total
<1> HIDE DEF g
<1>2. g[S] \in Nat /\ \A x \in S : g[S] = f[x] + g[S \ {x}]
  <2>1. \A s \in SUBSET S : g[s] \in Nat /\ \A x \in s : g[s] = f[x] + g[s \ {x}]
    BY <1>1, SumsSplit
  <2> QED  BY <2>1
<1>3. ASSUME NEW x \in S PROVE Total(f, S \ {x}) = g[S \ {x}]
  <2> DEFINE h == CHOOSE h : Sums(h, f, S \ {x})
  <2>1. IsFiniteSet(S \ {x})  BY FS_RemoveElement
  <2>2. Sums(h, f, S \ {x}) /\ Total(f, S \ {x}) = h[S \ {x}]  BY <2>1, SumsExist DEF Total
  <2> HIDE DEF h
  <2> QED  BY <1>1, <2>1, <2>2, SumsAgree
<1>4. S = {} => g[S] = 0  BY <1>1, SumsFields
<1> QED  BY <1>1, <1>2, <1>3, <1>4

LEMMA TotalOfZeros ==
    ASSUME NEW S, IsFiniteSet(S), NEW f, \A x \in S : f[x] = 0
    PROVE  Total(f, S) = 0
<1> DEFINE g == CHOOSE g : Sums(g, f, S)
           h == [s \in SUBSET S |-> 0]
<1>1. Sums(g, f, S) /\ Total(f, S) = g[S]  BY SumsExist DEF Total
<1>2. Sums(h, f, S)
  <2>1. ASSUME NEW s \in SUBSET S, s # {} PROVE f[One(s)] + h[s \ {One(s)}] = 0
    <3>1. One(s) \in s  BY <2>1 DEF One
    <3>2. f[One(s)] = 0 /\ h[s \ {One(s)}] = 0  BY <3>1
    <3> QED  BY <3>2
  <2>2. h = [s \in SUBSET S |-> IF s = {} THEN 0 ELSE f[One(s)] + h[s \ {One(s)}]]
    BY <2>1
  <2> HIDE DEF h
  <2> QED  BY <2>2 DEF Sums, One
<1>3. h[S] = 0  OBVIOUS
<1> HIDE DEF g, h
<1>4. g[S] = h[S]  BY <1>1, <1>2, SumsAgree
<1> QED  BY <1>1, <1>3, <1>4

\* A member more.
LEMMA TotalAdds ==
    ASSUME NEW S, IsFiniteSet(S), NEW n, n \notin S, NEW f, NEW e,
           Counts(f, S), e[n] \in Nat, \A x \in S : e[x] = f[x]
    PROVE  Total(e, S \cup {n}) = Total(f, S) + e[n]
<1> DEFINE A == S \cup {n}
<1>1. IsFiniteSet(A)  BY FS_AddElement
<1>2. Counts(e, A) /\ A \ {n} = S  BY DEF Counts
<1>3. n \in A  OBVIOUS
<1> HIDE DEF A
<1>4. Total(e, A) = e[n] + Total(e, S)  BY <1>1, <1>2, <1>3, TotalIsSum
<1>5. Total(e, S) = Total(f, S)  BY TotalAgrees
<1>6. Total(f, S) \in Nat  BY TotalIsSum
<1> QED  BY <1>4, <1>5, <1>6 DEF A

\* A number more.
LEMMA TotalMoves ==
    ASSUME NEW S, IsFiniteSet(S), NEW f \in [S -> Nat], NEW e \in S, NEW n \in Nat
    PROVE  Total([f EXCEPT ![e] = @ + n], S) = Total(f, S) + n
<1> DEFINE h == [f EXCEPT ![e] = @ + n]
           R == S \ {e}
<1>1. h \in [S -> Nat] /\ h[e] = f[e] + n /\ \A x \in R : h[x] = f[x]  OBVIOUS
<1>2. Counts(f, S) /\ Counts(h, S) /\ Counts(f, R)  BY <1>1 DEF Counts
<1>3. IsFiniteSet(R)  BY FS_RemoveElement
<1> HIDE DEF h
<1>4. Total(f, S) = f[e] + Total(f, R) /\ Total(h, S) = h[e] + Total(h, R)
  BY <1>2, TotalIsSum
<1> HIDE DEF R
<1>5. Total(h, R) = Total(f, R)  BY <1>1, <1>3, TotalAgrees
<1>6. Total(f, R) \in Nat /\ f[e] \in Nat  BY <1>2, <1>3, TotalIsSum DEF Counts
<1> QED  BY <1>1, <1>4, <1>5, <1>6 DEF h

-----------------------------------------------------------------------------
(* Checkpoints and pages *)

LEMMA PolicyFacts ==
    ASSUME NEW p \in Policies
    PROVE  /\ p \in Seq(Rule) /\ Len(p) \in Nat /\ DOMAIN p = 1 .. Len(p)
           /\ DOMAIN p \subseteq Entity
<1>1. p \in Seq(Rule)  BY ConstantsOK
<1>2. DOMAIN p \subseteq Entity  BY DEF Entity
<1>3. Len(p) \in Nat /\ DOMAIN p = 1 .. Len(p)  BY <1>1
<1> QED  BY <1>1, <1>2, <1>3

LEMMA EntitiesAreNumbers == Entity \subseteq Nat
<1> SUFFICES ASSUME NEW p \in Policies, NEW e \in DOMAIN p PROVE e \in Nat  BY DEF Entity
<1>1. DOMAIN p = 1 .. Len(p) /\ Len(p) \in Nat  BY PolicyFacts
<1> QED  BY <1>1

\* The rows that the page of checkpoint c has to choose from.
Candidates(c) ==
    {i \in Present(c.entity) : (c.cursor # None => i > c.cursor) /\ i <= c.through[c.entity]}

LEMMA CandidatesFinite ==
    ASSUME NEW c
    PROVE  /\ Candidates(c) \subseteq Nat /\ Candidates(c) \subseteq Present(c.entity)
           /\ Candidates(c) \subseteq Id /\ IsFiniteSet(Candidates(c))
<1>1. Candidates(c) \in SUBSET Id  BY DEF Candidates, Present
<1>2. IsFiniteSet(Candidates(c))  BY <1>1, FS_Subset, ConstantsOK
<1>3. Candidates(c) \subseteq Present(c.entity)  BY DEF Candidates
<1> QED  BY <1>1, <1>2, <1>3, ConstantsOK

LEMMA PageIdsAre ==
    ASSUME NEW c
    PROVE  PageIds(c) = IF c.through[c.entity] = None THEN {} ELSE First(Candidates(c))
BY DEF PageIds, Candidates

LEMMA CheckpointFields ==
    ASSUME NEW p \in Policies, NEW c \in Checkpoint(p)
    PROVE  /\ c.entity \in 1 .. Len(p) + 1 /\ c.entity \in Nat
           /\ c.cursor \in Id \cup {None} /\ c.pages \in Nat
           /\ c.through \in [DOMAIN p -> Id \cup {None}] /\ c.counts \in [DOMAIN p -> Nat]
<1>1. Len(p) \in Nat  BY PolicyFacts
<1> QED  BY <1>1 DEF Checkpoint

\* The page of checkpoint c takes rows that are there and not behind c.
LEMMA PageRows ==
    ASSUME NEW p \in Policies, NEW c \in Checkpoint(p)
    PROVE  /\ PageIds(c) \in SUBSET Id /\ PageIds(c) \subseteq Nat
           /\ IsFiniteSet(PageIds(c)) /\ Cardinality(PageIds(c)) \in Nat
           /\ \A i \in PageIds(c) : i \in Present(c.entity) /\ ~Behind(c, c.entity, i)
<1>1. Candidates(c) \in SUBSET Id /\ IsFiniteSet(Candidates(c))  BY CandidatesFinite
<1>2. PageIds(c) \in SUBSET Candidates(c)  BY PageIdsAre DEF First
<1>3. IsFiniteSet(PageIds(c))  BY <1>1, <1>2, FS_Subset
<1>4. Cardinality(PageIds(c)) \in Nat  BY <1>3, FS_CardinalityType
<1>5. ASSUME NEW i \in Candidates(c) PROVE i \in Present(c.entity) /\ ~Behind(c, c.entity, i)
  <2>1. c.entity \in Nat /\ c.cursor \in Id \cup {None}  BY CheckpointFields
  <2>2. i \in Nat /\ i \in Present(c.entity)  BY CandidatesFinite
  <2>3. c.cursor # None => i > c.cursor /\ c.cursor \in Nat
    BY <2>1, ConstantsOK DEF Candidates
  <2> QED  BY <2>1, <2>2, <2>3 DEF Behind
<1> QED  BY <1>1, <1>2, <1>3, <1>4, <1>5, ConstantsOK

LEMMA CursorIsLast ==
    ASSUME NEW p \in Policies, NEW c \in Checkpoint(p), PageIds(c) # {}
    PROVE  /\ Cursor(c, PageIds(c)) \in PageIds(c)
           /\ \A i \in PageIds(c) : i <= Cursor(c, PageIds(c))
<1>1. PageIds(c) \subseteq Nat /\ IsFiniteSet(PageIds(c))  BY PageRows
<1>2. Max(PageIds(c)) \in PageIds(c) /\ \A i \in PageIds(c) : i <= Max(PageIds(c))
  BY <1>1, MaxIsLargest
<1> QED  BY <1>2 DEF Cursor

LEMMA EndsIfEmpty ==
    ASSUME NEW c, PageIds(c) = {} PROVE EntityEnds(c, PageIds(c))
BY FS_EmptySet, ConstantsOK DEF EntityEnds

LEMMA AdvancedFields ==
    ASSUME NEW p \in Policies, NEW c \in Checkpoint(p), c.entity <= Len(p)
    PROVE  LET d == Advanced(c, PageIds(c)) IN
           /\ d \in Checkpoint(p) /\ d.through = c.through /\ d.pages = c.pages + 1
           /\ d.entity = IF EntityEnds(c, PageIds(c)) THEN c.entity + 1 ELSE c.entity
           /\ d.cursor = IF EntityEnds(c, PageIds(c)) THEN None ELSE Cursor(c, PageIds(c))
<1> DEFINE ids == PageIds(c)
           n == Cardinality(ids)
           ends == EntityEnds(c, ids)
           cur == Cursor(c, ids)
           d == Advanced(c, ids)
<1>1. n \in Nat /\ ids \in SUBSET Id  BY PageRows
<1>2. ~ends => cur \in Id  BY <1>1, EndsIfEmpty, CursorIsLast
<1>3. d = [c EXCEPT !.counts[c.entity] = @ + n,
                    !.entity = IF ends THEN @ + 1 ELSE @,
                    !.cursor = IF ends THEN None ELSE cur,
                    !.pages = @ + 1]  BY DEF Advanced
<1>4. Len(p) \in Nat /\ DOMAIN p = 1 .. Len(p)  BY PolicyFacts
<1> HIDE DEF ids, n, ends, cur, d
<1>5. c \in [entity: 1 .. Len(p) + 1, cursor: Id \cup {None}, pages: Nat,
             through: [DOMAIN p -> Id \cup {None}], counts: [DOMAIN p -> Nat]]
  BY DEF Checkpoint
<1>6. c.entity \in DOMAIN p  BY <1>4, <1>5
<1>7. d = [entity |-> IF ends THEN c.entity + 1 ELSE c.entity,
           cursor |-> IF ends THEN None ELSE cur, pages |-> c.pages + 1,
           through |-> c.through, counts |-> [c.counts EXCEPT ![c.entity] = @ + n]]
  BY <1>3, <1>5
<1>8. /\ d.through = c.through /\ d.pages = c.pages + 1
      /\ d.entity = IF ends THEN c.entity + 1 ELSE c.entity
      /\ d.cursor = IF ends THEN None ELSE cur
  BY <1>7
<1>9. d \in Checkpoint(p)
  <2>1. [c.counts EXCEPT ![c.entity] = @ + n] \in [DOMAIN p -> Nat]  BY <1>1, <1>5, <1>6
  <2>2. (IF ends THEN c.entity + 1 ELSE c.entity) \in 1 .. Len(p) + 1  BY <1>4, <1>5, <1>6
  <2>3. (IF ends THEN None ELSE cur) \in Id \cup {None}  BY <1>2
  <2>4. c.pages + 1 \in Nat /\ c.through \in [DOMAIN p -> Id \cup {None}]  BY <1>5
  <2> QED  BY <1>7, <2>1, <2>2, <2>3, <2>4 DEF Checkpoint
<1> QED  BY <1>8, <1>9 DEF ids, ends, cur, d

\* A page leaves behind what was behind, and its rows; of other entities it leaves
\* nothing more behind.
LEMMA PageMovesOn ==
    ASSUME NEW p \in Policies, NEW c \in Checkpoint(p), c.entity <= Len(p),
           NEW e \in Nat, NEW i \in Id
    PROVE  LET d == Advanced(c, PageIds(c)) IN
           /\ Behind(c, e, i) => Behind(d, e, i)
           /\ e = c.entity /\ i \in PageIds(c) => Behind(d, e, i)
           /\ Behind(d, e, i) => Behind(c, e, i) \/ e = c.entity
<1> DEFINE ids == PageIds(c)
           ends == EntityEnds(c, ids)
           cur == Cursor(c, ids)
           d == Advanced(c, ids)
<1>1. /\ d.entity = IF ends THEN c.entity + 1 ELSE c.entity
      /\ d.cursor = IF ends THEN None ELSE cur
  BY AdvancedFields
<1>2. c.entity \in Nat /\ c.cursor \in Id \cup {None}  BY CheckpointFields
<1>3. ids \subseteq Nat /\ ids \subseteq Id  BY PageRows
<1>4. i \in Nat /\ Id \subseteq Nat /\ None \notin Id  BY ConstantsOK
<1>5. ~ends => cur \in ids /\ \A h \in ids : h <= cur  BY EndsIfEmpty, CursorIsLast
<1>6. ~ends => ~Behind(c, c.entity, cur)  BY <1>5, PageRows
<1> HIDE DEF ids, ends, cur, d
<1>7. ASSUME Behind(c, e, i) PROVE Behind(d, e, i)
  <2>1. CASE ends  BY <1>1, <1>2, <1>7, <2>1 DEF Behind
  <2>2. CASE ~ends
    <3>1. cur \in Nat /\ cur # None  BY <1>3, <1>4, <1>5, <2>2
    <3>2. c.cursor # None => ~(cur <= c.cursor) /\ c.cursor \in Nat
      BY <1>2, <1>4, <1>6, <2>2 DEF Behind
    <3>3. d.entity = c.entity /\ d.cursor = cur  BY <1>1, <2>2
    <3>4. CASE e < c.entity  BY <3>3, <3>4 DEF Behind
    <3>5. CASE e = c.entity /\ c.cursor # None /\ i <= c.cursor
      <4>1. i <= cur  BY <1>4, <3>1, <3>2, <3>5
      <4> QED  BY <3>1, <3>3, <3>5, <4>1 DEF Behind
    <3> QED  BY <1>7, <3>4, <3>5 DEF Behind
  <2> QED  BY <2>1, <2>2
<1>8. ASSUME e = c.entity, i \in ids PROVE Behind(d, e, i)
  <2>1. CASE ends  BY <1>1, <1>2, <1>8, <2>1 DEF Behind
  <2>2. CASE ~ends
    <3>1. cur # None /\ i <= cur  BY <1>3, <1>4, <1>5, <1>8, <2>2
    <3> QED  BY <1>1, <1>8, <2>2, <3>1 DEF Behind
  <2> QED  BY <2>1, <2>2
<1>9. ASSUME Behind(d, e, i), e # c.entity PROVE Behind(c, e, i)
  BY <1>1, <1>2, <1>9 DEF Behind
<1> QED  BY <1>7, <1>8, <1>9 DEF ids, d

\* A page skips no row: what is there, within the bound, and behind after the page
\* but not before it, is one of the page's rows.
LEMMA PageSkipsNone ==
    ASSUME NEW p \in Policies, NEW c \in Checkpoint(p), c.entity <= Len(p),
           NEW i \in Present(c.entity),
           c.through[c.entity] # None, i <= c.through[c.entity],
           ~Behind(c, c.entity, i), Behind(Advanced(c, PageIds(c)), c.entity, i)
    PROVE  i \in PageIds(c)
<1> DEFINE ids == PageIds(c)
           S == Candidates(c)
           ends == EntityEnds(c, ids)
           cur == Cursor(c, ids)
           d == Advanced(c, ids)
<1>1. /\ d.entity = IF ends THEN c.entity + 1 ELSE c.entity
      /\ d.cursor = IF ends THEN None ELSE cur
  BY AdvancedFields
<1>2. c.entity \in Nat /\ c.cursor \in Id \cup {None}  BY CheckpointFields
<1>3. i \in Id /\ i \in Nat /\ Id \subseteq Nat /\ None \notin Id  BY ConstantsOK DEF Present
<1>4. i \in S
  <2>1. ~(c.cursor # None /\ i <= c.cursor)  BY DEF Behind
  <2>2. ASSUME c.cursor # None PROVE i > c.cursor
    <3>1. c.cursor \in Nat /\ ~(i <= c.cursor)  BY <1>2, <1>3, <2>1, <2>2
    <3> QED  BY <1>3, <3>1
  <2> QED  BY <2>2 DEF Candidates
<1>5. ids = First(S)  BY PageIdsAre
<1>6. S \subseteq Nat /\ IsFiniteSet(S)  BY CandidatesFinite
<1>7. SUFFICES ASSUME i \notin ids PROVE FALSE  OBVIOUS
<1>8. ~(Cardinality(ids) < Batch)  BY <1>4, <1>5, <1>6, <1>7, FirstIsFull
<1>9. ids # {}
  <2>1. Cardinality({}) = 0 /\ 0 < Batch  BY FS_EmptySet, ConstantsOK
  <2> HIDE DEF ids
  <2> QED  BY <1>8, <2>1
<1>10. cur \in ids  BY <1>9, CursorIsLast
<1>11. cur < i  BY <1>4, <1>5, <1>6, <1>7, <1>10, FirstInOrder
<1>12. cur \in Nat  BY <1>10, PageRows
<1>13. CASE ends
  <2>1. cur = c.through[c.entity]  BY <1>8, <1>13 DEF EntityEnds
  <2> QED  BY <1>3, <1>11, <1>12, <2>1
<1>14. CASE ~ends
  <2>1. d.entity = c.entity /\ d.cursor = cur  BY <1>1, <1>14
  <2> HIDE DEF d, cur
  <2>2. Behind(d, c.entity, i)  BY DEF d
  <2> QED  BY <1>2, <1>3, <1>11, <1>12, <2>1, <2>2 DEF Behind
<1> QED  BY <1>13, <1>14

-----------------------------------------------------------------------------
(* Pages, from a checkpoint where the job stands *)

\* The first page finds a new job; the others find it where the last one left it.
LEMMA CurrentStands ==
    ASSUME PInv, state = "queued"
    PROVE  LET c == Current(policy) IN
           /\ policy \in Policies /\ Scope(c) \in [Entity -> SUBSET Id]
           /\ Stands(c, Scope(c), table, chunks)
<1> DEFINE c == Current(policy)
           sc == Scope(c)
<1>1. policy \in Policies /\ TypeOK  BY DEF PInv
<1>2. sc \in [Entity -> SUBSET Id]
  BY <1>1 DEF Scope, TypeOK, Present
<1>3. CASE checkpoint # None
  <2>1. c = checkpoint  BY <1>3 DEF Current
  <2>2. sc = untouched  BY <1>1, <1>3 DEF Scope, TypeOK
  <2>3. Stands(checkpoint, untouched, table, chunks)  BY <1>3 DEF PInv
  <2> HIDE DEF c, sc
  <2> QED  BY <1>1, <1>2, <2>1, <2>2, <2>3 DEF c, sc
<1>4. CASE checkpoint = None
  <2>1. c = InitialCheckpoint(policy) /\ chunks = <<>>  BY <1>4 DEF Current, PInv
  <2>2. Len(policy) \in Nat /\ DOMAIN policy = 1 .. Len(policy) /\ DOMAIN policy \subseteq Entity
    BY <1>1, PolicyFacts
  <2>3. \A e \in Entity : HighWatermark(e) \in Id \cup {None}
    <3> SUFFICES ASSUME NEW e \in Entity, Present(e) # {} PROVE Max(Present(e)) \in Present(e)
      BY DEF HighWatermark, Present
    <3>1. Present(e) \in SUBSET Id  BY DEF Present
    <3>2. Present(e) \subseteq Nat /\ IsFiniteSet(Present(e))
      BY <3>1, FS_Subset, ConstantsOK
    <3> QED  BY <3>2, MaxIsLargest
  <2>4. /\ c.entity = 1 /\ c.cursor = None /\ c.pages = 0
        /\ c.through = [e \in DOMAIN policy |-> IF type = "export" /\ ~policy[e].exports
                                                THEN None ELSE HighWatermark(e)]
        /\ c.counts = [e \in DOMAIN policy |-> 0]
    BY <2>1 DEF InitialCheckpoint
  <2>5. c \in Checkpoint(policy)
    <3>1. c.through \in [DOMAIN policy -> Id \cup {None}]  BY <2>2, <2>3, <2>4
    <3>2. c.counts \in [DOMAIN policy -> Nat]  BY <2>4
    <3>3. 1 \in 1 .. Len(policy) + 1  BY <2>2
    <3>4. c = [entity |-> 1, cursor |-> None, pages |-> 0, through |-> c.through,
               counts |-> c.counts]
      BY <2>1 DEF InitialCheckpoint
    <3> HIDE DEF c
    <3> QED  BY <3>1, <3>2, <3>3, <3>4 DEF Checkpoint
  <2> HIDE DEF c
  <2>6. ASSUME NEW e \in Entity, NEW i \in Id PROVE ~Behind(c, e, i)
    <3>2. e >= 1
      <4>1. PICK p \in Policies : e \in DOMAIN p  BY DEF Entity
      <4>2. DOMAIN p = 1 .. Len(p) /\ Len(p) \in Nat  BY PolicyFacts
      <4> QED  BY <4>1, <4>2
    <3>3. e \in Nat  BY EntitiesAreNumbers
    <3> QED  BY <2>4, <3>2, <3>3 DEF Behind
  <2>7. ASSUME NEW e \in Entity, NEW i \in sc[e]
        PROVE  /\ e \in DOMAIN policy /\ c.through[e] # None /\ i <= c.through[e]
               /\ table[e][i] # "absent" /\ i \in Id
    <3>1. DOMAIN c.through = DOMAIN policy  BY <2>4
    <3>2. e \in DOMAIN policy /\ c.through[e] # None /\ i \in Present(e)
      BY <1>4, <2>7, <3>1 DEF Scope
    <3>3. c.through[e] = HighWatermark(e)  BY <2>4, <3>2
    <3>4. Present(e) \in SUBSET Id  BY DEF Present
    <3>5. Present(e) \subseteq Nat /\ IsFiniteSet(Present(e))
      BY <3>4, FS_Subset, ConstantsOK
    <3>6. i <= Max(Present(e))  BY <3>2, <3>5, MaxIsLargest
    <3>7. HighWatermark(e) = Max(Present(e))  BY <3>2 DEF HighWatermark
    <3> QED  BY <3>2, <3>3, <3>4, <3>6, <3>7 DEF Present
  <2>8. ScopeOK(c, sc, table)
    <3> HIDE DEF sc
    <3> QED  BY <2>6, <2>7 DEF ScopeOK
  <2>9. ChunksOK(c, sc, chunks)
    <3> HIDE DEF sc
    <3> QED  BY <2>1, <2>6, <2>7 DEF ChunksOK
  <2>10. BoundsOK(c)  BY <2>4 DEF BoundsOK
  <2> QED  BY <1>1, <1>2, <2>5, <2>8, <2>9, <2>10 DEF Stands, c
<1> QED  BY <1>3, <1>4

\* A row in scope that a page leaves behind was behind before, or is one of its rows.
LEMMA NewlyBehind ==
    ASSUME policy \in Policies, NEW c, NEW scope \in [Entity -> SUBSET Id],
           Stands(c, scope, table, chunks), c.entity <= Len(policy),
           NEW e \in Entity, NEW i \in scope[e],
           Behind(Advanced(c, PageIds(c)), e, i), ~Behind(c, e, i)
    PROVE  e = c.entity /\ i \in PageIds(c)
<1>1. c \in Checkpoint(policy) /\ ScopeOK(c, scope, table)  BY DEF Stands
<1>2. i \in Id /\ e \in Nat  BY EntitiesAreNumbers
<1>3. e = c.entity  BY <1>1, <1>2, PageMovesOn
<1>4. c.through[e] # None /\ i <= c.through[e] /\ table[e][i] # "absent"
  BY <1>1 DEF ScopeOK
<1>5. i \in Present(c.entity)  BY <1>2, <1>3, <1>4 DEF Present
<1> QED  BY <1>1, <1>3, <1>4, <1>5, PageSkipsNone

\* The rows in scope, after a page that wrote some of its rows.
LEMMA RowsStand ==
    ASSUME TypeOK, policy \in Policies, NEW c, NEW scope \in [Entity -> SUBSET Id],
           Stands(c, scope, table, chunks), c.entity <= Len(policy),
           NEW reached \in SUBSET PageIds(c),
           (type = "erase" /\ policy[c.entity].row # "no-op") \/ reached = {},
           type = "erase" => Verified(c.entity, policy[c.entity], reached, PageIds(c)),
           NEW new, new = Written(c.entity, policy[c.entity], reached),
           NEW t, t = [table EXCEPT ![c.entity] = new]
    PROVE  ScopeOK(Advanced(c, PageIds(c)), scope, t)
<1> DEFINE ids == PageIds(c)
           d == Advanced(c, ids)
<1>1. c \in Checkpoint(policy) /\ ScopeOK(c, scope, table)  BY DEF Stands
<1>2. d.through = c.through  BY <1>1, AdvancedFields
<1>3. /\ c.entity \in DOMAIN policy /\ c.entity \in Entity
      /\ \A e \in Entity : t[e] = IF e = c.entity THEN new ELSE table[e]
      /\ \A i \in Id \ reached : new[i] = table[c.entity][i]
  <2>1. c.entity \in DOMAIN policy /\ c.entity \in Entity
    BY <1>1, PolicyFacts, CheckpointFields
  <2>2. table \in [Entity -> [Id -> {"absent", "live", "clean"}]]  BY DEF TypeOK
  <2>3. \A e \in Entity : t[e] = IF e = c.entity THEN new ELSE table[e]  BY <2>2
  <2>4. \A i \in Id \ reached : new[i] = table[c.entity][i]  BY DEF Written
  <2> QED  BY <2>1, <2>3, <2>4
<1>4. type = "export" => \A i \in Id : new[i] = table[c.entity][i]
  BY DEF Written
<1>5. policy[c.entity].row \in {"delete-row", "update-fields", "no-op"}
  <2>1. policy[c.entity] \in Rule  BY <1>3, PolicyFacts
  <2> QED  BY <2>1 DEF Rule
<1>6. type = "erase" => \A i \in ids : Dealt(policy[c.entity], new[i])
  BY <1>5 DEF Verified, Dealt
<1>7. type \in {"erase", "export"}  BY DEF TypeOK
<1>8. ids \in SUBSET Id /\ \A i \in ids : ~Behind(c, c.entity, i)  BY <1>1, PageRows
<1> SUFFICES ASSUME NEW e \in Entity, NEW i \in scope[e]
             PROVE  /\ e \in DOMAIN policy
                    /\ d.through[e] # None /\ i <= d.through[e]
                    /\ type = "export" \/ ~Behind(d, e, i) => t[e][i] # "absent"
                    /\ type = "erase" /\ Behind(d, e, i) => Dealt(policy[e], t[e][i])
  BY DEF ScopeOK
<1>9. i \in Id /\ e \in Nat  BY EntitiesAreNumbers
<1>10. /\ e \in DOMAIN policy /\ c.through[e] # None /\ i <= c.through[e]
       /\ type = "export" \/ ~Behind(c, e, i) => table[e][i] # "absent"
       /\ type = "erase" /\ Behind(c, e, i) => Dealt(policy[e], table[e][i])
  BY <1>1 DEF ScopeOK
<1>11. /\ Behind(c, e, i) => Behind(d, e, i)
       /\ e = c.entity /\ i \in ids => Behind(d, e, i)
       /\ Behind(d, e, i) => Behind(c, e, i) \/ e = c.entity
  BY <1>1, <1>9, PageMovesOn
<1>12. ~Behind(c, e, i) /\ Behind(d, e, i) => e = c.entity /\ i \in ids  BY NewlyBehind
<1>13. /\ t[e][i] = IF e = c.entity THEN new[i] ELSE table[e][i]
       /\ e = c.entity /\ i \notin ids => t[e][i] = table[e][i]
  BY <1>3, <1>9
<1> HIDE DEF d, ids
<1>14. type = "export" => t[e][i] # "absent"  BY <1>4, <1>9, <1>10, <1>13
<1>15. ~Behind(d, e, i) => t[e][i] # "absent"
  <2>1. ~Behind(d, e, i) => table[e][i] # "absent"  BY <1>10, <1>11
  <2>2. e = c.entity /\ ~Behind(d, e, i) => i \notin ids  BY <1>11
  <2> QED  BY <1>13, <2>1, <2>2
<1>16. ASSUME type = "erase", Behind(d, e, i) PROVE Dealt(policy[e], t[e][i])
  <2>1. CASE Behind(c, e, i)
    <3>1. t[e][i] = table[e][i]
      <4>1. e = c.entity => i \notin ids  BY <1>8, <2>1
      <4> QED  BY <1>13, <4>1
    <3> QED  BY <1>10, <1>16, <2>1, <3>1
  <2>2. CASE ~Behind(c, e, i)
    <3>1. e = c.entity /\ i \in ids  BY <1>12, <1>16, <2>2
    <3>2. t[e][i] = new[i]  BY <1>13, <3>1
    <3> QED  BY <1>6, <1>16, <3>1, <3>2
  <2> QED  BY <2>1, <2>2
<1> QED  BY <1>2, <1>10, <1>14, <1>15, <1>16

LEMMA ChunkTypes ==
    ASSUME TypeOK
    PROVE  \A k \in DOMAIN chunks : chunks[k].entity \in Entity /\ chunks[k].ids \subseteq Id
<1> DEFINE C == [entity: Entity, count: Nat, ids: SUBSET Id]
<1>1. chunks \in Seq(C)  BY DEF TypeOK
<1>2. \A x \in C : x.entity \in Entity /\ x.ids \subseteq Id  OBVIOUS
<1> HIDE DEF C
<1>3. \A k \in DOMAIN chunks : chunks[k] \in C  BY <1>1
<1> QED  BY <1>2, <1>3

\* The chunks, after a page with rows.
LEMMA AppendStands ==
    ASSUME TypeOK, policy \in Policies, NEW c, NEW scope \in [Entity -> SUBSET Id],
           Stands(c, scope, table, chunks), c.entity <= Len(policy), PageIds(c) # {},
           NEW new, new = Chunk(c, PageIds(c)), NEW ch, ch = Append(chunks, new)
    PROVE  ChunksOK(Advanced(c, PageIds(c)), scope, ch)
<1> DEFINE ids == PageIds(c)
           d == Advanced(c, ids)
           n == Len(chunks) + 1
<1>1. c \in Checkpoint(policy) /\ BoundsOK(c) /\ ChunksOK(c, scope, chunks)  BY DEF Stands
<1>2. c.entity \in DOMAIN policy /\ c.entity \in Entity
  BY <1>1, PolicyFacts, CheckpointFields
<1>3. chunks \in Seq([entity: Entity, count: Nat, ids: SUBSET Id])  BY DEF TypeOK
<1>4. /\ n \in Nat /\ n \notin DOMAIN chunks
      /\ DOMAIN ch = DOMAIN chunks \cup {n}
      /\ ch[n] = new /\ \A k \in DOMAIN chunks : ch[k] = chunks[k]
  BY <1>3
<1>5. new.entity = c.entity /\ new.ids = IF type = "export" THEN ids ELSE {}  BY DEF Chunk
<1>6. type = "export" => policy[c.entity].exports
  <2>1. c.through[c.entity] # None  BY PageIdsAre
  <2> QED  BY <1>1, <1>2, <2>1 DEF BoundsOK
<1>7. ids \in SUBSET Id /\ \A i \in ids : ~Behind(c, c.entity, i)  BY <1>1, PageRows
<1>8. \A k \in DOMAIN chunks : chunks[k].entity \in Entity /\ chunks[k].ids \subseteq Id
  BY ChunkTypes
<1>9. ASSUME NEW e \in Entity, NEW i \in Id
      PROVE  /\ Behind(c, e, i) => Behind(d, e, i)
             /\ e = c.entity /\ i \in ids => Behind(d, e, i)
  <2>1. e \in Nat  BY EntitiesAreNumbers
  <2> QED  BY <1>1, <2>1, PageMovesOn
<1>10. ASSUME NEW e \in Entity, NEW i \in scope[e], Behind(d, e, i), ~Behind(c, e, i)
       PROVE  e = c.entity /\ i \in ids
  BY <1>10, NewlyBehind
<1> HIDE DEF ids, d, n
<1>11. ASSUME NEW k \in DOMAIN ch, NEW i \in ch[k].ids
       PROVE  /\ type = "export" /\ ch[k].entity \in DOMAIN policy
              /\ policy[ch[k].entity].exports
              /\ Behind(d, ch[k].entity, i)
  <2>1. CASE k \in DOMAIN chunks
    <3>1. ch[k] = chunks[k] /\ i \in Id /\ chunks[k].entity \in Entity
      BY <1>4, <1>8, <1>11, <2>1
    <3>2. /\ type = "export" /\ chunks[k].entity \in DOMAIN policy
          /\ policy[chunks[k].entity].exports
          /\ Behind(c, chunks[k].entity, i)
      BY <1>1, <1>11, <2>1, <3>1 DEF ChunksOK
    <3> QED  BY <1>9, <3>1, <3>2
  <2>2. CASE k = n
    <3>1. type = "export" /\ i \in ids /\ ch[k].entity = c.entity  BY <1>4, <1>5, <1>11, <2>2
    <3>2. i \in Id  BY <1>7, <3>1
    <3> QED  BY <1>2, <1>6, <1>9, <3>1, <3>2
  <2> QED  BY <1>4, <2>1, <2>2
<1>12. ASSUME NEW e \in Entity, NEW i \in Id, NEW k \in DOMAIN chunks, Holds(chunks[k], e, i)
       PROVE  ~Holds(new, e, i)
  <2>1. Behind(c, e, i)  BY <1>1, <1>12 DEF ChunksOK, Holds
  <2> QED  BY <1>5, <1>7, <2>1 DEF Holds
<1>13. ASSUME NEW e \in Entity, NEW i \in Id, NEW k \in DOMAIN ch, NEW l \in DOMAIN ch,
              Holds(ch[k], e, i), Holds(ch[l], e, i)
       PROVE  k = l
  <2>1. CASE k \in DOMAIN chunks /\ l \in DOMAIN chunks
    <3>1. Holds(chunks[k], e, i) /\ Holds(chunks[l], e, i)  BY <1>4, <1>13, <2>1
    <3> QED  BY <1>1, <2>1, <3>1 DEF ChunksOK
  <2> QED  BY <1>4, <1>12, <1>13, <2>1
<1>14. ASSUME type = "export", NEW e \in Entity, NEW i \in scope[e], Behind(d, e, i)
       PROVE  \E k \in DOMAIN ch : Holds(ch[k], e, i)
  <2>1. CASE Behind(c, e, i)
    <3>1. PICK k \in DOMAIN chunks : Holds(chunks[k], e, i)
      BY <1>1, <1>14, <2>1 DEF ChunksOK
    <3>2. k \in DOMAIN ch /\ ch[k] = chunks[k]  BY <1>4
    <3> QED  BY <3>1, <3>2
  <2>2. CASE ~Behind(c, e, i)
    <3>1. e = c.entity /\ i \in ids  BY <1>10, <1>14, <2>2
    <3>2. Holds(new, e, i)  BY <1>5, <1>14, <3>1 DEF Holds
    <3> QED  BY <1>4, <3>2
  <2> QED  BY <2>1, <2>2
<1>15. ChunksOK(d, scope, ch)  BY <1>11, <1>13, <1>14 DEF ChunksOK
<1> QED  BY <1>15 DEF d, ids

\* The chunks, after a page without rows.
LEMMA ChunksStand ==
    ASSUME TypeOK, policy \in Policies, NEW c, NEW scope \in [Entity -> SUBSET Id],
           Stands(c, scope, table, chunks), c.entity <= Len(policy), PageIds(c) = {}
    PROVE  ChunksOK(Advanced(c, PageIds(c)), scope, chunks)
<1> DEFINE d == Advanced(c, PageIds(c))
<1>1. c \in Checkpoint(policy) /\ ChunksOK(c, scope, chunks)  BY DEF Stands
<1>2. ASSUME NEW e \in Entity, NEW i \in Id, Behind(c, e, i) PROVE Behind(d, e, i)
  <2>1. e \in Nat  BY EntitiesAreNumbers
  <2> QED  BY <1>1, <1>2, <2>1, PageMovesOn
<1>3. ASSUME NEW e \in Entity, NEW i \in scope[e], Behind(d, e, i) PROVE Behind(c, e, i)
  BY <1>3, NewlyBehind
<1>4. \A k \in DOMAIN chunks : chunks[k].entity \in Entity /\ chunks[k].ids \subseteq Id
  BY ChunkTypes
<1> HIDE DEF d
<1>5. ASSUME NEW k \in DOMAIN chunks, NEW i \in chunks[k].ids
      PROVE  Behind(d, chunks[k].entity, i)
  <2>1. Behind(c, chunks[k].entity, i)  BY <1>1 DEF ChunksOK
  <2>2. chunks[k].entity \in Entity /\ i \in Id  BY <1>4
  <2> QED  BY <1>2, <2>1, <2>2
<1>6. ChunksOK(d, scope, chunks)  BY <1>1, <1>3, <1>5 DEF ChunksOK
<1> QED  BY <1>6 DEF d

-----------------------------------------------------------------------------
(* The invariant holds *)

\* What a page has to show.
LEMMA StandsNext ==
    ASSUME NEW c, NEW scope, NEW t, NEW ch, Stands(c, scope, t, ch),
           type' = type, policy' = policy,
           checkpoint' = c, untouched' = scope, table' = t, chunks' = ch
    PROVE  Stands(checkpoint, untouched, table, chunks)'
<1>1. c \in Checkpoint(policy) /\ ScopeOK(c, scope, t) /\ ChunksOK(c, scope, ch) /\ BoundsOK(c)
  BY DEF Stands
<1>2. ScopeOK(checkpoint, untouched, table)'  BY <1>1 DEF ScopeOK, Behind, Dealt
<1>3. ChunksOK(checkpoint, untouched, chunks)'  BY <1>1 DEF ChunksOK, Behind, Holds
<1>4. BoundsOK(checkpoint)'  BY <1>1 DEF BoundsOK
<1>5. (checkpoint \in Checkpoint(policy))'  BY <1>1 DEF Checkpoint
<1> QED  BY <1>2, <1>3, <1>4, <1>5 DEF Stands

LEMMA PageKeeps ==
    ASSUME PInv, NEW p \in Policies, NEW c, NEW scope, NEW ids, IsFiniteSet(ids), p = policy,
           Store(c, p, ids), scope \in [Entity -> SUBSET Id], untouched' = scope,
           Stands(c, scope, table', chunks'),
           state = "queued",
           table' \in [Entity -> [Id -> {"absent", "live", "clean"}]], changed' \in BOOLEAN,
           chunks' \in Seq([entity: Entity, count: Nat, ids: SUBSET Id])
    PROVE  PInv'
<1>1. c \in Checkpoint(policy)  BY DEF Stands
<1>2. /\ checkpoint' = c /\ type' = type /\ policy' = policy
      /\ pages' = pages + 1 /\ rows' = rows + Cardinality(ids)
      /\ state' \in {"completed", "queued"}
  BY DEF Store
<1>3. Stands(checkpoint, untouched, table, chunks)'
  BY <1>2, StandsNext
<1>4. checkpoint' # None /\ checkpoint' \in Checkpoint(policy)  BY <1>1, <1>2, NoneIsNew
<1>5. TypeOK'
  <2>1. pages' \in Nat /\ rows' \in Nat
    <3>1. Cardinality(ids) \in Nat /\ pages \in Nat /\ rows \in Nat
      BY FS_CardinalityType DEF PInv, TypeOK
    <3> QED  BY <1>2, <3>1
  <2>2. (checkpoint \in Checkpoint(policy) \cup {None})'  BY <1>2, <1>4
  <2>3. type' \in {"erase", "export"} /\ policy' \in Policies \cup {<<>>}
    BY <1>2 DEF PInv, TypeOK
  <2>4. state' \in {"absent", "queued", "completed", "failed", "cancelled"}  BY <1>2
  <2> QED  BY <2>1, <2>2, <2>3, <2>4 DEF TypeOK
<1> QED  BY <1>2, <1>3, <1>4, <1>5 DEF PInv

LEMMA RowsPageKeeps ==
    ASSUME PInv, NEW p \in Policies, NEW reached \in SUBSET Id, RowsPage(p, reached)
    PROVE  PInv'
<1> DEFINE c == Current(p)
           ids == PageIds(c)
           scope == Scope(c)
           d == Advanced(c, ids)
           new == Written(c.entity, p[c.entity], reached)
<1>1. p = policy /\ state = "queued" /\ TypeOK  BY DEF RowsPage, Runs, PInv
<1>2. scope \in [Entity -> SUBSET Id] /\ Stands(c, scope, table, chunks)
  BY <1>1, CurrentStands
<1>3. c \in Checkpoint(policy) /\ BoundsOK(c)  BY <1>2 DEF Stands
<1>4. /\ c.entity <= Len(p) /\ ids # {} /\ reached \in SUBSET ids
      /\ (type = "erase" /\ p[c.entity].row # "no-op") \/ reached = {}
      /\ type = "erase" => Verified(c.entity, p[c.entity], reached, ids)
      /\ table' = [table EXCEPT ![c.entity] = new]
      /\ chunks' = Append(chunks, Chunk(c, ids))
      /\ changed' = Changed(Reports(p[c.entity]))
      /\ untouched' = scope
      /\ Store(d, p, ids)
  BY DEF RowsPage
<1>5. ids \in SUBSET Id /\ IsFiniteSet(ids) /\ Cardinality(ids) \in Nat  BY <1>1, <1>3, PageRows
<1>6. ScopeOK(d, scope, table')  BY <1>1, <1>2, <1>4, RowsStand
<1>7. ChunksOK(d, scope, chunks')  BY <1>1, <1>2, <1>4, AppendStands
<1>8. d \in Checkpoint(policy) /\ d.through = c.through  BY <1>1, <1>3, <1>4, AdvancedFields
<1>9. c.entity \in Entity  BY <1>1, <1>3, <1>4, PolicyFacts, CheckpointFields
<1> HIDE DEF d, scope, new
<1>10. Stands(d, scope, table', chunks')
  BY <1>3, <1>6, <1>7, <1>8 DEF Stands, BoundsOK
<1>11. table' \in [Entity -> [Id -> {"absent", "live", "clean"}]]
  <2>1. table \in [Entity -> [Id -> {"absent", "live", "clean"}]]  BY <1>1 DEF TypeOK
  <2>2. new \in [Id -> {"absent", "live", "clean"}]  BY <1>9, <2>1 DEF Written, new
  <2> HIDE DEF c
  <2> QED  BY <1>4, <2>1, <2>2
<1>12. changed' \in BOOLEAN  BY <1>1, <1>4 DEF Changed, Reports, TypeOK
<1>13. chunks' \in Seq([entity: Entity, count: Nat, ids: SUBSET Id])
  <2> DEFINE C == [entity: Entity, count: Nat, ids: SUBSET Id]
  <2>1. Chunk(c, ids) \in C  BY <1>5, <1>9 DEF Chunk
  <2>2. chunks \in Seq(C)  BY <1>1 DEF TypeOK
  <2> HIDE DEF C
  <2>3. chunks' \in Seq(C)  BY <1>4, <2>1, <2>2
  <2> QED  BY <2>3 DEF C
<1> HIDE DEF c, ids
<1> QED  BY <1>1, <1>2, <1>4, <1>5, <1>10, <1>11, <1>12, <1>13, PageKeeps

LEMMA EmptyPageKeeps ==
    ASSUME PInv, NEW p \in Policies, EmptyPage(p)
    PROVE  PInv'
<1> DEFINE c == Current(p)
           scope == Scope(c)
           d == Advanced(c, {})
<1>1. p = policy /\ state = "queued" /\ TypeOK  BY DEF EmptyPage, Runs, PInv
<1>2. scope \in [Entity -> SUBSET Id] /\ Stands(c, scope, table, chunks)
  BY <1>1, CurrentStands
<1>3. c \in Checkpoint(policy) /\ BoundsOK(c) /\ ScopeOK(c, scope, table)  BY <1>2 DEF Stands
<1>4. /\ c.entity <= Len(p) /\ PageIds(c) = {} /\ untouched' = scope /\ Store(d, p, {})
      /\ UNCHANGED <<table, chunks, changed>>
  BY DEF EmptyPage
<1>5. ChunksOK(d, scope, chunks)  BY <1>1, <1>2, <1>4, ChunksStand
<1>6. d \in Checkpoint(policy) /\ d.through = c.through  BY <1>1, <1>3, <1>4, AdvancedFields
<1>7. ASSUME NEW e \in Entity, NEW i \in scope[e] PROVE Behind(c, e, i) <=> Behind(d, e, i)
  <2>1. e \in Nat /\ i \in Id  BY <1>2, EntitiesAreNumbers
  <2>2. Behind(c, e, i) => Behind(d, e, i)  BY <1>1, <1>3, <1>4, <2>1, PageMovesOn
  <2>3. ASSUME Behind(d, e, i), ~Behind(c, e, i) PROVE FALSE
    BY <1>1, <1>2, <1>4, <2>3, NewlyBehind
  <2> QED  BY <2>2, <2>3
<1> HIDE DEF d, scope, c
<1>8. ScopeOK(d, scope, table)  BY <1>3, <1>6, <1>7 DEF ScopeOK
<1>9. Stands(d, scope, table', chunks')
  BY <1>3, <1>4, <1>5, <1>6, <1>8 DEF Stands, BoundsOK
<1>10. /\ table' \in [Entity -> [Id -> {"absent", "live", "clean"}]] /\ changed' \in BOOLEAN
       /\ chunks' \in Seq([entity: Entity, count: Nat, ids: SUBSET Id])
  BY <1>1, <1>4 DEF TypeOK
<1> QED  BY <1>1, <1>2, <1>4, <1>9, <1>10, FS_EmptySet, PageKeeps

\* Only the page count of a checkpoint moves on the last page.
LEMMA TurnedFields ==
    ASSUME NEW p, NEW c \in Checkpoint(p)
    PROVE  LET d == [c EXCEPT !.pages = @ + 1] IN
           /\ d \in Checkpoint(p)
           /\ d.through = c.through /\ d.entity = c.entity /\ d.cursor = c.cursor
<1> DEFINE d == [c EXCEPT !.pages = @ + 1]
<1>1. c.pages + 1 \in Nat  BY DEF Checkpoint
<1> QED  BY <1>1 DEF Checkpoint

LEMMA LastPageKeeps ==
    ASSUME PInv, NEW p \in Policies, LastPage(p)
    PROVE  PInv'
<1> DEFINE c == Current(p)
           scope == Scope(c)
           d == [c EXCEPT !.pages = @ + 1]
<1>1. p = policy /\ state = "queued" /\ TypeOK  BY DEF LastPage, Runs, PInv
<1>2. scope \in [Entity -> SUBSET Id] /\ Stands(c, scope, table, chunks)
  BY <1>1, CurrentStands
<1>3. /\ c \in Checkpoint(policy) /\ BoundsOK(c)
      /\ ScopeOK(c, scope, table) /\ ChunksOK(c, scope, chunks)
  BY <1>2 DEF Stands
<1>4. /\ untouched' = scope /\ Store(d, p, {}) /\ UNCHANGED <<table, chunks, changed>>
  BY DEF LastPage
<1> HIDE DEF c, scope
<1>5. /\ d \in Checkpoint(policy)
      /\ d.through = c.through /\ d.entity = c.entity /\ d.cursor = c.cursor
  BY <1>3, TurnedFields
<1> HIDE DEF d
<1>6. \A e, i : Behind(d, e, i) <=> Behind(c, e, i)  BY <1>5 DEF Behind
<1>7. ScopeOK(d, scope, table)  BY <1>3, <1>5, <1>6 DEF ScopeOK
<1>8. ChunksOK(d, scope, chunks)  BY <1>3, <1>6 DEF ChunksOK
<1>9. BoundsOK(d)  BY <1>3, <1>5 DEF BoundsOK
<1>10. Stands(d, scope, table', chunks')  BY <1>4, <1>5, <1>7, <1>8, <1>9 DEF Stands
<1>11. /\ table' \in [Entity -> [Id -> {"absent", "live", "clean"}]] /\ changed' \in BOOLEAN
       /\ chunks' \in Seq([entity: Entity, count: Nat, ids: SUBSET Id])
  BY <1>1, <1>4 DEF TypeOK
<1> QED  BY <1>1, <1>2, <1>4, <1>10, <1>11, FS_EmptySet, PageKeeps

\* Rows out of scope are anyone's.
LEMMA EditKeeps ==
    ASSUME PInv, NEW e \in Entity, NEW i \in Id, NEW value \in {"absent", "live"},
           Edit(e, i, value)
    PROVE  PInv'
<1>1. /\ TypeOK /\ table \in [Entity -> [Id -> {"absent", "live", "clean"}]]
      /\ untouched \in [Entity -> SUBSET Id]
  BY DEF PInv, TypeOK
<1>2. /\ table' = [table EXCEPT ![e][i] = value]
      /\ untouched' = [untouched EXCEPT ![e] = @ \ {i}]
      /\ UNCHANGED <<state, type, policy, checkpoint, pages, rows, changed, chunks>>
  BY DEF Edit, job, output
<1>3. /\ table' \in [Entity -> [Id -> {"absent", "live", "clean"}]]
      /\ untouched' \in [Entity -> SUBSET Id]
  BY <1>1, <1>2
<1>4. ASSUME NEW f \in Entity, NEW h \in untouched'[f]
      PROVE  h \in untouched[f] /\ table'[f][h] = table[f][h]
  <2>1. h \in untouched[f] /\ (f = e => h # i) /\ h \in Id  BY <1>1, <1>2, <1>4
  <2>2. table'[f][h] = table[f][h]
    <3>1. CASE f = e
      <4>1. table'[e] = [table[e] EXCEPT ![i] = value]  BY <1>1, <1>2
      <4>2. table[e] \in [Id -> {"absent", "live", "clean"}]  BY <1>1
      <4> QED  BY <2>1, <3>1, <4>1, <4>2
    <3>2. CASE f # e  BY <1>1, <1>2, <3>2
    <3> QED  BY <3>1, <3>2
  <2> QED  BY <2>1, <2>2
<1>5. TypeOK'  BY <1>1, <1>2, <1>3 DEF TypeOK, Checkpoint
<1>6. ASSUME checkpoint # None PROVE Stands(checkpoint, untouched, table, chunks)'
  <2>1. /\ checkpoint \in Checkpoint(policy) /\ ScopeOK(checkpoint, untouched, table)
        /\ ChunksOK(checkpoint, untouched, chunks) /\ BoundsOK(checkpoint)
    BY <1>6 DEF PInv, Stands
  <2>2. ScopeOK(checkpoint, untouched', table')  BY <1>4, <2>1 DEF ScopeOK
  <2>3. ChunksOK(checkpoint, untouched', chunks)  BY <1>4, <2>1 DEF ChunksOK
  <2>4. Stands(checkpoint, untouched', table', chunks)  BY <2>1, <2>2, <2>3 DEF Stands
  <2> QED  BY <1>2, <2>4, StandsNext
<1>7. checkpoint = None => \A f \in Entity : untouched'[f] = {}
  BY <1>1, <1>2 DEF PInv
<1> QED  BY <1>2, <1>5, <1>6, <1>7 DEF PInv

\* A step that only moves the job's state.
LEMMA MoveKeeps ==
    ASSUME PInv, state # "absent", state' \in {"queued", "failed", "cancelled"},
           UNCHANGED <<table, type, policy, output, untouched>>
    PROVE  PInv'
<1>1. UNCHANGED <<table, type, policy, checkpoint, pages, rows, changed, chunks, untouched>>
  BY DEF output
<1>2. TypeOK'  BY <1>1 DEF PInv, TypeOK, Checkpoint
<1>3. checkpoint # None => Stands(checkpoint, untouched, table, chunks)'
  <2>1. checkpoint # None => Stands(checkpoint, untouched, table, chunks)  BY DEF PInv
  <2> QED  BY <1>1, <2>1, StandsNext
<1> QED  BY <1>1, <1>2, <1>3 DEF PInv

LEMMA SubmitKeeps ==
    ASSUME PInv, NEW t \in {"erase", "export"}, NEW p \in Policies, Submit(t, p)
    PROVE  PInv'
<1>1. /\ state' = "queued" /\ type' = t /\ policy' = p /\ checkpoint = None
      /\ UNCHANGED <<table, checkpoint, pages, rows, changed, chunks, untouched>>
  BY DEF Submit, output, PInv
<1>2. TypeOK'  BY <1>1 DEF PInv, TypeOK
<1> QED  BY <1>1, <1>2 DEF PInv

LEMMA PInvInit == Init => PInv
<1> SUFFICES ASSUME Init PROVE PInv  OBVIOUS
<1>1. TypeOK
  <2>1. table \in [Entity -> [Id -> {"absent", "live", "clean"}]]  BY DEF Init
  <2>2. untouched \in [Entity -> SUBSET Id]  BY DEF Init
  <2>3. chunks \in Seq([entity: Entity, count: Nat, ids: SUBSET Id])
    <3> DEFINE C == [entity: Entity, count: Nat, ids: SUBSET Id]
    <3> HIDE DEF C
    <3>1. chunks \in Seq(C)  BY DEF Init
    <3> QED  BY <3>1 DEF C
  <2> QED  BY <2>1, <2>2, <2>3 DEF Init, TypeOK
<1> QED  BY <1>1 DEF Init, PInv

LEMMA PInvNext == PInv /\ [Next]_vars => PInv'
<1> SUFFICES ASSUME PInv, [Next]_vars PROVE PInv'  OBVIOUS
<1>1. ASSUME NEW t \in {"erase", "export"}, NEW p \in Policies, Submit(t, p) PROVE PInv'
  BY <1>1, SubmitKeeps
<1>2. ASSUME NEW p \in Policies, NEW reached \in SUBSET Id, RowsPage(p, reached) PROVE PInv'
  BY <1>2, RowsPageKeeps
<1>3. ASSUME NEW p \in Policies, EmptyPage(p) PROVE PInv'  BY <1>3, EmptyPageKeeps
<1>4. ASSUME NEW p \in Policies, LastPage(p) PROVE PInv'  BY <1>4, LastPageKeeps
<1>5. CASE Fail  BY <1>5, MoveKeeps DEF Fail
<1>6. CASE Cancel  BY <1>6, MoveKeeps DEF Cancel
<1>7. CASE Resume  BY <1>7, MoveKeeps DEF Resume
<1>8. ASSUME NEW e \in Entity, NEW i \in Id, NEW value \in {"absent", "live"}, Edit(e, i, value)
      PROVE  PInv'
  BY <1>8, EditKeeps
<1>9. CASE UNCHANGED vars
  <2>1. UNCHANGED <<table, state, type, policy, checkpoint, pages, rows, changed, chunks, untouched>>
    BY <1>9 DEF vars, job, output
  <2>2. TypeOK'  BY <2>1 DEF PInv, TypeOK, Checkpoint
  <2>3. checkpoint # None => Stands(checkpoint, untouched, table, chunks)'
    <3>1. checkpoint # None => Stands(checkpoint, untouched, table, chunks)  BY DEF PInv
    <3> QED  BY <2>1, <3>1, StandsNext
  <2> QED  BY <2>1, <2>2, <2>3 DEF PInv
<1> QED
  BY <1>1, <1>2, <1>3, <1>4, <1>5, <1>6, <1>7, <1>8, <1>9 DEF Next, RunPage

\* The inductive invariant: wherever createPagedPrivacyHandler has left a job, its checkpoint
\* says which rows have been dealt with.
THEOREM PagedInvariant == Spec => []PInv
<1> QED  BY PInvInit, PInvNext, PTL DEF Spec

-----------------------------------------------------------------------------
(* Scope and output *)

\* No page of an erasure skips a row that was there at the first page and that the
\* application has left alone, whatever happens around the cursor and the bound.
THEOREM ScopeErased == Spec => []ScopeIsErased
<1>1. PInv => ScopeIsErased
  <2> SUFFICES ASSUME PInv, type = "erase", checkpoint # None, NEW e \in DOMAIN policy,
                      NEW i \in untouched[e], Behind(checkpoint, e, i)
               PROVE  Dealt(policy[e], table[e][i])
    BY DEF ScopeIsErased, Dealt
  <2>1. policy \in Policies \/ policy = <<>>  BY DEF PInv, TypeOK
  <2>2. e \in Entity  BY <2>1, PolicyFacts
  <2> QED  BY <2>2 DEF PInv, Stands, ScopeOK
<1> QED  BY <1>1, PagedInvariant, PTL

\* An export puts out no row twice, and each row that was there at the first page and has
\* been left alone exactly once.
THEOREM RowsOnce == Spec => []EachRowOnce
<1>1. PInv => EachRowOnce
  <2> SUFFICES ASSUME PInv, NEW e \in Entity, NEW i \in Id
               PROVE  LET times == Cardinality({k \in DOMAIN chunks :
                                      chunks[k].entity = e /\ i \in chunks[k].ids})
                      IN  /\ times <= 1
                          /\ times = 1 => policy[e].exports
                          /\ (/\ type = "export" /\ checkpoint # None
                              /\ i \in untouched[e] /\ Behind(checkpoint, e, i)) => times = 1
    BY DEF EachRowOnce
  <2> DEFINE K == {k \in DOMAIN chunks : chunks[k].entity = e /\ i \in chunks[k].ids}
  <2>1. checkpoint = None => K = {}  BY DEF PInv
  <2>2. ASSUME checkpoint # None PROVE ChunksOK(checkpoint, untouched, chunks)
    BY <2>2 DEF PInv, Stands
  <2>3. CASE K = {}
    <3>1. Cardinality(K) = 0  BY <2>3, FS_EmptySet
    <3>2. ~(/\ type = "export" /\ checkpoint # None
            /\ i \in untouched[e] /\ Behind(checkpoint, e, i))
      BY <2>2, <2>3 DEF ChunksOK, Holds
    <3> HIDE DEF K
    <3>3. Cardinality(K) <= 1 /\ Cardinality(K) # 1  BY <3>1
    <3> QED  BY <3>2, <3>3 DEF K
  <2>4. CASE K # {}
    <3>1. PICK k \in DOMAIN chunks : chunks[k].entity = e /\ i \in chunks[k].ids  BY <2>4
    <3>2. ChunksOK(checkpoint, untouched, chunks)  BY <2>1, <2>2, <2>4
    <3>3. \A l \in K : l = k
      BY <3>1, <3>2 DEF ChunksOK, Holds
    <3>4. K = {k}  BY <3>1, <3>3
    <3>5. Cardinality(K) = 1  BY <3>4, FS_Singleton
    <3>6. policy[e].exports  BY <3>1, <3>2 DEF ChunksOK
    <3> HIDE DEF K
    <3>7. Cardinality(K) <= 1 /\ Cardinality(K) = 1  BY <3>5
    <3> QED  BY <3>6, <3>7 DEF K
  <2> QED  BY <2>3, <2>4
<1> QED  BY <1>1, PagedInvariant, PTL

-----------------------------------------------------------------------------
(* Numbers *)

\* The chunks of an entity, and the rows they count.
ChunksOf(ch, e) == {k \in DOMAIN ch : ch[k].entity = e}

Counted(ch, e) == Total([k \in ChunksOf(ch, e) |-> ch[k].count], ChunksOf(ch, e))

\* It is what NumbersAgree sums up.
LEMMA CountedIsSum ==
    ASSUME NEW ch, NEW e
    PROVE  MapThenSumSet(LAMBDA k : ch[k].count, {k \in DOMAIN ch : ch[k].entity = e})
             = Counted(ch, e)
<1> DEFINE S == ChunksOf(ch, e)
           f == [k \in S |-> ch[k].count]
<1>1. ASSUME NEW g
      PROVE  (g = [s \in SUBSET S |-> IF s = {} THEN 0
                          ELSE LET x == CHOOSE x \in s : TRUE IN ch[x].count + g[s \ {x}]])
             <=> Sums(g, f, S)
  <2>1. ASSUME NEW s \in SUBSET S, s # {}
        PROVE  LET x == CHOOSE x \in s : TRUE IN ch[x].count + g[s \ {x}] = f[x] + g[s \ {x}]
    <3> DEFINE x == CHOOSE x \in s : TRUE
    <3>1. x \in s  BY <2>1
    <3> HIDE DEF x
    <3>2. f[x] = ch[x].count  BY <3>1
    <3> QED  BY <3>2 DEF x
  <2> HIDE DEF S, f
  <2> QED  BY <2>1 DEF Sums
<1> QED  BY <1>1 DEF MapThenSumSet, MapThenFoldSet, Counted, Total, ChunksOf

ChunkType == [entity: Entity, count: Nat, ids: SUBSET Id]

LEMMA ChunksOfFinite ==
    ASSUME NEW ch \in Seq(ChunkType), NEW e
    PROVE  IsFiniteSet(ChunksOf(ch, e)) /\ \A k \in ChunksOf(ch, e) : ch[k].count \in Nat
<1> DEFINE K == 1 .. Len(ch)
<1>1. Len(ch) \in Nat /\ DOMAIN ch = K  OBVIOUS
<1>2. IsFiniteSet(K)  BY <1>1, FS_Interval
<1>3. \A x \in ChunkType : x.count \in Nat  BY DEF ChunkType
<1>4. \A k \in K : ch[k] \in ChunkType  BY <1>1
<1>5. ChunksOf(ch, e) \in SUBSET K  BY <1>1 DEF ChunksOf
<1> HIDE DEF K
<1> QED  BY <1>2, <1>3, <1>4, <1>5, FS_Subset

\* A chunk more.
LEMMA CountedAppend ==
    ASSUME NEW ch \in Seq(ChunkType), NEW new \in ChunkType, NEW e
    PROVE  Counted(Append(ch, new), e) = IF e = new.entity THEN Counted(ch, e) + new.count
                                         ELSE Counted(ch, e)
<1> DEFINE n == Len(ch) + 1
           ap == Append(ch, new)
           S == ChunksOf(ch, e)
           A == ChunksOf(ap, e)
           f == [k \in S |-> ch[k].count]
           h == [k \in A |-> ap[k].count]
<1>1. /\ n \notin DOMAIN ch /\ DOMAIN ap = DOMAIN ch \cup {n}
      /\ ap[n] = new /\ \A k \in DOMAIN ch : ap[k] = ch[k]
  OBVIOUS
<1>2. IsFiniteSet(S) /\ Counts(f, S)  BY ChunksOfFinite DEF Counts
<1> HIDE DEF n, ap
<1>3. CASE e = new.entity
  <2>1. A = S \cup {n} /\ n \notin S  BY <1>1, <1>3 DEF ChunksOf
  <2>2. h[n] = new.count /\ new.count \in Nat  BY <1>1, <2>1 DEF ChunkType
  <2>3. \A x \in S : h[x] = f[x]  BY <1>1, <2>1 DEF ChunksOf
  <2> HIDE DEF S, A, f, h
  <2>4. Total(h, S \cup {n}) = Total(f, S) + h[n]
    <3>1. n \notin S /\ h[n] \in Nat  BY <2>1, <2>2
    <3> QED  BY <1>2, <2>3, <3>1, TotalAdds
  <2> QED  BY <1>3, <2>1, <2>2, <2>4 DEF Counted, S, A, f, h, ap
<1>4. CASE e # new.entity
  <2>1. A = S  BY <1>1, <1>4 DEF ChunksOf
  <2>2. \A x \in S : h[x] = f[x]  BY <1>1, <2>1 DEF ChunksOf
  <2> HIDE DEF S, A, f, h
  <2>3. Total(h, S) = Total(f, S)  BY <1>2, <2>2, TotalAgrees
  <2> QED  BY <1>4, <2>1, <2>3 DEF Counted, S, A, f, h, ap
<1> QED  BY <1>3, <1>4

\* What the checkpoint c, the job's pages and rows, and its chunks say of each other.
Agrees(c, n, r, ch) ==
    /\ c.pages = n /\ SumFunction(c.counts) = r
    /\ c.entity = Len(policy) + 1 => c.cursor = None
    /\ c.cursor # None => c.through[c.entity] # None /\ c.cursor <= c.through[c.entity]
    /\ \A e \in DOMAIN policy : c.counts[e] = Counted(ch, e)

\* A job without a checkpoint has counted nothing; at its checkpoint the numbers agree.
NInv ==
    /\ checkpoint = None => pages = 0 /\ rows = 0
    /\ checkpoint # None => pages >= 1 /\ Agrees(checkpoint, pages, rows, chunks)

\* The numbers agree where a page starts.
LEMMA CurrentAgrees ==
    ASSUME PInv, NInv, state = "queued"
    PROVE  Agrees(Current(policy), pages, rows, chunks)
<1> DEFINE c == Current(policy)
<1>1. CASE checkpoint # None  BY <1>1 DEF Current, NInv
<1>2. CASE checkpoint = None
  <2>1. c = InitialCheckpoint(policy) /\ chunks = <<>> /\ pages = 0 /\ rows = 0
    BY <1>2 DEF Current, PInv, NInv
  <2>2. policy \in Policies /\ Len(policy) \in Nat /\ DOMAIN policy = 1 .. Len(policy)
    BY PolicyFacts DEF PInv
  <2>3. c.pages = 0 /\ c.cursor = None /\ c.counts = [e \in DOMAIN policy |-> 0]
    BY <2>1 DEF InitialCheckpoint
  <2>4. SumFunction(c.counts) = 0
    <3> DEFINE z == [e \in DOMAIN policy |-> 0]
    <3>1. IsFiniteSet(DOMAIN policy)  BY <2>2, FS_Interval
    <3>2. \A e \in DOMAIN policy : z[e] = 0  OBVIOUS
    <3>3. DOMAIN z = DOMAIN policy  OBVIOUS
    <3> HIDE DEF z
    <3>4. SumFunction(z) = 0  BY <3>1, <3>2, <3>3, SumIsTotal, TotalOfZeros
    <3> HIDE DEF c
    <3> QED  BY <2>3, <3>4 DEF z
  <2>5. ASSUME NEW e \in DOMAIN policy PROVE Counted(chunks, e) = 0
    <3>1. ChunksOf(chunks, e) = {}  BY <2>1 DEF ChunksOf
    <3> DEFINE f == [k \in ChunksOf(chunks, e) |-> chunks[k].count]
    <3> HIDE DEF f
    <3>2. Total(f, {}) = 0  BY FS_EmptySet, TotalOfZeros
    <3> QED  BY <3>1, <3>2 DEF Counted, f
  <2> HIDE DEF c
  <2>6. Agrees(c, 0, 0, chunks)  BY <2>3, <2>4, <2>5 DEF Agrees
  <2> QED  BY <2>1, <2>6 DEF c
<1> QED  BY <1>1, <1>2

\* A page adds its rows to its entity's count, and to the sum, once.
LEMMA AdvancedAgrees ==
    ASSUME policy \in Policies, NEW c \in Checkpoint(policy), c.entity <= Len(policy),
           NEW n \in Nat, NEW r \in Nat, NEW ch, Agrees(c, n, r, ch),
           NEW ids, ids = PageIds(c), NEW more, more = Cardinality(ids), NEW new,
           \A e \in DOMAIN policy : Counted(new, e) = IF e = c.entity THEN Counted(ch, e) + more
                                                      ELSE Counted(ch, e)
    PROVE  Agrees(Advanced(c, ids), n + 1, r + more, new)
<1> DEFINE d == Advanced(c, ids)
           ends == EntityEnds(c, ids)
           cur == Cursor(c, ids)
<1>1. /\ d.through = c.through /\ d.pages = c.pages + 1
      /\ d.entity = IF ends THEN c.entity + 1 ELSE c.entity
      /\ d.cursor = IF ends THEN None ELSE cur
  BY AdvancedFields
<1>2. /\ c.entity \in Nat /\ c.counts \in [DOMAIN policy -> Nat]
      /\ Len(policy) \in Nat /\ DOMAIN policy = 1 .. Len(policy) /\ c.entity \in DOMAIN policy
  BY CheckpointFields, PolicyFacts
<1>3. more \in Nat  BY PageRows
<1>4. d.counts = [c.counts EXCEPT ![c.entity] = @ + more]  BY DEF Advanced, Checkpoint
<1>5. ~ends => c.through[c.entity] # None /\ cur <= c.through[c.entity]
  <2> SUFFICES ASSUME ~ends PROVE c.through[c.entity] # None /\ cur <= c.through[c.entity]
    OBVIOUS
  <2>1. PageIds(c) # {}  BY EndsIfEmpty
  <2>2. cur \in PageIds(c)  BY <2>1, CursorIsLast
  <2> QED  BY <2>1, <2>2, PageIdsAre DEF First, Candidates
<1>6. /\ c.pages = n /\ SumFunction(c.counts) = r
      /\ \A e \in DOMAIN policy : c.counts[e] = Counted(ch, e)
  BY DEF Agrees
<1> HIDE DEF d, ends, cur
<1>7. SumFunction(d.counts) = r + more
  <2> DEFINE D == DOMAIN policy
             f == c.counts
             h == [f EXCEPT ![c.entity] = @ + more]
  <2>1. IsFiniteSet(D)  BY <1>2, FS_Interval
  <2>2. f \in [D -> Nat] /\ DOMAIN f = D /\ DOMAIN h = D  BY <1>2
  <2>3. SumFunction(f) = Total(f, D) /\ SumFunction(h) = Total(h, D)  BY <2>2, SumIsTotal
  <2>4. Total(h, D) = Total(f, D) + more
    <3> HIDE DEF f, D
    <3>1. c.entity \in D  BY <1>2 DEF D
    <3> QED  BY <1>3, <2>1, <2>2, <3>1, TotalMoves
  <2> HIDE DEF D, h
  <2> QED  BY <1>4, <1>6, <2>3, <2>4 DEF h
<1>8. ASSUME NEW e \in DOMAIN policy PROVE d.counts[e] = Counted(new, e)
  BY <1>2, <1>4, <1>6
<1>9. d.entity = Len(policy) + 1 => d.cursor = None  BY <1>1, <1>2
<1>10. d.cursor # None => d.through[d.entity] # None /\ d.cursor <= d.through[d.entity]
  BY <1>1, <1>5
<1>11. d.pages = n + 1  BY <1>1, <1>6
<1>12. Agrees(d, n + 1, r + more, new)  BY <1>7, <1>8, <1>9, <1>10, <1>11 DEF Agrees
<1> QED  BY <1>12 DEF d

\* What a page has to show.
LEMMA AgreesNext ==
    ASSUME NEW c, NEW n \in Nat, NEW r, NEW ch, Agrees(c, n + 1, r, ch), c # None,
           policy' = policy, checkpoint' = c, pages' = n + 1, rows' = r, chunks' = ch
    PROVE  NInv'
<1>1. Agrees(checkpoint, pages, rows, chunks)'  BY DEF Agrees, Counted, ChunksOf
<1> QED  BY <1>1 DEF NInv

LEMMA RowsPageAgrees ==
    ASSUME PInv, NInv, NEW p \in Policies, NEW reached \in SUBSET Id, RowsPage(p, reached)
    PROVE  NInv'
<1> DEFINE c == Current(p)
           ids == PageIds(c)
           more == Cardinality(ids)
           d == Advanced(c, ids)
<1>1. /\ p = policy /\ state = "queued" /\ pages \in Nat /\ rows \in Nat
      /\ chunks \in Seq(ChunkType)
  BY DEF RowsPage, Runs, PInv, TypeOK, ChunkType
<1>2. c \in Checkpoint(policy) /\ Agrees(c, pages, rows, chunks)
  BY <1>1, CurrentStands, CurrentAgrees DEF Stands
<1>3. /\ c.entity <= Len(p) /\ chunks' = Append(chunks, Chunk(c, ids)) /\ Store(d, p, ids)
  BY DEF RowsPage
<1>4. ids \in SUBSET Id /\ more \in Nat  BY <1>1, <1>2, PageRows
<1>5. c.entity \in Entity  BY <1>1, <1>2, <1>3, PolicyFacts, CheckpointFields
<1>6. d \in Checkpoint(policy) /\ d # None  BY <1>1, <1>2, <1>3, AdvancedFields, NoneIsNew
<1> HIDE DEF c, ids, more, d
<1>7. /\ Chunk(c, ids) \in ChunkType
      /\ Chunk(c, ids).entity = c.entity /\ Chunk(c, ids).count = more
  BY <1>4, <1>5 DEF Chunk, ChunkType, more
<1>8. \A e \in DOMAIN policy :
        Counted(chunks', e) = IF e = c.entity THEN Counted(chunks, e) + more
                              ELSE Counted(chunks, e)
  BY <1>1, <1>3, <1>7, CountedAppend
<1>9. Agrees(d, pages + 1, rows + more, chunks')
  BY <1>1, <1>2, <1>3, <1>8, AdvancedAgrees DEF c, ids, more, d
<1> QED  BY <1>1, <1>3, <1>6, <1>9, AgreesNext DEF Store, more

LEMMA EmptyPageAgrees ==
    ASSUME PInv, NInv, NEW p \in Policies, EmptyPage(p)
    PROVE  NInv'
<1> DEFINE c == Current(p)
           d == Advanced(c, {})
<1>1. /\ p = policy /\ state = "queued" /\ pages \in Nat /\ rows \in Nat
      /\ chunks \in Seq(ChunkType)
  BY DEF EmptyPage, Runs, PInv, TypeOK, ChunkType
<1>2. c \in Checkpoint(policy) /\ Agrees(c, pages, rows, chunks)
  BY <1>1, CurrentStands, CurrentAgrees DEF Stands
<1>3. c.entity <= Len(p) /\ PageIds(c) = {} /\ chunks' = chunks /\ Store(d, p, {})
  BY DEF EmptyPage
<1>4. d \in Checkpoint(policy) /\ d # None  BY <1>1, <1>2, <1>3, AdvancedFields, NoneIsNew
<1>5. Cardinality({}) = 0  BY FS_EmptySet
<1>6. \A e \in DOMAIN policy : Counted(chunks, e) \in Nat
  <2> SUFFICES ASSUME NEW e \in DOMAIN policy PROVE Counted(chunks, e) \in Nat  OBVIOUS
  <2> DEFINE f == [k \in ChunksOf(chunks, e) |-> chunks[k].count]
  <2>1. IsFiniteSet(ChunksOf(chunks, e)) /\ Counts(f, ChunksOf(chunks, e))
    BY <1>1, ChunksOfFinite DEF Counts
  <2> HIDE DEF f
  <2>2. Total(f, ChunksOf(chunks, e)) \in Nat  BY <2>1, TotalIsSum
  <2> QED  BY <2>2 DEF Counted, f
<1> HIDE DEF c, d
<1>7. \A e \in DOMAIN policy :
        Counted(chunks, e) = IF e = c.entity THEN Counted(chunks, e) + 0 ELSE Counted(chunks, e)
  BY <1>6
<1>8. Agrees(d, pages + 1, rows + 0, chunks)
  BY <1>1, <1>2, <1>3, <1>5, <1>7, AdvancedAgrees DEF d
<1> QED  BY <1>1, <1>3, <1>4, <1>5, <1>8, AgreesNext DEF Store

LEMMA LastPageAgrees ==
    ASSUME PInv, NInv, NEW p \in Policies, LastPage(p)
    PROVE  NInv'
<1> DEFINE c == Current(p)
           d == [c EXCEPT !.pages = @ + 1]
<1>1. p = policy /\ state = "queued" /\ pages \in Nat /\ rows \in Nat
  BY DEF LastPage, Runs, PInv, TypeOK
<1>2. c \in Checkpoint(policy) /\ Agrees(c, pages, rows, chunks)
  BY <1>1, CurrentStands, CurrentAgrees DEF Stands
<1>3. chunks' = chunks /\ Store(d, p, {}) /\ Cardinality({}) = 0
  BY FS_EmptySet DEF LastPage
<1> HIDE DEF c
<1>4. /\ d \in Checkpoint(policy) /\ d.through = c.through /\ d.entity = c.entity
      /\ d.cursor = c.cursor
  BY <1>2, TurnedFields
<1>5. d.counts = c.counts /\ d.pages = c.pages + 1  BY <1>2 DEF Checkpoint
<1>6. d # None  BY <1>1, <1>4, NoneIsNew
<1> HIDE DEF d
<1>7. Agrees(d, pages + 1, rows, chunks)  BY <1>2, <1>4, <1>5 DEF Agrees
<1>8. rows' = rows  BY <1>1, <1>3 DEF Store
<1> QED  BY <1>1, <1>3, <1>6, <1>7, <1>8, AgreesNext DEF Store

LEMMA NInvNext == PInv /\ NInv /\ [Next]_vars => NInv'
<1> SUFFICES ASSUME PInv, NInv, [Next]_vars PROVE NInv'  OBVIOUS
<1>1. ASSUME UNCHANGED <<policy, output>> PROVE NInv'
  <2>1. UNCHANGED <<policy, checkpoint, pages, rows, chunks>>  BY <1>1 DEF output
  <2> QED  BY <2>1 DEF NInv, Agrees, Counted, ChunksOf
<1>2. ASSUME NEW t \in {"erase", "export"}, NEW p \in Policies, Submit(t, p) PROVE NInv'
  <2>1. checkpoint = None /\ UNCHANGED <<checkpoint, pages, rows>>
    BY <1>2 DEF Submit, output, PInv
  <2> QED  BY <2>1 DEF NInv
<1>3. ASSUME NEW p \in Policies, NEW reached \in SUBSET Id, RowsPage(p, reached) PROVE NInv'
  BY <1>3, RowsPageAgrees
<1>4. ASSUME NEW p \in Policies, EmptyPage(p) PROVE NInv'  BY <1>4, EmptyPageAgrees
<1>5. ASSUME NEW p \in Policies, LastPage(p) PROVE NInv'  BY <1>5, LastPageAgrees
<1>6. CASE Fail \/ Cancel \/ Resume  BY <1>1, <1>6 DEF Fail, Cancel, Resume
<1>7. ASSUME NEW e \in Entity, NEW i \in Id, NEW value \in {"absent", "live"}, Edit(e, i, value)
      PROVE  NInv'
  BY <1>1, <1>7 DEF Edit, job
<1>8. CASE UNCHANGED vars  BY <1>1, <1>8 DEF vars, job
<1> QED  BY <1>2, <1>3, <1>4, <1>5, <1>6, <1>7, <1>8 DEF Next, RunPage

\* However many pages have run, the checkpoint, the job and its chunks count the same pages and
\* rows: no worker rejects the checkpoint that another has stored, and the result is true.
THEOREM NumbersAlwaysAgree == Spec => []NumbersAgree
<1>1. Init => NInv  BY DEF Init, NInv
<1>2. Spec => []NInv  BY <1>1, NInvNext, PagedInvariant, PTL DEF Spec
<1>3. PInv /\ NInv => NumbersAgree
  <2> SUFFICES ASSUME PInv, NInv PROVE NumbersAgree  OBVIOUS
  <2>1. TypeOK  BY DEF PInv
  <2>2. ASSUME checkpoint # None
        PROVE  Accepted(checkpoint, policy) /\ pages >= 1
               /\ \A e \in DOMAIN policy : checkpoint.counts[e] = Counted(chunks, e)
    <3>1. Agrees(checkpoint, pages, rows, chunks) /\ pages >= 1  BY <2>2 DEF NInv
    <3>2. policy \in Policies
      BY <2>2 DEF PInv, TypeOK
    <3>3. DOMAIN checkpoint.counts = DOMAIN policy
      <4>1. checkpoint \in Checkpoint(policy)  BY <2>2 DEF PInv, Stands
      <4> QED  BY <3>2, <4>1, CheckpointFields
    <3> QED  BY <3>1, <3>3 DEF Agrees, Accepted
  <2> QED  BY <2>1, <2>2, CountedIsSum DEF NumbersAgree
<1> QED  BY <1>2, <1>3, PagedInvariant, PTL

-----------------------------------------------------------------------------
(* Changes *)

LEMMA RowsPageTells ==
    ASSUME PInv, ChangesAreKnown, NEW p \in Policies, NEW reached \in SUBSET Id,
           RowsPage(p, reached)
    PROVE  ChangesAreKnown'
<1> DEFINE c == Current(p)
           e0 == c.entity
           new == Chunk(c, PageIds(c))
<1>1. /\ state = "queued" /\ p = policy /\ policy' = policy /\ type' = type
      /\ reached = {} \/ Reports(policy[e0])
      /\ table' = [table EXCEPT ![e0] = Written(e0, policy[e0], reached)]
      /\ chunks' = Append(chunks, new)
      /\ changed' = (changed \/ Reports(policy[e0]))
      /\ untouched' = Scope(c)
  BY DEF RowsPage, Runs, Store, Changed, Reports
<1>2. /\ table \in [Entity -> [Id -> {"absent", "live", "clean"}]] /\ changed \in BOOLEAN
      /\ untouched \in [Entity -> SUBSET Id]
      /\ chunks \in Seq([entity: Entity, count: Nat, ids: SUBSET Id])
  BY DEF PInv, TypeOK
<1>3. new.entity = e0  BY DEF Chunk
<1>4. changed' <=> type = "erase" /\ \E k \in DOMAIN chunks' : policy[chunks'[k].entity].row # "no-op"
  <2>1. /\ DOMAIN chunks' = DOMAIN chunks \cup {Len(chunks) + 1}
        /\ chunks'[Len(chunks) + 1] = new /\ \A k \in DOMAIN chunks : chunks'[k] = chunks[k]
    <3> DEFINE C == [entity: Entity, count: Nat, ids: SUBSET Id]
    <3> HIDE DEF new, C
    <3>1. chunks \in Seq(C)  BY <1>2 DEF C
    <3> QED  BY <1>1, <3>1
  <2>2. Reports(policy[e0]) <=> type = "erase" /\ policy[e0].row # "no-op"  BY DEF Reports
  <2>3. changed <=> type = "erase" /\ \E k \in DOMAIN chunks : policy[chunks[k].entity].row # "no-op"
    BY DEF ChangesAreKnown
  <2> HIDE DEF c, e0, new
  <2> QED  BY <1>1, <1>3, <2>1, <2>2, <2>3
<1>5. ASSUME ~changed', NEW e \in Entity
      PROVE  /\ \A i \in untouched'[e] : table'[e][i] # "absent"
             /\ \A i \in Id : table'[e][i] # "clean"
  <2>1. reached = {} /\ ~changed  BY <1>1, <1>2, <1>5
  <2>2. \A i \in Id : table'[e][i] = table[e][i]
    <3> HIDE DEF c, e0
    <3>1. CASE e = e0
      <4>1. table'[e] = Written(e, policy[e], {})  BY <1>1, <1>2, <2>1, <3>1
      <4> QED  BY <4>1 DEF Written
    <3>2. CASE e # e0  BY <1>1, <1>2, <3>2
    <3> QED  BY <3>1, <3>2
  <2>3. /\ \A i \in untouched[e] : table[e][i] # "absent"
        /\ \A i \in Id : table[e][i] # "clean"
    BY <2>1 DEF ChangesAreKnown
  <2>4. ASSUME NEW i \in untouched'[e] PROVE i \in Id /\ table[e][i] # "absent"
    <3>1. i \in untouched[e] \/ i \in Present(e)
      <4> HIDE DEF c
      <4>1. untouched'[e] \in {untouched[e], Present(e), {}}  BY <1>1 DEF Scope
      <4> QED  BY <2>4, <4>1
    <3> QED  BY <1>2, <2>3, <3>1 DEF Present
  <2> QED  BY <2>2, <2>3, <2>4
<1> HIDE DEF c, e0, new
<1> QED  BY <1>1, <1>4, <1>5 DEF ChangesAreKnown

\* A page without rows, or a step of the job, changes nothing and reports nothing.
LEMMA QuietStepTells ==
    ASSUME PInv, ChangesAreKnown, UNCHANGED <<table, chunks, changed>>,
           UNCHANGED <<policy, type>> \/ chunks = <<>>,
           \A e \in Entity : \A i \in untouched'[e] : i \in untouched[e] \/ i \in Present(e)
    PROVE  ChangesAreKnown'
<1>1. changed' <=> type' = "erase" /\ \E k \in DOMAIN chunks' : policy'[chunks'[k].entity].row # "no-op"
  <2>1. CASE UNCHANGED <<policy, type>>  BY <2>1 DEF ChangesAreKnown
  <2>2. CASE chunks = <<>>  BY <2>2 DEF ChangesAreKnown
  <2> QED  BY <2>1, <2>2
<1>2. ASSUME ~changed', NEW e \in Entity
      PROVE  /\ \A i \in untouched'[e] : table'[e][i] # "absent"
             /\ \A i \in Id : table'[e][i] # "clean"
  BY <1>2 DEF ChangesAreKnown, Present
<1> QED  BY <1>1, <1>2 DEF ChangesAreKnown

LEMMA EditTells ==
    ASSUME PInv, ChangesAreKnown, NEW e \in Entity, NEW i \in Id, NEW value \in {"absent", "live"},
           Edit(e, i, value)
    PROVE  ChangesAreKnown'
<1>1. /\ table' = [table EXCEPT ![e][i] = value]
      /\ untouched' = [untouched EXCEPT ![e] = @ \ {i}]
      /\ UNCHANGED <<type, policy, changed, chunks>>
  BY DEF Edit, job, output
<1>2. /\ table \in [Entity -> [Id -> {"absent", "live", "clean"}]]
      /\ untouched \in [Entity -> SUBSET Id]
  BY DEF PInv, TypeOK
<1>3. ASSUME NEW f \in Entity, NEW h \in Id
      PROVE  /\ table'[f][h] = IF f = e /\ h = i THEN value ELSE table[f][h]
             /\ h \in untouched'[f] => h \in untouched[f] /\ ~(f = e /\ h = i)
  <2>1. table[f] \in [Id -> {"absent", "live", "clean"}]  BY <1>2
  <2>2. table' = [table EXCEPT ![e] = [table[e] EXCEPT ![i] = value]]  BY <1>1
  <2> QED  BY <1>1, <1>2, <2>1, <2>2
<1>4. untouched' \in [Entity -> SUBSET Id]  BY <1>1, <1>2
<1>5. ASSUME ~changed', NEW f \in Entity
      PROVE  /\ \A h \in untouched'[f] : table'[f][h] # "absent"
             /\ \A h \in Id : table'[f][h] # "clean"
  <2>1. ~changed  BY <1>1, <1>5
  <2>2. /\ \A h \in untouched[f] : table[f][h] # "absent"
        /\ \A h \in Id : table[f][h] # "clean"
    BY <2>1 DEF ChangesAreKnown
  <2>3. \A h \in untouched'[f] : h \in Id  BY <1>4
  <2> QED  BY <1>3, <2>2, <2>3
<1> QED  BY <1>1, <1>5 DEF ChangesAreKnown

LEMMA ChangesKnownNext == PInv /\ ChangesAreKnown /\ [Next]_vars => ChangesAreKnown'
<1> SUFFICES ASSUME PInv, ChangesAreKnown, [Next]_vars PROVE ChangesAreKnown'  OBVIOUS
<1>1. ASSUME NEW t \in {"erase", "export"}, NEW p \in Policies, Submit(t, p)
      PROVE  ChangesAreKnown'
  <2>1. chunks = <<>> /\ UNCHANGED <<table, chunks, changed, untouched>>
    BY <1>1 DEF Submit, output, PInv
  <2> QED  BY <2>1, QuietStepTells
<1>2. ASSUME NEW p \in Policies, NEW reached \in SUBSET Id, RowsPage(p, reached)
      PROVE  ChangesAreKnown'
  BY <1>2, RowsPageTells
<1>3. ASSUME NEW p \in Policies, EmptyPage(p) \/ LastPage(p) PROVE ChangesAreKnown'
  <2>1. /\ UNCHANGED <<table, chunks, changed, policy, type>>
        /\ untouched' = Scope(Current(p))
    BY <1>3 DEF EmptyPage, LastPage, Store
  <2>2. \A e \in Entity : untouched'[e] \in {untouched[e], Present(e), {}}
    BY <2>1 DEF Scope
  <2>3. \A e \in Entity : \A i \in untouched'[e] : i \in untouched[e] \/ i \in Present(e)
    BY <2>2
  <2> QED  BY <2>1, <2>3, QuietStepTells
<1>4. CASE Fail \/ Cancel \/ Resume \/ UNCHANGED vars
  <2>1. UNCHANGED <<table, chunks, changed, policy, type, untouched>>
    BY <1>4 DEF Fail, Cancel, Resume, output, vars, job
  <2> QED  BY <2>1, QuietStepTells
<1>5. ASSUME NEW e \in Entity, NEW i \in Id, NEW value \in {"absent", "live"}, Edit(e, i, value)
      PROVE  ChangesAreKnown'
  BY <1>5, EditTells
<1> QED  BY <1>1, <1>2, <1>3, <1>4, <1>5 DEF Next, RunPage

\* A job that does not say that createPagedPrivacyHandler has changed business data has
\* changed none, and one that says so has a chunk of a page that did.
THEOREM ChangesAlwaysKnown == Spec => []ChangesAreKnown
<1>1. Init => ChangesAreKnown  BY DEF Init, ChangesAreKnown
<1> QED  BY <1>1, ChangesKnownNext, PagedInvariant, PTL DEF Spec
===============================================================================
