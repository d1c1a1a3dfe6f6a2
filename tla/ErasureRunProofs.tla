--------------------------- MODULE ErasureRunProofs ---------------------------
(***************************************************************************)
(* That an erasure keeps its word for any entities, rows, policies and      *)
(* cascades, and for any number of steps of the application.                *)
(*                                                                         *)
(* SuccessIsErased is not inductive: what is promised of a row when the run *)
(* ends was established, entity by entity, by the verification (Checked),   *)
(* and stays so because all writes are over by then and because a row that  *)
(* the application touches is no longer among the untouched.  An entity to  *)
(* be deleted needs one thing more (OwnOrGone): its rows never change, they *)
(* only go, so that the last check, which asks for rows of the subject and  *)
(* not for those seen, misses none of them.                                 *)
(*                                                                         *)
(* WritesAreApproved rests on Standing: from its inspection to its write an *)
(* entity has no row of the subject but those seen, with the values seen,   *)
(* and those the application has touched.  Each entity is written once, and *)
(* until then only deletions of others reach it.                            *)
(***************************************************************************)
EXTENDS ErasureRun, WellFoundedInduction, TLAPS

Shape ==
    /\ TypeOK
    /\ DOMAIN seen = Entity

\* Where the run is.
Running ==
    /\ pc # "idle" => at \in scope /\ reply = "none"
    /\ pc = "lookup" => at \in Identified
    /\ pc = "recheck" => Strategy(at) = "delete-row"

\* A row to be deleted is the subject's until it goes.
OwnOrGone ==
    \A e \in Entity : \A i \in Untouched(e) :
        Strategy(e) = "delete-row" => table[e][i] = None \/ table[e][i]["subject"] = "own"

\* What is written is what was registered; what was approved is what was seen.
Agreed ==
    /\ pc \in {"write", "verify", "recheck"} \/ reply = "erased" => due = scope
    /\ pc \in {"announce", "write"} /\ expected # None =>
        expected.scope = scope /\ expected.rows = Planned(seen)

\* The run has looked at entity e, and has not written to it.
Current(e) ==
    \/ pc = "select" /\ e < at
    \/ pc = "lookup" /\ (e < at \/ e = at)
    \/ pc = "announce"
    \/ pc = "write" /\ ~(e < at)

\* What the subject has of it was seen as it is, or has been touched.
AsSeen(e) ==
    \A i \in Select(e) : i \notin touched[e] =>
        i \in DOMAIN seen[e] /\ seen[e][i] = Fingerprint(e, i)

Standing == \A e \in scope : Current(e) => AsSeen(e)

\* Entity e is as its policy promises.
Checked(e) ==
    \A i \in Untouched(e) : e \in available \/ Strategy(e) = "delete-row" => Dealt(e, i)

\* Verification goes through the entities in order.
Verifying ==
    /\ pc \in {"verify", "recheck"} => \A e \in scope \ residual : e < at => Checked(e)
    /\ reply = "erased" => \A e \in scope : Checked(e)

EInv == Shape /\ Running /\ OwnOrGone /\ Agreed /\ Standing /\ Verifying

-----------------------------------------------------------------------------
(* The order of entities *)

LEMMA FirstIsFirst ==
    ASSUME NEW S \in SUBSET Nat, S # {}
    PROVE  First(S) \in S /\ \A f \in S : First(S) <= f
<1>1. PICK m \in S : \A f \in S : <<f, m>> \notin OpToRel(<, Nat)
  BY NatLessThanWellFounded, WFMin
<1>2. \A f \in S : m <= f
  <2> SUFFICES ASSUME NEW f \in S PROVE m <= f  OBVIOUS
  <2>1. <<f, m>> \notin OpToRel(<, Nat)  BY <1>1
  <2>2. ~(f < m)  BY <2>1 DEF OpToRel
  <2>3. f \in Nat /\ m \in Nat  OBVIOUS
  <2> QED  BY <2>2, <2>3
<1> QED  BY <1>1, <1>2 DEF First

\* From one entity to the next, none is passed over.
LEMMA NextIsNext ==
    ASSUME scope \subseteq Nat, at \in scope, Later(at) # {}
    PROVE  /\ First(Later(at)) \in scope
           /\ \A e \in scope : e < First(Later(at)) <=> e < at \/ e = at
<1>1. First(Later(at)) \in Later(at) /\ \A f \in Later(at) : First(Later(at)) <= f
  <2>1. Later(at) \in SUBSET Nat  BY DEF Later
  <2> QED  BY <2>1, FirstIsFirst
<1>2. First(Later(at)) \in scope /\ First(Later(at)) > at  BY <1>1 DEF Later
<1>3. ASSUME NEW e \in scope, e < First(Later(at)) PROVE e < at \/ e = at
  <2> DEFINE n == First(Later(at))
  <2>1. n \in Nat /\ e \in Nat /\ at \in Nat  BY <1>2
  <2>2. e \in Later(at) => n <= e  BY <1>1
  <2> HIDE DEF n
  <2>3. e < n  BY <1>3 DEF n
  <2>4. ~(e > at)  BY <2>1, <2>2, <2>3 DEF Later
  <2> QED  BY <2>1, <2>4
<1>4. ASSUME NEW e \in scope, e < at \/ e = at PROVE e < First(Later(at))
  <2> DEFINE n == First(Later(at))
  <2>1. n \in Nat /\ e \in Nat /\ at \in Nat /\ n > at  BY <1>2
  <2> HIDE DEF n
  <2>2. e < n  BY <1>4, <2>1
  <2> QED  BY <2>2 DEF n
<1> QED  BY <1>2, <1>3, <1>4

LEMMA LastIsLast ==
    ASSUME scope \subseteq Nat, at \in scope, Later(at) = {}
    PROVE  \A e \in scope : e < at \/ e = at
<1> SUFFICES ASSUME NEW e \in scope PROVE e < at \/ e = at  OBVIOUS
<1>1. ~(e > at) /\ e \in Nat /\ at \in Nat  BY DEF Later
<1> QED  BY <1>1

-----------------------------------------------------------------------------
(* Rows *)

LEMMA TableTyped ==
    ASSUME EInv
    PROVE  /\ table \in [Entity -> [Id -> Row \cup {None}]]
           /\ touched \in [Entity -> SUBSET Id] /\ \A e \in Entity : Untouched(e) \subseteq Id
           /\ scope \subseteq registered /\ registered \subseteq Entity /\ scope \subseteq Nat
BY ConstantsOK DEF EInv, Shape, TypeOK, Untouched

\* A deletion leaves a row as it is, or takes it.
LEMMA DeletedRows ==
    ASSUME EInv, NEW e \in Entity, NEW ids
    PROVE  /\ Deleted(e, ids) \in [Entity -> [Id -> Row \cup {None}]]
           /\ \A f \in Entity, i \in Id :
                Deleted(e, ids)[f][i] =
                    IF i \in ids /\ (f = e \/ <<e, f>> \in Cascade) THEN None ELSE table[f][i]
<1>1. table \in [Entity -> [Id -> Row \cup {None}]]  BY TableTyped
<1>2. ASSUME NEW f \in Entity
      PROVE  [i \in Id |-> IF i \in ids /\ (f = e \/ <<e, f>> \in Cascade) THEN None ELSE table[f][i]]
               \in [Id -> Row \cup {None}]
  <2>1. table[f] \in [Id -> Row \cup {None}]  BY <1>1
  <2> QED  BY <2>1
<1> QED  BY <1>1, <1>2 DEF Deleted

\* What a write changes: the rows that it reaches, and those that it takes with them.
LEMMA ErasedReach ==
    ASSUME EInv, NEW e \in Entity, NEW ids \in SUBSET Select(e), NEW f \in Entity, NEW i \in Id,
           Erased(e, ids)[f][i] # table[f][i]
    PROVE  /\ i \in ids
           /\ f # e => /\ Strategy(e) = "delete-row" /\ <<e, f>> \in Cascade
                      /\ Erased(e, ids)[f][i] = None /\ Erased(e, ids)[e][i] = None
<1>1. table \in [Entity -> [Id -> Row \cup {None}]]  BY TableTyped
<1>2. CASE Strategy(e) = "delete-row"
  <2> DEFINE d == Deleted(e, ids)
  <2>1. Erased(e, ids) = d  BY <1>2 DEF Erased
  <2>2. \A g \in Entity, j \in Id :
          d[g][j] = IF j \in ids /\ (g = e \/ <<e, g>> \in Cascade) THEN None ELSE table[g][j]
    BY DeletedRows
  <2> HIDE DEF d
  <2> QED  BY <1>2, <2>1, <2>2
<1>3. CASE Strategy(e) # "delete-row"
  <2> DEFINE rows == [j \in Id |->
                        IF j \in ids
                        THEN [g \in Field |-> IF g \in Rewritten(e) THEN Replacement(e, g)
                                              ELSE table[e][j][g]]
                        ELSE table[e][j]]
  <2>1. Erased(e, ids) = [table EXCEPT ![e] = rows]  BY <1>3 DEF Erased
  <2>2. i \notin ids => rows[i] = table[e][i]  OBVIOUS
  <2> HIDE DEF rows
  <2>3. f = e  BY <1>1, <2>1
  <2>4. Erased(e, ids)[f] = rows  BY <1>1, <2>1, <2>3
  <2> QED  BY <2>2, <2>3, <2>4
<1> QED  BY <1>2, <1>3

\* A write leaves the rows of other entities as they are, or takes them; where rows are
\* to be deleted, it takes them.
LEMMA ErasedRows ==
    ASSUME EInv, NEW e \in Entity, NEW ids \in SUBSET Select(e)
    PROVE  /\ Erased(e, ids) \in [Entity -> [Id -> Row \cup {None}]]
           /\ \A f \in Entity, i \in Id :
                Strategy(f) = "delete-row" =>
                    Erased(e, ids)[f][i] = None \/ Erased(e, ids)[f][i] = table[f][i]
<1>1. table \in [Entity -> [Id -> Row \cup {None}]]  BY TableTyped
<1>2. CASE Strategy(e) = "delete-row"
  <2>1. Erased(e, ids) = Deleted(e, ids)  BY <1>2 DEF Erased
  <2> DEFINE d == Deleted(e, ids)
  <2>2. /\ d \in [Entity -> [Id -> Row \cup {None}]]
        /\ \A f \in Entity, i \in Id :
             d[f][i] = IF i \in ids /\ (f = e \/ <<e, f>> \in Cascade) THEN None ELSE table[f][i]
    BY DeletedRows
  <2>3. Erased(e, ids) = d  BY <2>1
  <2> HIDE DEF d
  <2> QED  BY <2>2, <2>3
<1>3. CASE Strategy(e) # "delete-row"
  <2> DEFINE rows == [i \in Id |->
                        IF i \in ids
                        THEN [f \in Field |-> IF f \in Rewritten(e) THEN Replacement(e, f)
                                              ELSE table[e][i][f]]
                        ELSE table[e][i]]
  <2>1. Erased(e, ids) = [table EXCEPT ![e] = rows]  BY <1>3 DEF Erased
  <2>2. ASSUME NEW i \in ids
        PROVE  [f \in Field |-> IF f \in Rewritten(e) THEN Replacement(e, f) ELSE table[e][i][f]] \in Row
    <3>1. i \in Id /\ table[e][i] # None  BY DEF Select, Present
    <3>2. table[e][i] \in Row  BY <1>1, <3>1
    <3>3. \A f \in Field : table[e][i][f] \in {"own", "other", "null", "anonymous"}
      BY <3>2 DEF Row
    <3>4. \A f : Replacement(e, f) \in {"own", "other", "null", "anonymous"}
      BY DEF Replacement
    <3> QED  BY <3>3, <3>4 DEF Row
  <2>3. ids \subseteq Id  BY DEF Select, Present
  <2>4. table[e] \in [Id -> Row \cup {None}]  BY <1>1
  <2>5. rows \in [Id -> Row \cup {None}]
    <3> SUFFICES ASSUME NEW i \in Id
                 PROVE  (IF i \in ids
                         THEN [f \in Field |-> IF f \in Rewritten(e) THEN Replacement(e, f)
                                               ELSE table[e][i][f]]
                         ELSE table[e][i]) \in Row \cup {None}
      OBVIOUS
    <3>1. CASE i \in ids  BY <2>2, <3>1
    <3>2. CASE i \notin ids  BY <2>4, <3>2
    <3> QED  BY <3>1, <3>2
  <2> HIDE DEF rows
  <2>6. [table EXCEPT ![e] = rows] \in [Entity -> [Id -> Row \cup {None}]]  BY <1>1, <2>5
  <2>7. \A f \in Entity : Strategy(f) = "delete-row" => Erased(e, ids)[f] = table[f]
    BY <1>1, <1>3, <2>1
  <2> QED  BY <2>1, <2>6, <2>7
<1> QED  BY <1>2, <1>3

-----------------------------------------------------------------------------
(* What stands *)

\* A row that is still untouched is still as its policy promises.
LEMMA CheckStands ==
    ASSUME NEW e, Checked(e), seen' = seen, e \in available' => e \in available,
           \A i \in Untouched(e)' : i \in Untouched(e) /\ table'[e][i] = table[e][i]
    PROVE  Checked(e)'
<1> SUFFICES ASSUME NEW i \in Untouched(e)', e \in available' \/ Strategy(e) = "delete-row"
             PROVE  Dealt(e, i)'
  BY DEF Checked, Strategy, Listed, Rewritten
<1>1. i \in Untouched(e) /\ table'[e][i] = table[e][i]  OBVIOUS
<1>2. Dealt(e, i)  BY <1>1 DEF Checked
<1>3. \A f : Replacement(e, f)' = Replacement(e, f)  BY DEF Replacement
<1>4. Rewritten(e)' = Rewritten(e) /\ Strategy(e)' = Strategy(e)
  BY DEF Rewritten, Strategy, Listed
<1> QED  BY <1>1, <1>2, <1>3, <1>4 DEF Dealt

\* A row that goes or stays as it was needs no other look.
LEMMA SightStands ==
    ASSUME NEW e, AsSeen(e), seen'[e] = seen[e],
           \A i \in Id : i \notin touched'[e] =>
                i \notin touched[e] /\ (table'[e][i] = table[e][i] \/ table'[e][i] = None)
    PROVE  AsSeen(e)'
<1> SUFFICES ASSUME NEW i \in Select(e)', i \notin touched'[e]
             PROVE  i \in DOMAIN seen[e] /\ seen[e][i] = Fingerprint(e, i)'
  BY DEF AsSeen
<1>1. i \in Id /\ table'[e][i] # None /\ table'[e][i]["subject"] = "own"  BY DEF Select, Present
<1>2. i \notin touched[e] /\ table'[e][i] = table[e][i]  BY <1>1
<1>3. i \in Select(e)  BY <1>1, <1>2 DEF Select, Present
<1>4. Fingerprint(e, i)' = Fingerprint(e, i)  BY <1>2 DEF Fingerprint, Fingerprinted, Listed, Rewritten
<1> QED  BY <1>2, <1>3, <1>4 DEF AsSeen

\* Beside the run, rows change only where they are touched.
Aside ==
    /\ UNCHANGED <<run, expected, due>>
    /\ table' \in [Entity -> [Id -> Row \cup {None}]] /\ touched' \in [Entity -> SUBSET Id]
    /\ registered \subseteq registered' /\ registered' \subseteq Entity /\ edits' \in 0 .. MaxEdits
    /\ \A e \in Entity, i \in Id :
          i \notin touched'[e] => i \notin touched[e] /\ table'[e][i] = table[e][i]

LEMMA AsideKeeps == ASSUME EInv, Aside PROVE EInv'
<1>1. /\ pc' = pc /\ at' = at /\ purpose' = purpose /\ scope' = scope /\ seen' = seen
      /\ available' = available /\ residual' = residual /\ reply' = reply
      /\ expected' = expected /\ due' = due
  BY DEF run, Aside
<1>2. Shape'  BY <1>1 DEF EInv, Shape, TypeOK, Aside
<1>3. Running'  BY <1>1 DEF EInv, Running, Strategy, Listed, Rewritten
<1>4. ASSUME NEW e \in Entity, NEW i \in Untouched(e)'
      PROVE  i \in Untouched(e) /\ table'[e][i] = table[e][i]
  <2>1. i \in DOMAIN seen[e] /\ i \notin touched'[e]  BY <1>1 DEF Untouched
  <2>2. i \in Id  BY <2>1 DEF EInv, Shape, TypeOK
  <2> QED  BY <2>1, <2>2 DEF Untouched, Aside
<1>5. OwnOrGone'
  <2> SUFFICES ASSUME NEW e \in Entity, NEW i \in Untouched(e)', Strategy(e) = "delete-row"
               PROVE  table'[e][i] = None \/ table'[e][i]["subject"] = "own"
    BY DEF OwnOrGone, Strategy, Listed, Rewritten
  <2>1. i \in Untouched(e) /\ table'[e][i] = table[e][i]  BY <1>4
  <2>2. OwnOrGone  BY DEF EInv
  <2> QED  BY <2>1, <2>2 DEF OwnOrGone
<1>6. Agreed'  BY <1>1 DEF EInv, Agreed, Planned
<1>7. \A e \in Entity : Checked(e) => Checked(e)'  BY <1>1, <1>4, CheckStands
<1>8. \A e \in Entity : AsSeen(e) => AsSeen(e)'  BY <1>1, SightStands DEF Aside
<1>9. scope \subseteq Entity  BY TableTyped
<1>10. Verifying'  BY <1>1, <1>7, <1>9 DEF EInv, Verifying
<1>11. Standing'  BY <1>1, <1>8, <1>9 DEF EInv, Standing, Current
<1> QED  BY <1>2, <1>3, <1>5, <1>6, <1>10, <1>11 DEF EInv

LEMMA ApplicationIsAside == ASSUME EInv, Application PROVE Aside
<1>1. /\ table \in [Entity -> [Id -> Row \cup {None}]]
      /\ touched \in [Entity -> SUBSET Id] /\ registered \subseteq Entity
  BY TableTyped
<1>2. edits \in 0 .. MaxEdits /\ MaxEdits \in Nat  BY ConstantsOK DEF EInv, Shape, TypeOK
<1>3. PICK e \in Entity : Register(e) \/ \E i \in Id : PutRow(e, i) \/ RemoveRow(e, i)
  BY DEF Application
<1>4. CASE Register(e)
  BY <1>1, <1>2, <1>4 DEF Register, history, Aside
<1>5. ASSUME NEW i \in Id, PutRow(e, i)  PROVE Aside
  <2>1. PICK x \in Edited \ {table[e][i]} : table' = [table EXCEPT ![e][i] = x]
    BY <1>5 DEF PutRow
  <2>2. x \in Row  BY DEF Edited, Row
  <2>3. /\ touched' = [touched EXCEPT ![e] = @ \cup {i}] /\ edits' = edits + 1
        /\ edits < MaxEdits /\ registered' = registered /\ UNCHANGED <<run, expected, due>>
    BY <1>5 DEF PutRow, Edit
  <2>4. table[e] \in [Id -> Row \cup {None}]  BY <1>1
  <2>5. [table[e] EXCEPT ![i] = x] \in [Id -> Row \cup {None}]  BY <2>2, <2>4
  <2>6. table' = [table EXCEPT ![e] = [table[e] EXCEPT ![i] = x]]  BY <2>1
  <2>7. table' \in [Entity -> [Id -> Row \cup {None}]]  BY <1>1, <2>5, <2>6
  <2>8. touched' \in [Entity -> SUBSET Id]  BY <1>1, <2>3
  <2>9. ASSUME NEW f \in Entity, NEW j \in Id, j \notin touched'[f]
        PROVE  j \notin touched[f] /\ table'[f][j] = table[f][j]
    <3>1. j \notin touched[f] /\ (f = e => j # i)  BY <1>1, <2>3, <2>9
    <3>2. CASE f = e
      <4>1. table'[f] = [table[e] EXCEPT ![i] = x]  BY <1>1, <2>6, <3>2
      <4> QED  BY <2>4, <3>1, <3>2, <4>1
    <3>3. CASE f # e  BY <1>1, <2>6, <3>1, <3>3
    <3> QED  BY <3>2, <3>3
  <2>10. edits' \in 0 .. MaxEdits  BY <1>2, <2>3
  <2> QED  BY <1>1, <2>3, <2>7, <2>8, <2>9, <2>10 DEF Aside
<1>6. ASSUME NEW i \in Id, RemoveRow(e, i)  PROVE Aside
  <2>1. /\ table' = Deleted(e, {i}) /\ edits' = edits + 1 /\ edits < MaxEdits
        /\ registered' = registered /\ UNCHANGED <<run, expected, due>>
        /\ touched' = [f \in Entity |->
             IF f = e \/ <<e, f>> \in Cascade THEN touched[f] \cup {i} ELSE touched[f]]
    BY <1>6 DEF RemoveRow, Edit
  <2>2. /\ table' \in [Entity -> [Id -> Row \cup {None}]]
        /\ \A f \in Entity, j \in Id :
             table'[f][j] = IF j \in {i} /\ (f = e \/ <<e, f>> \in Cascade) THEN None ELSE table[f][j]
    BY <2>1, DeletedRows
  <2>3. touched' \in [Entity -> SUBSET Id]  BY <1>1, <2>1
  <2>4. ASSUME NEW f \in Entity, NEW j \in Id, j \notin touched'[f]
        PROVE  j \notin touched[f] /\ table'[f][j] = table[f][j]
    <3>1. j \notin touched[f] /\ (f = e \/ <<e, f>> \in Cascade => j # i)  BY <2>1, <2>4
    <3> QED  BY <2>2, <3>1
  <2>5. edits' \in 0 .. MaxEdits  BY <1>2, <2>1
  <2> QED  BY <1>1, <2>1, <2>2, <2>3, <2>4, <2>5 DEF Aside
<1> QED  BY <1>3, <1>4, <1>5, <1>6

-----------------------------------------------------------------------------
(* Inspection *)

LEMMA InitTrue == Init => EInv
<1> SUFFICES ASSUME Init PROVE EInv  OBVIOUS
<1>1. [f \in Field |-> "own"] \in Row  BY DEF Row
<1>2. table \in [Entity -> [Id -> Row \cup {None}]]  BY <1>1 DEF Init
<1>3. DOMAIN seen = Entity /\ \A e \in Entity : DOMAIN seen[e] = {}  BY DEF Init, NothingSeen
<1>4. Shape  BY <1>2, <1>3, ConstantsOK DEF Init, Shape, TypeOK
<1>5. OwnOrGone  BY <1>3 DEF OwnOrGone, Untouched
<1>6. Agreed /\ Running /\ Standing /\ Verifying
  BY DEF Init, Agreed, Running, Standing, Current, Verifying
<1> QED  BY <1>4, <1>5, <1>6 DEF EInv

LEMMA InspectKeeps ==
    ASSUME EInv, NEW why \in {"preview", "erase", "erase-unverified"}, Inspect(why)
    PROVE  EInv'
<1>1. /\ purpose' = why /\ scope' = registered /\ pc' = "select" /\ at' = First(registered)
      /\ seen' = NothingSeen /\ available' = {} /\ residual' = {} /\ reply' = "none"
      /\ touched' = [e \in Entity |-> {}] /\ registered # {}
      /\ UNCHANGED <<table, registered, expected, due, edits>>
  BY DEF Inspect, Goto
<1>2. registered \subseteq Entity /\ registered \in SUBSET Nat
  BY TableTyped, ConstantsOK
<1>3. at' \in registered /\ \A e \in registered : at' <= e  BY <1>1, <1>2, FirstIsFirst
<1>4. DOMAIN seen' = Entity /\ \A e \in Entity : DOMAIN seen'[e] = {}  BY <1>1 DEF NothingSeen
<1>5. Shape'  BY <1>1, <1>2, <1>3, <1>4 DEF EInv, Shape, TypeOK
<1>6. OwnOrGone'  BY <1>4 DEF OwnOrGone, Untouched
<1>7. Agreed' /\ Running' /\ Verifying'
  BY <1>1, <1>3 DEF Agreed, Running, Verifying
<1>8. Standing'
  <2>1. ASSUME NEW e \in registered PROVE ~(e < at')
    <3>1. e \in Nat /\ at' \in Nat /\ at' <= e  BY <1>2, <1>3
    <3> QED  BY <3>1
  <2> QED  BY <1>1, <2>1 DEF Standing, Current
<1> QED  BY <1>5, <1>6, <1>7, <1>8 DEF EInv

\* What the inspection of an entity leads to.
LEMMA InspectedMeans ==
    ASSUME EInv, pc # "idle", NEW rows, NEW entities, Inspected(rows, entities)
    PROVE  \/ /\ pc' = "select" /\ at' \in scope /\ reply' = "none"
              /\ \A e \in scope : e < at' => e < at \/ e = at
           \/ pc' = "idle" /\ at' = None /\ reply' \in {"mismatch", "previewed", "unavailable"}
           \/ /\ pc' = "announce" /\ at' = at /\ reply' = "none" /\ expected' = expected
              /\ expected # None => expected.scope = scope /\ expected.rows = Planned(rows)
              /\ \A e \in scope : e < at \/ e = at
<1>1. at \in scope /\ reply = "none" /\ scope \subseteq Nat  BY TableTyped DEF EInv, Running
<1>2. CASE Later(at) # {}
  <2>1. pc' = "select" /\ at' = First(Later(at)) /\ reply' = reply
    BY <1>2 DEF Inspected, Onward, Goto
  <2> QED  BY <1>1, <1>2, <2>1, NextIsNext
<1>3. CASE Later(at) = {} /\ registered # scope
  BY <1>3 DEF Inspected, End, Goto
<1>4. CASE Later(at) = {} /\ registered = scope
  <2> DEFINE plan == [scope |-> scope, rows |-> Planned(rows), verified |-> entities]
  <2>1. plan.scope = scope /\ plan.rows = Planned(rows)  OBVIOUS
  <2>2. \/ End("previewed")
        \/ /\ expected' = expected
           /\ \/ End("mismatch")
              \/ End("unavailable")
              \/ Approved(plan) /\ pc' = "announce" /\ at' = at /\ reply' = reply
    BY <1>4 DEF Inspected, Goto
  <2> HIDE DEF plan
  <2>3. Approved(plan) => (expected # None => expected.scope = scope /\ expected.rows = Planned(rows))
    BY <2>1 DEF Approved
  <2>4. \A e \in scope : e < at \/ e = at  BY <1>1, <1>4, LastIsLast
  <2> QED  BY <1>1, <2>2, <2>3, <2>4 DEF End, Goto
<1> QED  BY <1>2, <1>3, <1>4

\* While entities are inspected, rows are seen and none is written.
LEMMA InspectedKeeps ==
    ASSUME EInv, pc \in {"select", "lookup"}, Inspected(seen', available'),
           UNCHANGED <<table, registered, purpose, scope, residual, due, edits>>,
           DOMAIN seen' = Entity, available' \subseteq scope \cap Identified,
           touched' \in [Entity -> SUBSET Id], \A e \in Entity : DOMAIN seen'[e] \subseteq Id,
           OwnOrGone', \A e \in scope : e < at \/ e = at => AsSeen(e)'
    PROVE  EInv'
<1>1. at \in scope /\ reply = "none" /\ scope \subseteq Entity  BY TableTyped DEF EInv, Running
<1>2. \/ /\ pc' = "select" /\ at' \in scope /\ reply' = "none"
         /\ \A e \in scope : e < at' => e < at \/ e = at
      \/ pc' = "idle" /\ at' = None /\ reply' \in {"mismatch", "previewed", "unavailable"}
      \/ /\ pc' = "announce" /\ at' = at /\ reply' = "none" /\ expected' = expected
         /\ expected # None => expected.scope = scope /\ expected.rows = Planned(seen')
         /\ \A e \in scope : e < at \/ e = at
  BY InspectedMeans
<1>3. Shape'  BY <1>1, <1>2 DEF EInv, Shape, TypeOK
<1>4. Planned(seen)' = Planned(seen')  BY DEF Planned
<1>5. Running' /\ Verifying' /\ Agreed'
  BY <1>1, <1>2, <1>4 DEF Running, Verifying, Agreed
<1>6. Standing'  BY <1>2 DEF Standing, Current
<1> QED  BY <1>3, <1>5, <1>6 DEF EInv

LEMMA SelectRowsKeeps == ASSUME EInv, SelectRows PROVE EInv'
<1> DEFINE taken == [i \in Select(at) |-> Fingerprint(at, i)]
<1>1. /\ pc = "select" /\ seen' = [seen EXCEPT ![at] = taken]
      /\ touched' = [touched EXCEPT ![at] = {}]
      /\ UNCHANGED <<table, registered, purpose, scope, available, residual, due, edits>>
  BY DEF SelectRows
<1>2. /\ at \in scope /\ at \in Entity /\ reply = "none" /\ scope \subseteq Entity
      /\ touched \in [Entity -> SUBSET Id]
  BY <1>1, TableTyped DEF EInv, Running
<1>3. DOMAIN seen = Entity /\ TypeOK  BY DEF EInv, Shape
<1>4. /\ DOMAIN taken = Select(at) /\ Select(at) \subseteq Id
      /\ \A i \in Select(at) : taken[i] = Fingerprint(at, i)
  BY DEF Select, Present
<1>5. /\ DOMAIN seen' = Entity
      /\ \A e \in Entity : seen'[e] = IF e = at THEN taken ELSE seen[e]
  BY <1>1, <1>2, <1>3
<1>6. IF at \in Identified
      THEN Goto("lookup") /\ UNCHANGED <<at, reply, expected>>
      ELSE Inspected(seen', available)
  BY <1>1 DEF SelectRows
<1> HIDE DEF taken
<1>7. /\ touched' \in [Entity -> SUBSET Id]
      /\ \A e \in Entity : touched'[e] = IF e = at THEN {} ELSE touched[e]
  BY <1>1, <1>2
<1>8. \A e \in Entity : DOMAIN seen'[e] \subseteq Id  BY <1>3, <1>4, <1>5 DEF TypeOK
<1>9. OwnOrGone'
  <2> SUFFICES ASSUME NEW e \in Entity, NEW i \in Untouched(e)', Strategy(e) = "delete-row"
               PROVE  table'[e][i] = None \/ table'[e][i]["subject"] = "own"
    BY DEF OwnOrGone, Strategy, Listed, Rewritten
  <2>1. CASE e = at
    <3>1. i \in Select(at)  BY <1>4, <1>5, <2>1 DEF Untouched
    <3> QED  BY <1>1, <2>1, <3>1 DEF Select
  <2>2. CASE e # at
    <3>1. i \in Untouched(e)  BY <1>5, <1>7, <2>2 DEF Untouched
    <3> QED  BY <1>1, <3>1 DEF EInv, OwnOrGone
  <2> QED  BY <2>1, <2>2
<1>10. ASSUME NEW e \in scope, e < at \/ e = at PROVE AsSeen(e)'
  <2>1. CASE e = at
    <3> SUFFICES ASSUME NEW i \in Select(e)'
                 PROVE  i \in DOMAIN seen'[e] /\ seen'[e][i] = Fingerprint(e, i)'
      BY DEF AsSeen
    <3>1. i \in Select(at)
      <4>1. Select(e)' = Select(at)  BY <1>1, <2>1 DEF Select, Present
      <4> QED  BY <4>1
    <3>2. Fingerprint(e, i)' = Fingerprint(at, i)
      BY <1>1, <2>1 DEF Fingerprint, Fingerprinted, Listed, Rewritten
    <3> QED  BY <1>2, <1>4, <1>5, <2>1, <3>1, <3>2
  <2>2. CASE e # at
    <3>1. AsSeen(e)  BY <1>1, <1>10, <2>2 DEF EInv, Standing, Current
    <3>2. seen'[e] = seen[e] /\ touched'[e] = touched[e] /\ table' = table
      BY <1>1, <1>2, <1>5, <1>7, <2>2
    <3> QED  BY <3>1, <3>2, SightStands
  <2> QED  BY <2>1, <2>2
<1>11. CASE at \in Identified
  <2>1. pc' = "lookup" /\ at' = at /\ reply' = reply /\ expected' = expected
    BY <1>6, <1>11 DEF Goto
  <2>2. Shape'  BY <1>1, <1>2, <1>3, <1>5, <1>7, <1>8, <2>1 DEF Shape, TypeOK
  <2>3. Running' /\ Agreed' /\ Verifying'
    BY <1>1, <1>2, <1>11, <2>1 DEF Running, Agreed, Verifying
  <2>4. Standing'  BY <1>1, <1>10, <2>1 DEF Standing, Current
  <2> QED  BY <1>9, <2>2, <2>3, <2>4 DEF EInv
<1>12. CASE at \notin Identified
  <2>1. Inspected(seen', available')  BY <1>1, <1>6, <1>12
  <2>2. available' \subseteq scope \cap Identified  BY <1>1, <1>3 DEF TypeOK
  <2> QED  BY <1>1, <1>5, <1>7, <1>8, <1>9, <1>10, <2>1, <2>2, InspectedKeeps
<1> QED  BY <1>11, <1>12

LEMMA LookUpKeeps == ASSUME EInv, LookUp PROVE EInv'
<1>1. /\ pc = "lookup" /\ available' \in {available, available \cup {at}}
      /\ Inspected(seen, available')
      /\ UNCHANGED <<table, registered, purpose, scope, seen, residual, touched, due, edits>>
  BY DEF LookUp, history
<1>2. at \in scope /\ at \in Identified  BY <1>1 DEF EInv, Running
<1>3. /\ available \subseteq scope \cap Identified /\ DOMAIN seen = Entity
      /\ touched \in [Entity -> SUBSET Id]
      /\ \A e \in Entity : DOMAIN seen[e] \subseteq Id
  BY DEF EInv, Shape, TypeOK
<1>4. available' \subseteq scope \cap Identified  BY <1>1, <1>2, <1>3
<1>5. OwnOrGone'  BY <1>1 DEF EInv, OwnOrGone, Strategy, Listed, Rewritten, Untouched
<1>6. seen' = seen  BY <1>1
<1>7. Inspected(seen', available')  BY <1>1, <1>6
<1>8. ASSUME NEW e \in scope, e < at \/ e = at PROVE AsSeen(e)'
  <2>1. AsSeen(e)  BY <1>1, <1>8 DEF EInv, Standing, Current
  <2> QED  BY <1>1, <2>1, SightStands
<1> QED  BY <1>1, <1>3, <1>4, <1>5, <1>6, <1>7, <1>8, InspectedKeeps

-----------------------------------------------------------------------------
(* The run *)

\* The step changes no row.
LEMMA NoRowKeeps ==
    ASSUME EInv, UNCHANGED <<table, registered, purpose, scope, seen, available, expected,
                             touched, edits>>,
           pc' \in {"idle", "select", "lookup", "announce", "write", "verify", "recheck"},
           at' \in scope \cup {None}, residual' \subseteq scope, due' \subseteq Entity,
           reply' \in {"none", "failed", "mismatch", "residual", "erased"},
           Running', Agreed', Standing', Verifying'
    PROVE  EInv'
<1>1. scope \subseteq Entity  BY TableTyped
<1>2. Shape'  BY <1>1 DEF EInv, Shape, TypeOK
<1>3. OwnOrGone'  BY DEF EInv, OwnOrGone, Strategy, Listed, Rewritten, Untouched
<1> QED  BY <1>2, <1>3 DEF EInv

LEMMA AnnounceKeeps == ASSUME EInv, Announce PROVE EInv'
<1>1. /\ pc = "announce"
      /\ UNCHANGED <<table, registered, purpose, scope, seen, available, residual, expected,
                     touched, edits>>
  BY DEF Announce
<1>2. /\ at \in scope /\ scope \in SUBSET Nat /\ reply = "none" /\ scope \subseteq Entity
      /\ expected # None => expected.scope = scope /\ expected.rows = Planned(seen)
  BY <1>1, TableTyped DEF EInv, Running, Agreed
<1>3. residual \subseteq scope /\ due \subseteq Entity  BY DEF EInv, Shape, TypeOK
<1>4. CASE pc' = "idle" /\ at' = None /\ reply' \in {"failed", "mismatch"} /\ due' = due
  <2>1. Running' /\ Agreed' /\ Standing' /\ Verifying'
    BY <1>4 DEF Running, Agreed, Standing, Current, Verifying
  <2> QED  BY <1>1, <1>3, <1>4, <2>1, NoRowKeeps
<1>5. CASE registered = scope /\ Phase("write") /\ due' = registered
  <2>1. pc' = "write" /\ at' = First(scope) /\ reply' = reply /\ due' = scope
    BY <1>5 DEF Phase, Goto
  <2>2. First(scope) \in scope  BY <1>2, FirstIsFirst
  <2>3. Planned(seen)' = Planned(seen)  BY <1>1 DEF Planned
  <2>4. Running' /\ Agreed' /\ Verifying'
    BY <1>1, <1>2, <2>1, <2>2, <2>3 DEF Running, Agreed, Verifying
  <2>5. \A e \in scope : AsSeen(e)  BY <1>1 DEF EInv, Standing, Current
  <2>6. \A e \in scope : AsSeen(e)'  BY <1>1, <2>5, SightStands
  <2>7. Standing'  BY <1>1, <2>6 DEF Standing
  <2> QED  BY <1>1, <1>2, <1>3, <2>1, <2>2, <2>4, <2>7, NoRowKeeps
<1> QED  BY <1>4, <1>5 DEF Announce, End, Goto

LEMMA WriteKeeps == ASSUME EInv, Write PROVE EInv'
<1>1. /\ pc = "write" /\ UNCHANGED <<registered, purpose, scope, seen, available, residual,
                                     expected, touched, due, edits>>
  BY DEF Write, history
<1>2. /\ at \in scope /\ scope \in SUBSET Nat /\ reply = "none" /\ scope \subseteq Entity
      /\ due = scope /\ (expected # None => expected.scope = scope /\ expected.rows = Planned(seen))
  BY <1>1, TableTyped DEF EInv, Running, Agreed
<1>3. PICK ids \in SUBSET Select(at) : table' = Erased(at, ids)  BY DEF Write
<1>4. at \in Entity  BY <1>2
<1>5. /\ table' \in [Entity -> [Id -> Row \cup {None}]]
      /\ \A f \in Entity, i \in Id :
            Strategy(f) = "delete-row" => table'[f][i] = None \/ table'[f][i] = table[f][i]
  BY <1>3, <1>4, ErasedRows
<1>6. \A e \in Entity : Untouched(e) \subseteq Id /\ Untouched(e)' = Untouched(e)
  BY <1>1, TableTyped DEF Untouched
<1>7. OwnOrGone'
  <2> SUFFICES ASSUME NEW e \in Entity, NEW i \in Untouched(e), Strategy(e) = "delete-row"
               PROVE  table'[e][i] = None \/ table'[e][i]["subject"] = "own"
    BY <1>6 DEF OwnOrGone, Strategy, Listed, Rewritten
  <2>1. i \in Id  BY <1>6
  <2>2. table[e][i] = None \/ table[e][i]["subject"] = "own"  BY DEF EInv, OwnOrGone
  <2> QED  BY <1>5, <2>1, <2>2
<1>8. \/ /\ pc' = "write" /\ at' \in scope /\ reply' = "none"
         /\ \A e \in scope : e < at' <=> e < at \/ e = at
      \/ pc' = "verify" /\ at' \in scope /\ reply' = "none" /\ \A e \in scope : ~(e < at')
      \/ pc' = "idle" /\ at' = None /\ reply' = "failed"
  <2>1. CASE Onward("write", Phase("verify")) /\ Later(at) # {}
    <3>1. pc' = "write" /\ at' = First(Later(at)) /\ reply' = reply
      BY <2>1 DEF Onward, Goto
    <3> QED  BY <1>2, <2>1, <3>1, NextIsNext
  <2>2. CASE Onward("write", Phase("verify")) /\ Later(at) = {}
    <3>1. pc' = "verify" /\ at' = First(scope) /\ reply' = reply
      BY <2>2 DEF Onward, Phase, Goto
    <3>2. First(scope) \in scope /\ \A e \in scope : First(scope) <= e
      BY <1>2, FirstIsFirst
    <3>3. \A e \in scope : ~(e < at')
      <4> SUFFICES ASSUME NEW e \in scope PROVE ~(e < at')  OBVIOUS
      <4>1. at' \in Nat /\ e \in Nat /\ at' <= e  BY <1>2, <3>1, <3>2
      <4> QED  BY <4>1
    <3> QED  BY <1>2, <3>1, <3>2, <3>3
  <2>3. CASE End("failed")  BY <2>3 DEF End, Goto
  <2> QED  BY <2>1, <2>2, <2>3 DEF Write
<1>9. Shape'  BY <1>1, <1>2, <1>5, <1>8 DEF EInv, Shape, TypeOK
<1>10. Planned(seen)' = Planned(seen)  BY <1>1 DEF Planned
<1>11. Running' /\ Agreed' /\ Verifying'
  BY <1>1, <1>2, <1>8, <1>10 DEF Running, Agreed, Verifying
<1>12. ASSUME NEW e \in scope, e # at, AsSeen(e) PROVE AsSeen(e)'
  <2>1. \A i \in Id : table'[e][i] = table[e][i] \/ table'[e][i] = None
    BY <1>2, <1>3, <1>4, <1>12, ErasedReach
  <2> QED  BY <1>1, <1>12, <2>1, SightStands
<1>13. Standing'
  <2>1. ASSUME NEW e \in scope, Current(e)' PROVE AsSeen(e)'
    <3>1. ~(e < at) /\ e # at  BY <1>8, <2>1 DEF Current
    <3>2. AsSeen(e)  BY <1>1, <3>1 DEF EInv, Standing, Current
    <3> QED  BY <1>12, <3>1, <3>2
  <2> QED  BY <1>1, <2>1 DEF Standing
<1> QED  BY <1>7, <1>9, <1>11, <1>13 DEF EInv

\* An entity has been verified, and the run goes on to the next or ends.
LEMMA VerifiedKeeps ==
    ASSUME EInv, pc \in {"verify", "recheck"}, NEW failed, residual' = failed,
           residual \subseteq failed, failed \subseteq scope, at \notin failed => Checked(at),
           Onward("verify", Verified(failed)),
           UNCHANGED <<table, registered, purpose, scope, seen, available, expected, history, edits>>
    PROVE  EInv'
<1>1. /\ at \in scope /\ scope \subseteq Nat /\ reply = "none" /\ scope \subseteq Entity
      /\ due = scope /\ due \subseteq Entity
  BY TableTyped DEF EInv, Running, Agreed
<1>2. \A e : Checked(e) => Checked(e)'  BY CheckStands DEF history, Untouched
<1>3. \A e \in scope \ failed : e < at \/ e = at => Checked(e)  BY DEF EInv, Verifying
<1>4. touched' = touched /\ due' = due  BY DEF history
<1>5. CASE Later(at) # {}
  <2>1. pc' = "verify" /\ at' = First(Later(at)) /\ reply' = reply  BY <1>5 DEF Onward, Goto
  <2>2. at' \in scope /\ \A e \in scope : e < at' => e < at \/ e = at
    BY <1>1, <1>5, <2>1, NextIsNext
  <2>3. Verifying'  BY <1>1, <1>2, <1>3, <2>1, <2>2 DEF Verifying
  <2>4. Running' /\ Agreed' /\ Standing'
    BY <1>1, <1>4, <2>1, <2>2 DEF Running, Agreed, Standing, Current
  <2> QED  BY <1>1, <1>4, <2>1, <2>2, <2>3, <2>4, NoRowKeeps
<1>6. CASE Later(at) = {}
  <2>1. /\ pc' = "idle" /\ at' = None /\ reply' \in {"residual", "erased"}
        /\ reply' = "erased" => failed = {}
    BY <1>6 DEF Onward, Verified, End, Goto
  <2>2. \A e \in scope : e < at \/ e = at  BY <1>1, <1>6, LastIsLast
  <2>3. Verifying'  BY <1>2, <1>3, <2>1, <2>2 DEF Verifying
  <2>4. Running' /\ Agreed' /\ Standing'
    BY <1>1, <1>4, <2>1 DEF Running, Agreed, Standing, Current
  <2> QED  BY <1>1, <1>4, <2>1, <2>3, <2>4, NoRowKeeps
<1> QED  BY <1>5, <1>6

LEMMA VerifyRowsKeeps == ASSUME EInv, VerifyRows PROVE EInv'
<1> DEFINE failed == IF at \in available /\ \E i \in DOMAIN seen[at] : Fails(at, i)
                     THEN residual \cup {at} ELSE residual
<1>1. /\ pc = "verify" /\ residual' = failed
      /\ IF Strategy(at) = "delete-row" THEN Goto("recheck") /\ UNCHANGED <<at, reply>>
         ELSE Onward("verify", Verified(failed))
      /\ UNCHANGED <<table, registered, purpose, scope, seen, available, expected, history, edits>>
  BY DEF VerifyRows
<1>2. /\ at \in scope /\ at \in Entity /\ reply = "none" /\ residual \subseteq scope
      /\ due = scope /\ due \subseteq Entity
  BY <1>1, TableTyped DEF EInv, Running, Agreed, Shape, TypeOK
<1>3. residual \subseteq failed /\ failed \subseteq scope  BY <1>2
<1>4. at \notin failed => (at \in available => \A i \in DOMAIN seen[at] : ~Fails(at, i))
  OBVIOUS
<1> HIDE DEF failed
<1>5. CASE Strategy(at) = "delete-row"
  <2>1. /\ pc' = "recheck" /\ at' = at /\ reply' = reply /\ touched' = touched /\ due' = due
    BY <1>1, <1>5 DEF Goto, history
  <2>2. \A e : Checked(e) => Checked(e)'  BY <1>1, CheckStands DEF history, Untouched
  <2>3. Verifying'  BY <1>1, <1>2, <1>3, <2>1, <2>2 DEF EInv, Verifying
  <2>4. Strategy(at)' = Strategy(at)  BY <2>1 DEF Strategy, Listed, Rewritten
  <2>5. Running' /\ Agreed' /\ Standing'
    BY <1>1, <1>2, <1>5, <2>1, <2>4 DEF Running, Agreed, Standing, Current
  <2> QED  BY <1>1, <1>2, <1>3, <2>1, <2>3, <2>5, NoRowKeeps
<1>6. CASE Strategy(at) # "delete-row"
  <2>1. ASSUME at \notin failed PROVE Checked(at)
    <3> SUFFICES ASSUME NEW i \in Untouched(at), at \in available PROVE Dealt(at, i)
      BY <1>6 DEF Checked
    <3>1. ~Fails(at, i)  BY <1>4, <2>1 DEF Untouched
    <3>2. /\ table[at][i] # None
          /\ \A f \in Listed(at) :
                table[at][i][f] = IF f \in Rule[at].retains THEN seen[at][i][f]
                                  ELSE Replacement(at, f)
      BY <1>6, <3>1 DEF Fails
    <3>3. \A f \in Rewritten(at) : f \in Listed(at) /\ f \notin Rule[at].retains
      BY <1>2, ConstantsOK DEF Rewritten, Listed
    <3>4. \A f \in Rule[at].retains : f \in Listed(at)  BY DEF Listed
    <3> QED  BY <1>6, <3>2, <3>3, <3>4 DEF Dealt
  <2> QED  BY <1>1, <1>3, <1>6, <2>1, VerifiedKeeps
<1> QED  BY <1>5, <1>6

LEMMA RecheckRowsKeeps == ASSUME EInv, RecheckRows PROVE EInv'
<1> DEFINE failed == IF Select(at) # {} THEN residual \cup {at} ELSE residual
<1>1. /\ pc = "recheck" /\ residual' = failed /\ Onward("verify", Verified(failed))
      /\ UNCHANGED <<table, registered, purpose, scope, seen, available, expected, history, edits>>
  BY DEF RecheckRows
<1>2. /\ at \in scope /\ at \in Entity /\ Strategy(at) = "delete-row" /\ residual \subseteq scope
      /\ Untouched(at) \subseteq Id
  BY <1>1, TableTyped DEF EInv, Running, Shape, TypeOK
<1>3. residual \subseteq failed /\ failed \subseteq scope  BY <1>2
<1>4. ASSUME at \notin failed PROVE Checked(at)
  <2>1. Select(at) = {}  BY <1>4
  <2> SUFFICES ASSUME NEW i \in Untouched(at) PROVE table[at][i] = None
    BY <1>2 DEF Checked, Dealt
  <2>2. i \in Id  BY <1>2
  <2>3. table[at][i] = None \/ table[at][i]["subject"] = "own"  BY <1>2 DEF EInv, OwnOrGone
  <2> QED  BY <2>1, <2>2, <2>3 DEF Select, Present
<1> HIDE DEF failed
<1> QED  BY <1>1, <1>3, <1>4, VerifiedKeeps

-----------------------------------------------------------------------------
(* Theorems *)

LEMMA StepsKeep == ASSUME EInv, [Next]_vars PROVE EInv'
<1>1. CASE UNCHANGED vars
  <2>1. UNCHANGED <<table, registered, run, expected, touched, due, edits>>
    BY <1>1 DEF vars, history
  <2>2. Aside  BY <2>1, TableTyped DEF EInv, Shape, TypeOK, Aside
  <2> QED  BY <2>2, AsideKeeps
<1>2. CASE Application  BY <1>2, ApplicationIsAside, AsideKeeps
<1>3. CASE Erase
  BY <1>3, InspectKeeps, SelectRowsKeeps, LookUpKeeps, AnnounceKeeps, WriteKeeps, VerifyRowsKeeps,
     RecheckRowsKeeps
  DEF Erase
<1> QED  BY <1>1, <1>2, <1>3 DEF Next

\* An erasure that succeeds has dealt with every row that it saw and the application left
\* alone, of every entity that was registered when it began to write.
THEOREM SuccessErased == Spec => []SuccessIsErased
<1>1. EInv /\ [Next]_vars => EInv'  BY StepsKeep
<1>2. EInv => SuccessIsErased
  BY DEF EInv, Shape, Agreed, Verifying, Checked, SuccessIsErased
<1> QED  BY InitTrue, <1>1, <1>2, PTL DEF Spec

\* What a write reaches has been approved, or touched.
LEMMA ReachedIsApproved ==
    ASSUME EInv, Write, expected # None, NEW i \in Select(at)
    PROVE  May(at, i)
<1>1. pc = "write" /\ touched' = touched  BY DEF Write, history
<1>2. /\ at \in scope /\ at \in Nat /\ at \in Entity
      /\ expected.scope = scope /\ expected.rows = Planned(seen)
  BY <1>1, TableTyped DEF EInv, Running, Agreed
<1>3. AsSeen(at)
  <2>1. ~(at < at)  BY <1>2
  <2> QED  BY <1>1, <1>2, <2>1 DEF EInv, Standing, Current
<1>4. ASSUME i \notin touched[at] PROVE Approves(at, i)
  <2>1. i \in DOMAIN seen[at] /\ seen[at][i] = Fingerprint(at, i)  BY <1>3, <1>4 DEF AsSeen
  <2>2. CASE at \in Identified
    <3>1. expected.rows[at] = seen[at]  BY <1>2, <2>2 DEF Planned
    <3> QED  BY <1>2, <2>1, <2>2, <3>1 DEF Approves
  <2>3. CASE at \notin Identified
    <3>1. DOMAIN expected.rows[at] = {seen[at][j] : j \in DOMAIN seen[at]}
      BY <1>2, <2>3 DEF Planned
    <3> QED  BY <1>2, <2>1, <2>3, <3>1 DEF Approves
  <2> QED  BY <2>2, <2>3
<1> QED  BY <1>1, <1>4 DEF May

\* What WritesAreApproved says of a step, and of row i of e.
ApprovedAt(e, i) ==
    table'[e][i] # table[e][i] =>
        \/ May(e, i)
        \/ /\ table'[e][i] = None
           /\ \E f \in Entity : /\ <<f, e>> \in Cascade /\ Strategy(f) = "delete-row"
                                /\ table[f][i] # None /\ table'[f][i] = None
                                /\ May(f, i)

LEMMA StepsAreApproved ==
    ASSUME EInv, [Next]_vars, pc = "write", expected # None, NEW e \in Entity, NEW i \in Id
    PROVE  ApprovedAt(e, i)
<1> SUFFICES ASSUME table'[e][i] # table[e][i]
             PROVE  \/ May(e, i)
                    \/ /\ table'[e][i] = None
                       /\ \E f \in Entity : /\ <<f, e>> \in Cascade /\ Strategy(f) = "delete-row"
                                            /\ table[f][i] # None /\ table'[f][i] = None
                                            /\ May(f, i)
  BY DEF ApprovedAt
<1>1. CASE Application
  <2>1. i \in touched'[e]  BY <1>1, ApplicationIsAside DEF Aside
  <2> QED  BY <2>1 DEF May
<1>2. CASE Write
  <2>1. at \in Entity  BY TableTyped DEF EInv, Running
  <2>2. PICK ids \in SUBSET Select(at) : table' = Erased(at, ids)  BY <1>2 DEF Write
  <2>3. /\ i \in ids
        /\ e # at => /\ Strategy(at) = "delete-row" /\ <<at, e>> \in Cascade
                     /\ table'[e][i] = None /\ table'[at][i] = None
    BY <2>1, <2>2, ErasedReach
  <2>4. May(at, i)  BY <1>2, <2>3, ReachedIsApproved
  <2>5. table[at][i] # None  BY <2>3 DEF Select, Present
  <2> QED  BY <2>1, <2>3, <2>4, <2>5
<1>3. CASE UNCHANGED vars  BY <1>3 DEF vars
<1> QED
  BY <1>1, <1>2, <1>3 DEF Next, Erase, Inspect, SelectRows, LookUp, Announce, VerifyRows, RecheckRows

\* An approved erasure changes a row only if its preview showed it with the values that it
\* still has, or the application changed it since the erasure looked, or it refers to such
\* a row that is deleted.
THEOREM WritesApproved == Spec => WritesAreApproved
<1>1. EInv /\ [Next]_vars => EInv'  BY StepsKeep
<1>2. EInv /\ [Next]_vars =>
        [pc = "write" /\ expected # None =>
            \A e \in Entity, i \in Id :
                table'[e][i] # table[e][i] =>
                    \/ May(e, i)
                    \/ /\ table'[e][i] = None
                       /\ \E f \in Entity : /\ <<f, e>> \in Cascade /\ Strategy(f) = "delete-row"
                                            /\ table[f][i] # None /\ table'[f][i] = None
                                            /\ May(f, i)]_vars
  BY StepsAreApproved DEF ApprovedAt
<1> QED  BY InitTrue, <1>1, <1>2, PTL DEF Spec, WritesAreApproved
===============================================================================
