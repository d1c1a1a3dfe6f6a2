---------------------------- MODULE MCPagedPrivacy ----------------------------
(* Instances of PagedPrivacy for TLC: see the PagedPrivacy_*.cfg files. *)
EXTENDS PagedPrivacy

Ids == 1 .. 3

Erases(row) == [row |-> row, exports |-> FALSE]
Exports(row) == [row |-> row, exports |-> TRUE]

\* Two entities, one, and none: rows deleted or updated or kept, with and without an
\* export. A worker may have any of the three.
SomePolicies == {<<Exports("delete-row"), Exports("no-op")>>,
                 <<Erases("update-fields")>>, <<>>}
===============================================================================
